---------------------------- MODULE WorkspaceProofs ----------------------------
(***************************************************************************)
(* Proofs about the workspace: types, unique ids, caches that agree with   *)
(* the tables, status events that follow them, contractors who change      *)
(* reports only - for any number of replicas and handlers and any bodies.  *)
(*                                                                         *)
(* A cache is a sequence of rows, a table a function from ids to rows.     *)
(* Below(t, table, rows): the rows have distinct ids, all of the table but *)
(* those of the roles of seed; Mirrors(table, rows): they are the rows of  *)
(* the table, none missing.                                                *)
(* Each statement of the repository, then each method of the store, then   *)
(* each step of the service is shown to keep both, or to be excused by     *)
(* what it adds to upset.                                                  *)
(***************************************************************************)
EXTENDS WorkspaceService, FiniteSetTheorems, TLAPS

-----------------------------------------------------------------------------
(* Lists and tables. *)

\* The ids a list may show that its table lacks: the roles of seed.
Unstored(t) == IF t = "roles" THEN CM!SeedIds ELSE {}
\* The list rows knows its rows apart, and the table has a row for each of the others.
Below(t, table, rows) ==
    CM!Repo!Distinct(rows) /\ CM!Ids(rows) \subseteq DOMAIN table \cup Unstored(t)
\* It lists every row, as the table has it, whatever its count.
Bare(x) == [f \in DOMAIN x \ {"count"} |-> x[f]]
Mirrors(table, rows) ==
    /\ CM!Ids(rows) = DOMAIN table
    /\ \A i \in DOMAIN rows : Bare(rows[i]) = Bare(table[rows[i].id])

\* What holds of a table and a list of its rows holds of their successors.
Follows(t, table, rows, table2, rows2) ==
    /\ CM!Repo!IsTable(t, table2) /\ CM!Repo!IsList(t, rows2)
    /\ Below(t, table, rows) => Below(t, table2, rows2)
    /\ Below(t, table, rows) /\ Mirrors(table, rows) => Mirrors(table2, rows2)

\* The kinds of rows: those of the tables, and the items of a project.
Kinds == Tables \cup {"items"}

\* A set of numbers has a least one.
LEMMA Least ==
    ASSUME NEW S \in SUBSET Nat, S # {}
    PROVE  \E n \in S : \A k \in S : n <= k
<1>1. PICK n \in S : \A k \in S : ~ (<<k, n>> \in OpToRel(<, Nat))
    BY NatLessThanWellFounded, WFMin
<1>2. ASSUME NEW k \in S
      PROVE  n <= k
    <2>1. <<k, n>> \in Nat \X Nat
        OBVIOUS
    <2>2. ~(k < n)
        BY <1>1, <2>1 DEF OpToRel
    <2> QED
        BY <2>2
<1> QED
    BY <1>2

\* Find returns the place of a row with the id, or 0 when there is none.
LEMMA FindRow ==
    ASSUME NEW rows, NEW S, rows \in Seq(S), NEW id
    PROVE  LET i == CM!Find(rows, id) IN
           \/ i = 0 /\ \A k \in DOMAIN rows : rows[k].id # id
           \/ i \in DOMAIN rows /\ rows[i].id = id
<1> DEFINE I == {k \in 1..Len(rows) : rows[k].id = id}
<1>1. DOMAIN rows = 1..Len(rows) /\ Len(rows) \in Nat
    OBVIOUS
<1>2. CASE I = {}
    <2>1. CM!Find(rows, id) = 0
        BY <1>2 DEF CM!Find, CM!SelectInSeq
    <2> QED
        BY <2>1, <1>2, <1>1
<1>3. CASE I # {}
    <2>1. I \in SUBSET Nat
        BY <1>1
    <2>2. \E n \in I : \A k \in I : n <= k
        BY <1>3, <2>1, Least
    <2>3. CM!Find(rows, id) = CHOOSE n \in I : \A k \in I : n <= k
        BY <1>3 DEF CM!Find, CM!SelectInSeq, CM!Min
    <2>4. CM!Find(rows, id) \in I
        BY <2>2, <2>3
    <2> QED
        BY <2>4, <1>1
<1> QED
    BY <1>2, <1>3

\* A list is a finite sequence of rows of its kind.
LEMMA ListSeq ==
    ASSUME NEW t, NEW rows, CM!Repo!IsList(t, rows)
    PROVE  /\ rows \in Seq(Range(rows)) /\ Len(rows) \in Nat /\ DOMAIN rows = 1..Len(rows)
           /\ \A i \in DOMAIN rows : CM!Repo!IsRow(t, rows[i])
BY DEF CM!Repo!IsList, CM!Repo!IsLog, CM!Repo!Range, Range

\* A function from 1..n to rows of a kind is a list of them.
LEMMA ListMade ==
    ASSUME NEW t, NEW rows, NEW n \in Nat, rows = [i \in 1..n |-> rows[i]],
           \A i \in 1..n : CM!Repo!IsRow(t, rows[i])
    PROVE  CM!Repo!IsList(t, rows)
<1>1. DOMAIN rows = 1..n
    OBVIOUS
<1>2. rows \in [1..n -> Range(rows)]
    BY DEF Range
<1>3. rows \in Seq(Range(rows))
    BY <1>2
<1> QED
    BY <1>1, <1>3 DEF CM!Repo!IsList, CM!Repo!IsLog, CM!Repo!Range, Range

\* The id of a row is a number.
LEMMA RowId ==
    ASSUME NEW t \in Kinds, NEW x, CM!Repo!IsRow(t, x)
    PROVE  "id" \in DOMAIN x /\ x.id \in Int /\ Bare(x).id = x.id
<1>1. "id" \in CM!Repo!Columns[t]
    BY DEF Kinds, Tables, CM!Repo!Tables, CM!Repo!Keyed, CM!Repo!Columns
<1>2. DOMAIN x = CM!Repo!Columns[t]
    BY DEF CM!Repo!IsRow
<1> QED
    BY <1>1, <1>2 DEF CM!Repo!IsRow, Bare

\* The row of a table under an id has that id.
LEMMA TableRow ==
    ASSUME NEW t \in Kinds, NEW table, CM!Repo!IsTable(t, table), NEW id \in DOMAIN table
    PROVE  CM!Repo!IsRow(t, table[id]) /\ table[id].id = id /\ id \in Int
BY RowId DEF CM!Repo!IsTable

\* Rows under their own ids are a table.
LEMMA TableMade ==
    ASSUME NEW t, NEW table, NEW S, IsFiniteSet(S), table = [id \in S |-> table[id]],
           \A id \in S : CM!Repo!IsRow(t, table[id]) /\ table[id].id = id
    PROVE  CM!Repo!IsTable(t, table)
<1>1. DOMAIN table = S
    OBVIOUS
<1> QED
    BY <1>1 DEF CM!Repo!IsTable, CM!Repo!IsFiniteSet, IsFiniteSet

\* Nothing changed.
LEMMA FollowsSame ==
    ASSUME NEW t \in Kinds, NEW table, NEW rows,
           CM!Repo!IsTable(t, table), CM!Repo!IsList(t, rows)
    PROVE  Follows(t, table, rows, table, rows)
BY DEF Follows

\* A row that the table did not have goes into both, whatever its count.
LEMMA TableWith ==
    ASSUME NEW t \in Kinds, NEW table, CM!Repo!IsTable(t, table),
           NEW x, CM!Repo!IsRow(t, x)
    PROVE  CM!Repo!IsTable(t, CM!Repo!With(table, x.id, x))
<1> DEFINE new == CM!Repo!With(table, x.id, x)
<1>1. new = [k \in DOMAIN table \cup {x.id} |-> IF k = x.id THEN x ELSE table[k]]
    BY DEF CM!Repo!With
<1>2. IsFiniteSet(DOMAIN table \cup {x.id})
    <2>1. IsFiniteSet(DOMAIN table)
        BY DEF CM!Repo!IsTable, CM!Repo!IsFiniteSet, IsFiniteSet
    <2> QED
        BY <2>1, FS_AddElement
<1>3. \A k \in DOMAIN table \cup {x.id} : CM!Repo!IsRow(t, new[k]) /\ new[k].id = k
    BY <1>1 DEF CM!Repo!IsTable
<1>4. new = [k \in DOMAIN table \cup {x.id} |-> new[k]]
    BY <1>1
<1> QED
    BY <1>2, <1>3, <1>4, TableMade

\* A list with a row more at the end.
LEMMA ListAppend ==
    ASSUME NEW t \in Kinds, NEW rows, CM!Repo!IsList(t, rows),
           NEW x, CM!Repo!IsRow(t, x)
    PROVE  /\ CM!Repo!IsList(t, Append(rows, x))
           /\ DOMAIN Append(rows, x) = 1..(Len(rows) + 1)
           /\ \A i \in 1..Len(rows) : Append(rows, x)[i] = rows[i]
           /\ Append(rows, x)[Len(rows) + 1] = x
<1> DEFINE new == Append(rows, x)
<1>1. /\ rows \in Seq(Range(rows)) /\ Len(rows) \in Nat /\ DOMAIN rows = 1..Len(rows)
      /\ \A i \in DOMAIN rows : CM!Repo!IsRow(t, rows[i])
    BY ListSeq
<1>2. rows \in Seq(Range(rows) \cup {x})
    BY <1>1
<1>3. /\ DOMAIN new = 1..(Len(rows) + 1) /\ \A i \in 1..Len(rows) : new[i] = rows[i]
      /\ new[Len(rows) + 1] = x /\ new = [i \in 1..(Len(rows) + 1) |-> new[i]]
      /\ Len(rows) + 1 \in Nat
    <2>1. new \in Seq(Range(rows) \cup {x}) /\ Len(new) = Len(rows) + 1
        BY <1>2
    <2>2. \A i \in 1..Len(rows) : new[i] = rows[i]
        BY <1>2
    <2>3. new[Len(rows) + 1] = x
        BY <1>2
    <2> HIDE DEF new
    <2>4. DOMAIN new = 1..Len(new) /\ new = [i \in 1..Len(new) |-> new[i]]
        BY <2>1
    <2> QED
        BY <2>1, <2>2, <2>3, <2>4, <1>1
<1>4. \A i \in 1..(Len(rows) + 1) : CM!Repo!IsRow(t, new[i])
    BY <1>1, <1>3
<1> HIDE DEF new
<1>5. CM!Repo!IsList(t, new)
    BY <1>3, <1>4, ListMade
<1> USE DEF new
<1> QED
    BY <1>3, <1>5

\* InsertX into the table, append to the list.
LEMMA FollowsGrown ==
    ASSUME NEW t \in Kinds, NEW table, NEW rows,
           CM!Repo!IsTable(t, table), CM!Repo!IsList(t, rows),
           NEW x, CM!Repo!IsRow(t, x), x.id \notin DOMAIN table \cup Unstored(t)
    PROVE  Follows(t, table, rows, CM!Repo!With(table, x.id, x), Append(rows, x))
<1> DEFINE table2 == CM!Repo!With(table, x.id, x)
           rows2 == Append(rows, x)
           n == Len(rows)
<1>1. /\ CM!Repo!IsList(t, rows2) /\ DOMAIN rows2 = 1..(n + 1)
      /\ \A i \in 1..n : rows2[i] = rows[i]
      /\ rows2[n + 1] = x /\ n \in Nat /\ DOMAIN rows = 1..n
    BY ListAppend, ListSeq
<1>2. /\ CM!Repo!IsTable(t, table2)
      /\ table2 = [k \in DOMAIN table \cup {x.id} |-> IF k = x.id THEN x ELSE table[k]]
    BY TableWith DEF CM!Repo!With
<1>3. DOMAIN rows2 = DOMAIN rows \cup {n + 1} /\ n + 1 \notin DOMAIN rows
    BY <1>1
<1>4. ASSUME Below(t, table, rows)
      PROVE  Below(t, table2, rows2)
    <2>1. \A i \in DOMAIN rows : rows[i].id # x.id
        BY <1>4 DEF Below, CM!Ids
    <2>2. CM!Repo!Distinct(rows2)
        BY <1>4, <1>1, <1>3, <2>1 DEF Below, CM!Repo!Distinct
    <2>3. CM!Ids(rows2) \subseteq DOMAIN table2 \cup Unstored(t)
        BY <1>4, <1>1, <1>2, <1>3 DEF Below, CM!Ids
    <2> QED
        BY <2>2, <2>3 DEF Below
<1>5. ASSUME Below(t, table, rows), Mirrors(table, rows)
      PROVE  Mirrors(table2, rows2)
    <2>1. CM!Ids(rows2) = DOMAIN table2
        BY <1>5, <1>1, <1>2, <1>3 DEF Mirrors, CM!Ids
    <2>2. ASSUME NEW i \in DOMAIN rows2
          PROVE  Bare(rows2[i]) = Bare(table2[rows2[i].id])
        <3>1. CASE i = n + 1
            <4>1. table2[x.id] = x /\ rows2[i] = x
                BY <3>1, <1>1, <1>2
            <4> QED
                BY <4>1
        <3>2. CASE i \in DOMAIN rows
            <4>1. rows[i].id \in DOMAIN table /\ rows2[i] = rows[i]
                BY <1>5, <3>2, <1>1 DEF Mirrors, CM!Ids
            <4>2. table2[rows[i].id] = table[rows[i].id]
                BY <4>1, <1>2
            <4> QED
                BY <4>1, <4>2, <3>2, <1>5 DEF Mirrors
        <3> QED
            BY <3>1, <3>2, <1>3
    <2> QED
        BY <2>1, <2>2 DEF Mirrors
<1> QED
    BY <1>1, <1>2, <1>4, <1>5 DEF Follows

\* Lists with the ids of one another.
LEMMA SameIds ==
    ASSUME NEW rows, NEW rows2, DOMAIN rows2 = DOMAIN rows,
           \A i \in DOMAIN rows : rows2[i].id = rows[i].id
    PROVE  CM!Ids(rows2) = CM!Ids(rows)
BY DEF CM!Ids

\* A row is replaced in both by rows with its id, that differ in the count at most.
LEMMA FollowsPut ==
    ASSUME NEW t \in Kinds, NEW table, NEW rows,
           CM!Repo!IsTable(t, table), CM!Repo!IsList(t, rows),
           NEW i \in DOMAIN rows, NEW x, NEW y, CM!Repo!IsRow(t, x), CM!Repo!IsRow(t, y),
           Bare(x) = Bare(y), x.id = rows[i].id, x.id \in DOMAIN table
    PROVE  Follows(t, table, rows, [table EXCEPT ![x.id] = y], [rows EXCEPT ![i] = x])
<1> DEFINE table2 == [table EXCEPT ![x.id] = y]
           rows2 == [rows EXCEPT ![i] = x]
<1>1. /\ rows \in Seq(Range(rows)) /\ Len(rows) \in Nat /\ DOMAIN rows = 1..Len(rows)
      /\ \A k \in DOMAIN rows : CM!Repo!IsRow(t, rows[k])
    BY ListSeq
<1>2. /\ rows2 = [k \in 1..Len(rows) |-> rows2[k]] /\ DOMAIN rows2 = DOMAIN rows
      /\ rows2[i] = x /\ \A k \in DOMAIN rows : k # i => rows2[k] = rows[k]
    BY <1>1
<1>3. \A k \in 1..Len(rows) : CM!Repo!IsRow(t, rows2[k])
    BY <1>1, <1>2
<1>4. CM!Repo!IsList(t, rows2)
    BY <1>1, <1>2, <1>3, ListMade
<1>5. \A k \in DOMAIN rows2 : rows2[k].id = rows[k].id
    BY <1>2
<1>6. y.id = x.id
    BY RowId
<1>7. /\ table2 = [k \in DOMAIN table |-> table2[k]] /\ DOMAIN table2 = DOMAIN table
      /\ table2[x.id] = y /\ \A k \in DOMAIN table : k # x.id => table2[k] = table[k]
    OBVIOUS
<1>8. CM!Repo!IsTable(t, table2)
    <2>1. IsFiniteSet(DOMAIN table)
        BY DEF CM!Repo!IsTable, CM!Repo!IsFiniteSet, IsFiniteSet
    <2>2. \A k \in DOMAIN table : CM!Repo!IsRow(t, table2[k]) /\ table2[k].id = k
        BY <1>6, <1>7 DEF CM!Repo!IsTable
    <2> QED
        BY <2>1, <2>2, <1>7, TableMade
<1>9. ASSUME Below(t, table, rows)
      PROVE  Below(t, table2, rows2)
    BY <1>9, <1>2, <1>5, <1>7 DEF Below, CM!Ids, CM!Repo!Distinct
<1>10. ASSUME Below(t, table, rows), Mirrors(table, rows)
       PROVE  Mirrors(table2, rows2)
    <2>1. CM!Ids(rows2) = DOMAIN table2
        <3>1. CM!Ids(rows2) = CM!Ids(rows)
            BY <1>2, <1>5, SameIds
        <3> QED
            BY <3>1, <1>7, <1>10 DEF Mirrors
    <2>2. ASSUME NEW k \in DOMAIN rows2
          PROVE  Bare(rows2[k]) = Bare(table2[rows2[k].id])
        <3>1. CASE k = i
            BY <3>1, <1>2, <1>7
        <3>2. CASE k # i
            <4>1. rows[k].id # rows[i].id /\ rows[k].id \in DOMAIN table
                BY <3>2, <1>2, <1>10 DEF Below, Mirrors, CM!Repo!Distinct, CM!Ids
            <4>2. table2[rows[k].id] = table[rows[k].id] /\ rows2[k] = rows[k]
                BY <4>1, <3>2, <1>2, <1>7
            <4> QED
                BY <4>2, <1>2, <1>10 DEF Mirrors
        <3> QED
            BY <3>1, <3>2
    <2> QED
        BY <2>1, <2>2 DEF Mirrors
<1> QED
    BY <1>4, <1>8, <1>9, <1>10 DEF Follows

\* A row leaves both.
LEMMA TableWithout ==
    ASSUME NEW t \in Kinds, NEW table, CM!Repo!IsTable(t, table), NEW S \in SUBSET DOMAIN table
    PROVE  CM!Repo!IsTable(t, CM!Repo!Restrict(table, S))
<1> DEFINE new == CM!Repo!Restrict(table, S)
<1>1. new = [k \in S |-> table[k]]
    BY DEF CM!Repo!Restrict
<1>2. IsFiniteSet(S)
    <2>1. IsFiniteSet(DOMAIN table)
        BY DEF CM!Repo!IsTable, CM!Repo!IsFiniteSet, IsFiniteSet
    <2> QED
        BY <2>1, FS_Subset
<1>3. \A k \in S : CM!Repo!IsRow(t, new[k]) /\ new[k].id = k
    BY <1>1 DEF CM!Repo!IsTable
<1>4. new = [k \in S |-> new[k]]
    BY <1>1
<1> QED
    BY <1>2, <1>3, <1>4, TableMade

\* A sequence without its i-th element.
LEMMA SeqRemoveAt ==
    ASSUME NEW S, NEW rows, rows \in Seq(S), NEW i \in 1..Len(rows)
    PROVE  /\ CM!RemoveAt(rows, i) \in Seq(S)
           /\ DOMAIN CM!RemoveAt(rows, i) = 1..(Len(rows) - 1)
           /\ \A k \in 1..(Len(rows) - 1) :
                CM!RemoveAt(rows, i)[k] = IF k < i THEN rows[k] ELSE rows[k + 1]
<1> DEFINE new == CM!RemoveAt(rows, i)
           n == Len(rows)
           left == SubSeq(rows, 1, i - 1)
           right == SubSeq(rows, i + 1, n)
<1>1. n \in Nat
    OBVIOUS
<1>2. new = left \o right
    BY DEF CM!RemoveAt
<1>4. Len(left) = i - 1 /\ left \in Seq(S) /\ \A k \in 1..(i - 1) : left[k] = rows[k]
    BY <1>1
<1>5. Len(right) = n - i /\ right \in Seq(S) /\ \A k \in 1..(n - i) : right[k] = rows[i + k]
    BY <1>1
<1> HIDE DEF left, right, new
<1>6. Len(left) \in Nat /\ Len(right) \in Nat /\ Len(left) + Len(right) = n - 1 /\ n - 1 \in Nat
    BY <1>1, <1>4, <1>5
<1>7. /\ new \in Seq(S) /\ Len(new) = Len(left) + Len(right)
      /\ \A k \in 1..(Len(left) + Len(right)) :
           new[k] = IF k <= Len(left) THEN left[k] ELSE right[k - Len(left)]
    <2>1. left \in Seq(S) /\ right \in Seq(S) /\ Len(left) \in Nat /\ Len(right) \in Nat
        BY <1>4, <1>5
    <2>2. new \in Seq(S) /\ Len(new) = Len(left) + Len(right)
        BY <2>1, <1>2
    <2>3. \A k \in 1..(Len(left) + Len(right)) :
            new[k] = IF k <= Len(left) THEN left[k] ELSE right[k - Len(left)]
        BY <2>1, <1>2
    <2> QED
        BY <2>2, <2>3
<1>8. DOMAIN new = 1..(n - 1)
    BY <1>6, <1>7
<1>9. ASSUME NEW k \in 1..(n - 1)
      PROVE  new[k] = IF k < i THEN rows[k] ELSE rows[k + 1]
    <2>1. CASE k < i
        <3>1. k \in 1..(i - 1) /\ k <= Len(left)
            BY <2>1, <1>1, <1>4
        <3> QED
            BY <3>1, <2>1, <1>4, <1>6, <1>7
    <2>2. CASE ~(k < i)
        <3>1. k - (i - 1) \in 1..(n - i) /\ ~(k <= Len(left)) /\ i + (k - (i - 1)) = k + 1
            BY <2>2, <1>1, <1>4
        <3>2. new[k] = right[k - (i - 1)]
            BY <3>1, <1>4, <1>6, <1>7
        <3>3. right[k - (i - 1)] = rows[k + 1]
            BY <3>1, <1>5
        <3> QED
            BY <3>2, <3>3, <2>2
    <2> QED
        BY <2>1, <2>2
<1> USE DEF new
<1> QED
    BY <1>7, <1>8, <1>9

\* A list without its i-th row.
LEMMA ListRemoveAt ==
    ASSUME NEW t \in Kinds, NEW rows, CM!Repo!IsList(t, rows), NEW i \in DOMAIN rows
    PROVE  /\ CM!Repo!IsList(t, CM!RemoveAt(rows, i))
           /\ DOMAIN CM!RemoveAt(rows, i) = 1..(Len(rows) - 1)
           /\ \A k \in 1..(Len(rows) - 1) :
                CM!RemoveAt(rows, i)[k] = IF k < i THEN rows[k] ELSE rows[k + 1]
<1> DEFINE new == CM!RemoveAt(rows, i)
           n == Len(rows)
<1>1. /\ rows \in Seq(Range(rows)) /\ n \in Nat /\ DOMAIN rows = 1..n
      /\ \A k \in DOMAIN rows : CM!Repo!IsRow(t, rows[k])
    BY ListSeq
<1>2. /\ new \in Seq(Range(rows)) /\ DOMAIN new = 1..(n - 1)
      /\ \A k \in 1..(n - 1) : new[k] = IF k < i THEN rows[k] ELSE rows[k + 1]
    <2>1. i \in 1..Len(rows) /\ rows \in Seq(Range(rows))
        BY <1>1
    <2> QED
        BY <2>1, SeqRemoveAt
<1> HIDE DEF new
<1>3. n - 1 \in Nat /\ new = [k \in 1..(n - 1) |-> new[k]]
    BY <1>1, <1>2
<1>4. \A k \in 1..(n - 1) : CM!Repo!IsRow(t, new[k])
    BY <1>1, <1>2
<1>5. CM!Repo!IsList(t, new)
    BY <1>3, <1>4, ListMade
<1> USE DEF new
<1> QED
    BY <1>2, <1>5

\* DeleteX from the table, the same row out of the list.
LEMMA FollowsDropped ==
    ASSUME NEW t \in Kinds, NEW table, NEW rows,
           CM!Repo!IsTable(t, table), CM!Repo!IsList(t, rows), NEW i \in DOMAIN rows
    PROVE  Follows(t, table, rows, CM!Repo!Without(table, rows[i].id), CM!RemoveAt(rows, i))
<1> DEFINE id == rows[i].id
           table2 == CM!Repo!Without(table, id)
           rows2 == CM!RemoveAt(rows, i)
           n == Len(rows)
<1>1. /\ rows \in Seq(Range(rows)) /\ n \in Nat /\ DOMAIN rows = 1..n
    BY ListSeq
<1>2. /\ CM!Repo!IsList(t, rows2) /\ DOMAIN rows2 = 1..(n - 1)
      /\ \A k \in 1..(n - 1) : rows2[k] = IF k < i THEN rows[k] ELSE rows[k + 1]
    BY ListRemoveAt
<1>3. table2 = CM!Repo!Restrict(table, DOMAIN table \ {id})
    BY DEF CM!Repo!Without
<1>4. CM!Repo!IsTable(t, table2)
    BY <1>3, TableWithout
<1>5. /\ DOMAIN table2 = DOMAIN table \ {id}
      /\ \A k \in DOMAIN table2 : table2[k] = table[k]
    BY <1>3 DEF CM!Repo!Restrict
<1> DEFINE at(k) == IF k < i THEN k ELSE k + 1
<1>6. ASSUME NEW k \in DOMAIN rows2
      PROVE  at(k) \in DOMAIN rows /\ at(k) # i /\ rows2[k] = rows[at(k)]
    BY <1>1, <1>2
<1>7. ASSUME NEW k \in DOMAIN rows2, NEW m \in DOMAIN rows2, k # m
      PROVE  at(k) # at(m)
    BY <1>1, <1>2, <1>7
<1>8. ASSUME NEW j \in DOMAIN rows, j # i
      PROVE  \E k \in DOMAIN rows2 : at(k) = j
    <2>1. CASE j < i
        BY <2>1, <1>1, <1>2
    <2>2. CASE j > i
        <3>1. j - 1 \in 1..(n - 1) /\ ~(j - 1 < i)
            BY <2>2, <1>1
        <3> QED
            BY <3>1, <1>1, <1>2
    <2> QED
        BY <2>1, <2>2, <1>8, <1>1
<1> HIDE DEF at
<1>9. ASSUME Below(t, table, rows)
      PROVE  Below(t, table2, rows2)
    <2>1. CM!Repo!Distinct(rows2)
        BY <1>9, <1>6, <1>7 DEF Below, CM!Repo!Distinct
    <2>2. ASSUME NEW k \in DOMAIN rows2
          PROVE  rows2[k].id \in DOMAIN table2 \cup Unstored(t)
        <3>1. rows[at(k)].id # id /\ rows[at(k)].id \in DOMAIN table \cup Unstored(t)
            BY <1>9, <1>6 DEF Below, CM!Repo!Distinct, CM!Ids
        <3> QED
            BY <3>1, <1>5, <1>6
    <2> QED
        BY <2>1, <2>2 DEF Below, CM!Ids
<1>10. ASSUME Below(t, table, rows), Mirrors(table, rows)
       PROVE  Mirrors(table2, rows2)
    <2>1. ASSUME NEW k \in DOMAIN table2
          PROVE  k \in CM!Ids(rows2)
        <3>1. PICK j \in DOMAIN rows : rows[j].id = k
            BY <1>5, <1>10 DEF Mirrors, CM!Ids
        <3>2. j # i
            BY <3>1, <1>5
        <3>3. PICK m \in DOMAIN rows2 : at(m) = j
            BY <3>2, <1>8
        <3>4. rows2[m].id = k
            BY <3>1, <3>3, <1>6
        <3> QED
            BY <3>4 DEF CM!Ids
    <2>3. ASSUME NEW k \in DOMAIN rows2
          PROVE  rows2[k].id \in DOMAIN table2
        <3>1. rows[at(k)].id # id /\ rows[at(k)].id \in DOMAIN table
            BY <1>10, <1>6 DEF Below, Mirrors, CM!Repo!Distinct, CM!Ids
        <3> QED
            BY <3>1, <1>5, <1>6
    <2>2. ASSUME NEW k \in DOMAIN rows2
          PROVE  Bare(rows2[k]) = Bare(table2[rows2[k].id])
        BY <2>3, <1>5, <1>6, <1>10 DEF Mirrors
    <2> QED
        BY <2>1, <2>2, <2>3 DEF Mirrors, CM!Ids
<1> QED
    BY <1>2, <1>4, <1>9, <1>10 DEF Follows

\* Rows keep their places and ids, and agree afterwards where they agreed before.
LEMMA FollowsMapped ==
    ASSUME NEW t \in Kinds, NEW table, NEW rows, NEW table2, NEW rows2,
           CM!Repo!IsTable(t, table), CM!Repo!IsList(t, rows),
           table2 = [k \in DOMAIN table |-> table2[k]],
           \A k \in DOMAIN table : CM!Repo!IsRow(t, table2[k]) /\ table2[k].id = k,
           rows2 = [i \in DOMAIN rows |-> rows2[i]],
           \A i \in DOMAIN rows : CM!Repo!IsRow(t, rows2[i]) /\ rows2[i].id = rows[i].id,
           CM!Repo!Distinct(rows) =>
             \A i \in DOMAIN rows, k \in DOMAIN table :
               Bare(rows[i]) = Bare(table[k]) /\ rows[i].id = k => Bare(rows2[i]) = Bare(table2[k])
    PROVE  Follows(t, table, rows, table2, rows2)
<1>1. Len(rows) \in Nat /\ DOMAIN rows = 1..Len(rows)
    BY ListSeq
<1>2. DOMAIN rows2 = DOMAIN rows /\ DOMAIN table2 = DOMAIN table
    OBVIOUS
<1>3. CM!Repo!IsList(t, rows2)
    BY <1>1, ListMade
<1>4. IsFiniteSet(DOMAIN table)
    BY DEF CM!Repo!IsTable, CM!Repo!IsFiniteSet, IsFiniteSet
<1>5. CM!Repo!IsTable(t, table2)
    BY <1>4, TableMade
<1>6. Below(t, table, rows) => Below(t, table2, rows2)
    BY <1>2 DEF Below, CM!Repo!Distinct, CM!Ids
<1>7. ASSUME Below(t, table, rows), Mirrors(table, rows)
      PROVE  Mirrors(table2, rows2)
    <2>1. CM!Ids(rows2) = DOMAIN table2
        <3>1. CM!Ids(rows2) = CM!Ids(rows)
            BY <1>2, SameIds
        <3> QED
            BY <3>1, <1>2, <1>7 DEF Mirrors
    <2>2. ASSUME NEW i \in DOMAIN rows2
          PROVE  Bare(rows2[i]) = Bare(table2[rows2[i].id])
        <3>1. PICK k : k = rows[i].id
            OBVIOUS
        <3>2. i \in DOMAIN rows /\ k \in DOMAIN table
            BY <3>1, <1>2, <1>7 DEF Mirrors, CM!Ids
        <3>3. Bare(rows[i]) = Bare(table[k])
            BY <3>1, <3>2, <1>7 DEF Mirrors
        <3>4. CM!Repo!Distinct(rows)
            BY <1>7 DEF Below
        <3> QED
            BY <3>1, <3>2, <3>3, <3>4
    <2> QED
        BY <2>1, <2>2 DEF Mirrors
<1> QED
    BY <1>3, <1>5, <1>6, <1>7 DEF Follows

-----------------------------------------------------------------------------
(* Methods. *)

\* The messages and the photos a replica serves are those of the database.
Messaged(d, s) == Range(s.assistance) = Range(d.assistance) /\ s.photos = d.photos

\* Tables d and store s became d2 and s2, in step if they were.
Good(d, s, d2, s2) ==
    /\ CM!Repo!IsDb(d2) /\ CM!IsStore(s2)
    /\ \A t \in CM!Repo!Keyed : Follows(t, d[t], s[t], d2[t], s2[t])
    /\ Messaged(d, s) => Messaged(d2, s2)

\* An outcome o of a method that started from d and s.
Sound(d, s, o) ==
    /\ CM!Repo!IsDb(o.db) /\ CM!IsStore(o.store)
    /\ o.err # "lost" => Good(d, s, o.db, o.store)

\* The outcomes e of a statement that turns d into after.
Statement(d, after, stmts) ==
    \A e \in stmts : \/ e.db = d /\ e.err \in {"failed", "notfound"}
                     \/ e.db = after /\ e.err \in {"ok", "lost"}

\* The outcomes of a statement that changes nothing.
Missed(d, stmts) == \A e \in stmts : e.db = d /\ e.err \in {"failed", "notfound"}

\* The tables that are cached as a list of rows, among the others.
LEMMA KeyedTables == CM!Repo!Keyed \subseteq Tables /\ CM!Repo!Keyed \subseteq Kinds /\ Tables \subseteq Kinds
BY DEF Kinds, Tables, CM!Repo!Tables

\* What a database is made of.
LEMMA DbParts ==
    ASSUME NEW d, CM!Repo!IsDb(d)
    PROVE  /\ DOMAIN d = Tables \cup {"audit", "assistance", "photos", "scan", "serial"}
           /\ \A t \in Tables : CM!Repo!IsTable(t, d[t])
BY DEF CM!Repo!IsDb, Tables

\* What a store is made of.
LEMMA StoreParts ==
    ASSUME NEW s, CM!IsStore(s)
    PROVE  /\ DOMAIN s = CM!Repo!Keyed \cup {"audit", "assistance", "photos", "projects", "scan"}
           /\ \A t \in CM!Repo!Keyed : CM!Repo!IsList(t, s[t])
BY DEF CM!IsStore, CM!seed, CM!Repo!Keyed

\* Nothing changed.
LEMMA GoodSame ==
    ASSUME NEW d, NEW s, CM!Repo!IsDb(d), CM!IsStore(s)
    PROVE  Good(d, s, d, s)
BY DbParts, StoreParts, KeyedTables, FollowsSame DEF Good

\* A statement that ran, or was refused, has the outcomes of a statement.
LEMMA RanStatement ==
    ASSUME NEW d, NEW after
    PROVE  Statement(d, after, CM!Repo!Ran(d, after)) /\ Statement(d, after, CM!Repo!Refused(d))
BY DEF Statement, CM!Repo!Ran, CM!Repo!Refused, CM!Repo!Told

\* A method that returns before its statement.
LEMMA EndsSound ==
    ASSUME NEW d, NEW s, CM!Repo!IsDb(d), CM!IsStore(s), NEW e, NEW o \in CM!Ends(d, s, e)
    PROVE  Sound(d, s, o)
BY GoodSame DEF CM!Ends, Sound

\* A method that writes first and changes the cache when that was answered.
LEMMA AfterSound ==
    ASSUME NEW d, NEW s, CM!Repo!IsDb(d), CM!IsStore(s),
           NEW d2, NEW s2, Good(d, s, d2, s2),
           NEW stmts, Statement(d, d2, stmts),
           NEW o \in CM!After(s, stmts, s2)
    PROVE  Sound(d, s, o)
<1>1. PICK e \in stmts : /\ o.db = e.db /\ o.err = CM!wrapPersist(e.err)
                         /\ o.store = IF e.err = "ok" THEN s2 ELSE s
    BY DEF CM!After
<1>2. CASE e.db = d /\ e.err \in {"failed", "notfound"}
    BY <1>1, <1>2, GoodSame DEF Sound
<1>3. CASE e.db = d2 /\ e.err \in {"ok", "lost"}
    BY <1>1, <1>3 DEF Sound, Good, CM!wrapPersist
<1> QED
    BY <1>2, <1>3 DEF Statement

\* A method whose statement changed nothing.
LEMMA MissedSound ==
    ASSUME NEW d, NEW s, CM!Repo!IsDb(d), CM!IsStore(s), NEW s2, NEW stmts, Missed(d, stmts),
           NEW o \in CM!After(s, stmts, s2)
    PROVE  Sound(d, s, o)
<1>1. PICK e \in stmts : /\ o.db = e.db /\ o.err = CM!wrapPersist(e.err)
                         /\ o.store = IF e.err = "ok" THEN s2 ELSE s
    BY DEF CM!After
<1>2. o.db = d /\ o.store = s
    BY <1>1 DEF Missed
<1> QED
    BY <1>2, GoodSame DEF Sound

\* A refused statement changes nothing.
LEMMA RefusedMissed == ASSUME NEW d PROVE Missed(d, CM!Repo!Refused(d))
BY DEF Missed, CM!Repo!Refused, CM!Repo!Told

\* One keyed table and its list change.
LEMMA OneTableChanged ==
    ASSUME NEW d, NEW s, CM!Repo!IsDb(d), CM!IsStore(s), NEW t \in CM!Repo!Keyed,
           NEW d2, DOMAIN d2 = DOMAIN d, \A x \in DOMAIN d : x # t => d2[x] = d[x],
           NEW s2, DOMAIN s2 = DOMAIN s, \A x \in DOMAIN s : x # t => s2[x] = s[x],
           Follows(t, d[t], s[t], d2[t], s2[t])
    PROVE  Good(d, s, d2, s2)
<1>1. /\ DOMAIN d = Tables \cup {"audit", "assistance", "photos", "scan", "serial"}
      /\ DOMAIN s = CM!Repo!Keyed \cup {"audit", "assistance", "photos", "projects", "scan"}
      /\ t \in Tables /\ t \notin {"audit", "assistance", "photos", "projects", "scan", "serial"}
    BY DbParts, StoreParts, KeyedTables DEF CM!Repo!Keyed
<1>4. CM!Repo!IsTable(t, d2[t]) /\ CM!Repo!IsList(t, s2[t])
    BY DEF Follows
<1>5. \A u \in Tables : CM!Repo!IsTable(u, d2[u])
    BY <1>1, <1>4, DbParts
<1>6. CM!Repo!IsDb(d2)
    <2>1. d2.assistance = d.assistance /\ d2.serial = d.serial /\ d2.projects = d.projects
        <3>1. t # "projects"
            BY DEF CM!Repo!Keyed
        <3> QED
            BY <3>1, <1>1, KeyedTables DEF Tables, CM!Repo!Tables
    <2>2. CM!Repo!Numbered(d2)
        BY <2>1 DEF CM!Repo!Numbered, CM!Repo!IsDb
    <2> QED
        BY <1>5, <2>1, <2>2 DEF CM!Repo!IsDb, Tables
<1>7. \A u \in CM!Repo!Keyed : CM!Repo!IsList(u, s2[u])
    BY <1>1, <1>4, StoreParts
<1>8. CM!IsStore(s2)
    <2>1. s2.assistance = s.assistance /\ s2.projects = s.projects
        BY <1>1
    <2> QED
        BY <1>7, <2>1 DEF CM!IsStore
<1>9. ASSUME NEW u \in CM!Repo!Keyed
      PROVE  Follows(u, d[u], s[u], d2[u], s2[u])
    <2>1. CASE u = t
        BY <2>1
    <2>2. CASE u # t
        <3>1. d2[u] = d[u] /\ s2[u] = s[u]
            BY <2>2, <1>1, KeyedTables
        <3> QED
            BY <3>1, FollowsSame, DbParts, StoreParts, KeyedTables
    <2> QED
        BY <2>1, <2>2
<1>10. Messaged(d, s) => Messaged(d2, s2)
    <2>1. /\ s2.assistance = s.assistance /\ d2.assistance = d.assistance
          /\ s2.photos = s.photos /\ d2.photos = d.photos
        BY <1>1
    <2> QED
        BY <2>1 DEF Messaged
<1> QED
    BY <1>6, <1>8, <1>9, <1>10 DEF Good

\* The same for a replacement of the table and the list.
LEMMA OneTable ==
    ASSUME NEW d, NEW s, CM!Repo!IsDb(d), CM!IsStore(s),
           NEW t \in CM!Repo!Keyed, NEW table, NEW rows,
           Follows(t, d[t], s[t], table, rows)
    PROVE  Good(d, s, [d EXCEPT ![t] = table], [s EXCEPT ![t] = rows])
<1> DEFINE d2 == [d EXCEPT ![t] = table]
           s2 == [s EXCEPT ![t] = rows]
<1>1. t \in DOMAIN d /\ t \in DOMAIN s
    BY DbParts, StoreParts, KeyedTables
<1>2. DOMAIN d2 = DOMAIN d /\ d2[t] = table /\ \A x \in DOMAIN d : x # t => d2[x] = d[x]
    BY <1>1
<1>3. DOMAIN s2 = DOMAIN s /\ s2[t] = rows /\ \A x \in DOMAIN s : x # t => s2[x] = s[x]
    BY <1>1
<1> HIDE DEF d2, s2
<1>4. Good(d, s, d2, s2)
    BY <1>2, <1>3, OneTableChanged
<1> QED
    BY <1>4 DEF d2, s2

\* Nothing of what the lists hold changes.
LEMMA GoodAlike ==
    ASSUME NEW d, NEW s, CM!Repo!IsDb(d), CM!IsStore(s), NEW d2, NEW s2,
           CM!Repo!IsDb(d2), CM!IsStore(s2),
           \A t \in CM!Repo!Keyed : d2[t] = d[t] /\ s2[t] = s[t],
           Messaged(d, s) => Messaged(d2, s2)
    PROVE  Good(d, s, d2, s2)
BY DbParts, StoreParts, KeyedTables, FollowsSame DEF Good

\* An INSERT is refused when the primary key is taken.
LEMMA InsertStatement ==
    ASSUME NEW d, NEW t, NEW row
    PROVE  \/ row.id \notin DOMAIN d[t]
              /\ CM!Repo!Insert(d, t, row)
                   = CM!Repo!Ran(d, [d EXCEPT ![t] = CM!Repo!With(d[t], row.id, row)])
           \/ row.id \in DOMAIN d[t] /\ CM!Repo!Insert(d, t, row) = CM!Repo!Refused(d)
BY DEF CM!Repo!Insert

\* An UPDATE of a row that is not there changes nothing.
LEMMA UpdateStatement ==
    ASSUME NEW d, NEW t, NEW row
    PROVE  \/ row.id \in DOMAIN d[t]
              /\ Statement(d, [d EXCEPT ![t] = [d[t] EXCEPT ![row.id] = row]], CM!Repo!Update(d, t, row))
           \/ row.id \notin DOMAIN d[t] /\ Missed(d, CM!Repo!Update(d, t, row))
BY DEF CM!Repo!Update, CM!Repo!errOrNotFound, CM!Repo!Ran, CM!Repo!Refused, CM!Repo!Told, Statement, Missed

\* Nor does a DELETE of one.
LEMMA DeleteStatement ==
    ASSUME NEW d, NEW t, NEW id
    PROVE  \/ id \in DOMAIN d[t]
              /\ Statement(d, [d EXCEPT ![t] = CM!Repo!Without(d[t], id)], CM!Repo!Delete(d, t, id))
           \/ id \notin DOMAIN d[t] /\ Missed(d, CM!Repo!Delete(d, t, id))
BY DEF CM!Repo!Delete, CM!Repo!errOrNotFound, CM!Repo!Ran, CM!Repo!Refused, CM!Repo!Told, Statement, Missed

\* A row that the table did not have is inserted, and listed when that worked.
LEMMA GrownSound ==
    ASSUME NEW d, NEW s, CM!Repo!IsDb(d), CM!IsStore(s), NEW t \in CM!Repo!Keyed,
           NEW row, CM!Repo!IsRow(t, row), row.id \notin Unstored(t), NEW o,
           \/ o \in CM!After(s, CM!Repo!Insert(d, t, row), [s EXCEPT ![t] = Append(s[t], row)])
           \/ o \in CM!After(s, CM!Repo!Refused(d), [s EXCEPT ![t] = Append(s[t], row)])
    PROVE  Sound(d, s, o)
<1> DEFINE s2 == [s EXCEPT ![t] = Append(s[t], row)]
           d2 == [d EXCEPT ![t] = CM!Repo!With(d[t], row.id, row)]
<1>1. CASE o \in CM!After(s, CM!Repo!Refused(d), s2)
    BY <1>1, RefusedMissed, MissedSound
<1>2. CASE row.id \notin DOMAIN d[t] /\ o \in CM!After(s, CM!Repo!Ran(d, d2), s2)
    <2>1. Follows(t, d[t], s[t], CM!Repo!With(d[t], row.id, row), Append(s[t], row))
        BY <1>2, FollowsGrown, DbParts, StoreParts, KeyedTables
    <2>2. Good(d, s, d2, s2)
        BY <2>1, OneTable
    <2>3. Statement(d, d2, CM!Repo!Ran(d, d2))
        BY RanStatement
    <2> HIDE DEF s2, d2
    <2> QED
        BY <2>2, <2>3, <1>2, AfterSound
<1> QED
    BY <1>1, <1>2, InsertStatement

\* A row is rewritten in its place.
LEMMA RewrittenSound ==
    ASSUME NEW d, NEW s, CM!Repo!IsDb(d), CM!IsStore(s), NEW t \in CM!Repo!Keyed,
           NEW i \in DOMAIN s[t], NEW row, CM!Repo!IsRow(t, row), row.id = s[t][i].id, NEW o,
           \/ o \in CM!After(s, CM!Repo!Update(d, t, row), [s EXCEPT ![t] = [s[t] EXCEPT ![i] = row]])
           \/ o \in CM!After(s, CM!Repo!Refused(d), [s EXCEPT ![t] = [s[t] EXCEPT ![i] = row]])
    PROVE  Sound(d, s, o)
<1> DEFINE s2 == [s EXCEPT ![t] = [s[t] EXCEPT ![i] = row]]
           d2 == [d EXCEPT ![t] = [d[t] EXCEPT ![row.id] = row]]
           stmts == CM!Repo!Update(d, t, row)
<1>1. CASE o \in CM!After(s, CM!Repo!Refused(d), s2)
    BY <1>1, RefusedMissed, MissedSound
<1>2. CASE o \in CM!After(s, stmts, s2) /\ Missed(d, stmts)
    BY <1>2, MissedSound
<1>3. CASE o \in CM!After(s, stmts, s2) /\ row.id \in DOMAIN d[t] /\ Statement(d, d2, stmts)
    <2>1. Follows(t, d[t], s[t], [d[t] EXCEPT ![row.id] = row], [s[t] EXCEPT ![i] = row])
        BY <1>3, FollowsPut, DbParts, StoreParts, KeyedTables
    <2>2. Good(d, s, d2, s2)
        BY <2>1, OneTable
    <2> HIDE DEF s2, d2, stmts
    <2> QED
        BY <2>2, <1>3, AfterSound
<1> QED
    BY <1>1, <1>2, <1>3, UpdateStatement

\* A row leaves its place.
LEMMA DroppedSound ==
    ASSUME NEW d, NEW s, CM!Repo!IsDb(d), CM!IsStore(s), NEW t \in CM!Repo!Keyed,
           NEW i \in DOMAIN s[t], NEW id, id = s[t][i].id, NEW o,
           \/ o \in CM!After(s, CM!Repo!Delete(d, t, id), [s EXCEPT ![t] = CM!RemoveAt(s[t], i)])
           \/ o \in CM!After(s, CM!Repo!Refused(d), [s EXCEPT ![t] = CM!RemoveAt(s[t], i)])
    PROVE  Sound(d, s, o)
<1> DEFINE s2 == [s EXCEPT ![t] = CM!RemoveAt(s[t], i)]
           d2 == [d EXCEPT ![t] = CM!Repo!Without(d[t], id)]
           stmts == CM!Repo!Delete(d, t, id)
<1>1. CASE o \in CM!After(s, CM!Repo!Refused(d), s2)
    BY <1>1, RefusedMissed, MissedSound
<1>2. CASE o \in CM!After(s, stmts, s2) /\ Missed(d, stmts)
    BY <1>2, MissedSound
<1>3. CASE o \in CM!After(s, stmts, s2) /\ Statement(d, d2, stmts)
    <2>1. Follows(t, d[t], s[t], CM!Repo!Without(d[t], id), CM!RemoveAt(s[t], i))
        BY FollowsDropped, DbParts, StoreParts, KeyedTables
    <2>2. Good(d, s, d2, s2)
        BY <2>1, OneTable
    <2> HIDE DEF s2, d2, stmts
    <2> QED
        BY <2>2, <1>3, AfterSound
<1> QED
    BY <1>1, <1>2, <1>3, DeleteStatement

\* The tables whose rows are an id and data.
Plain == {"engineers", "milestones", "materials", "roles"}

\* Their rows.
LEMMA PlainRow ==
    ASSUME NEW t \in Plain
    PROVE  /\ t \in CM!Repo!Keyed
           /\ \A id \in Int : \A x : CM!Repo!IsRow(t, [id |-> id, data |-> x])
           /\ \A y, x : CM!Repo!IsRow(t, y) =>
                CM!Repo!IsRow(t, [y EXCEPT !.data = x]) /\ [y EXCEPT !.data = x].id = y.id
<1>1. CM!Repo!Columns[t] = {"id", "data"}
    BY DEF Plain, CM!Repo!Columns
<1>2. t \in CM!Repo!Keyed
    BY DEF Plain, CM!Repo!Keyed
<1>3. ASSUME NEW id \in Int, NEW x
      PROVE  CM!Repo!IsRow(t, [id |-> id, data |-> x])
    BY <1>1 DEF CM!Repo!IsRow
<1>4. ASSUME NEW y, NEW x, CM!Repo!IsRow(t, y)
      PROVE  CM!Repo!IsRow(t, [y EXCEPT !.data = x]) /\ [y EXCEPT !.data = x].id = y.id
    BY <1>1, <1>4 DEF CM!Repo!IsRow
<1> QED
    BY <1>2, <1>3, <1>4

\* An id that is handed out is a number.
LEMMA NextIdInt ==
    ASSUME NEW s, CM!IsStore(s), NEW t \in CM!Repo!Keyed
    PROVE  CM!NextId(s[t]) \in Int /\ CM!NextId(s[t]) \notin Unstored(t)
BY StoreParts, ListSeq DEF CM!NextId, Unstored, CM!SeedIds

\* What Find finds in a store.
LEMMA FoundRow ==
    ASSUME NEW s, CM!IsStore(s), NEW t \in CM!Repo!Keyed, NEW id, CM!Find(s[t], id) # 0
    PROVE  /\ CM!Find(s[t], id) \in DOMAIN s[t] /\ s[t][CM!Find(s[t], id)].id = id
           /\ CM!Repo!IsRow(t, s[t][CM!Find(s[t], id)])
<1>1. s[t] \in Seq(Range(s[t])) /\ \A i \in DOMAIN s[t] : CM!Repo!IsRow(t, s[t][i])
    BY StoreParts, ListSeq
<1> QED
    BY <1>1, FindRow

\* The methods of engineers, then of milestones, materials and roles.
LEMMA EngineerSound ==
    ASSUME NEW d, NEW s, CM!Repo!IsDb(d), CM!IsStore(s), NEW id, NEW data, NEW o,
           \/ o \in CM!CreateEngineer(d, s, data)
           \/ o \in CM!PatchEngineer(d, s, id, data)
           \/ o \in CM!DeleteEngineer(d, s, id)
    PROVE  Sound(d, s, o)
<1> DEFINE t == "engineers"
           i == CM!Find(s[t], id)
           row == [id |-> CM!NextId(s[t]), data |-> data]
           new == [s[t][i] EXCEPT !.data = data]
<1>0. t \in Plain /\ t \in CM!Repo!Keyed
    BY PlainRow DEF Plain
<1>1. CASE o \in CM!CreateEngineer(d, s, data)
    <2>1. CM!Repo!IsRow(t, row) /\ row.id \notin Unstored(t)
        BY <1>0, PlainRow, NextIdInt
    <2>2. o \in CM!After(s, CM!Repo!Insert(d, t, row), [s EXCEPT ![t] = Append(s[t], row)])
        BY <1>1 DEF CM!CreateEngineer, CM!Grown, CM!Repo!InsertEngineer
    <2> HIDE DEF row, t
    <2> QED
        BY <2>1, <2>2, <1>0, GrownSound
<1>2. CASE o \in CM!PatchEngineer(d, s, id, data)
    <2>1. CASE i = 0
        <3>1. o \in CM!Ends(d, s, "notfound")
            BY <2>1, <1>2 DEF CM!PatchEngineer, CM!Rewritten
        <3> QED
            BY <3>1, EndsSound
    <2>2. CASE i # 0
        <3>1. i \in DOMAIN s[t] /\ CM!Repo!IsRow(t, new) /\ new.id = s[t][i].id
            BY <2>2, <1>0, FoundRow, PlainRow
        <3>2. o \in CM!After(s, CM!Repo!Update(d, t, new), [s EXCEPT ![t] = [s[t] EXCEPT ![i] = new]])
            BY <2>2, <1>2 DEF CM!PatchEngineer, CM!Rewritten, CM!Repo!UpdateEngineer
        <3> HIDE DEF new, i, t
        <3> QED
            BY <3>1, <3>2, <1>0, RewrittenSound
    <2> QED
        BY <2>1, <2>2
<1>3. CASE o \in CM!DeleteEngineer(d, s, id)
    <2>1. CASE i = 0
        <3>1. o \in CM!Ends(d, s, "notfound")
            BY <2>1, <1>3 DEF CM!DeleteEngineer, CM!Dropped
        <3> QED
            BY <3>1, EndsSound
    <2>2. CASE i # 0
        <3>1. i \in DOMAIN s[t] /\ id = s[t][i].id
            BY <2>2, <1>0, FoundRow
        <3>2. o \in CM!After(s, CM!Repo!Delete(d, t, id), [s EXCEPT ![t] = CM!RemoveAt(s[t], i)])
            BY <2>2, <1>3 DEF CM!DeleteEngineer, CM!Dropped, CM!Repo!DeleteEngineer
        <3> HIDE DEF i, t
        <3> QED
            BY <3>1, <3>2, <1>0, DroppedSound
    <2> QED
        BY <2>1, <2>2
<1> QED
    BY <1>1, <1>2, <1>3

LEMMA MilestoneSound ==
    ASSUME NEW d, NEW s, CM!Repo!IsDb(d), CM!IsStore(s), NEW id, NEW data, NEW o,
           \/ o \in CM!CreateMilestone(d, s, data)
           \/ o \in CM!PatchMilestone(d, s, id, data)
           \/ o \in CM!DeleteMilestone(d, s, id)
    PROVE  Sound(d, s, o)
<1> DEFINE t == "milestones"
           i == CM!Find(s[t], id)
           row == [id |-> CM!NextId(s[t]), data |-> data]
           new == [s[t][i] EXCEPT !.data = data]
<1>0. t \in Plain /\ t \in CM!Repo!Keyed
    BY PlainRow DEF Plain
<1>1. CASE o \in CM!CreateMilestone(d, s, data)
    <2>1. CM!Repo!IsRow(t, row) /\ row.id \notin Unstored(t)
        BY <1>0, PlainRow, NextIdInt
    <2>2. o \in CM!After(s, CM!Repo!Insert(d, t, row), [s EXCEPT ![t] = Append(s[t], row)])
        BY <1>1 DEF CM!CreateMilestone, CM!Grown, CM!Repo!InsertMilestone
    <2> HIDE DEF row, t
    <2> QED
        BY <2>1, <2>2, <1>0, GrownSound
<1>2. CASE o \in CM!PatchMilestone(d, s, id, data)
    <2>1. CASE i = 0
        <3>1. o \in CM!Ends(d, s, "notfound")
            BY <2>1, <1>2 DEF CM!PatchMilestone, CM!Rewritten
        <3> QED
            BY <3>1, EndsSound
    <2>2. CASE i # 0
        <3>1. i \in DOMAIN s[t] /\ CM!Repo!IsRow(t, new) /\ new.id = s[t][i].id
            BY <2>2, <1>0, FoundRow, PlainRow
        <3>2. o \in CM!After(s, CM!Repo!Update(d, t, new), [s EXCEPT ![t] = [s[t] EXCEPT ![i] = new]])
            BY <2>2, <1>2 DEF CM!PatchMilestone, CM!Rewritten, CM!Repo!UpdateMilestone
        <3> HIDE DEF new, i, t
        <3> QED
            BY <3>1, <3>2, <1>0, RewrittenSound
    <2> QED
        BY <2>1, <2>2
<1>3. CASE o \in CM!DeleteMilestone(d, s, id)
    <2>1. CASE i = 0
        <3>1. o \in CM!Ends(d, s, "notfound")
            BY <2>1, <1>3 DEF CM!DeleteMilestone, CM!Dropped
        <3> QED
            BY <3>1, EndsSound
    <2>2. CASE i # 0
        <3>1. i \in DOMAIN s[t] /\ id = s[t][i].id
            BY <2>2, <1>0, FoundRow
        <3>2. o \in CM!After(s, CM!Repo!Delete(d, t, id), [s EXCEPT ![t] = CM!RemoveAt(s[t], i)])
            BY <2>2, <1>3 DEF CM!DeleteMilestone, CM!Dropped, CM!Repo!DeleteMilestone
        <3> HIDE DEF i, t
        <3> QED
            BY <3>1, <3>2, <1>0, DroppedSound
    <2> QED
        BY <2>1, <2>2
<1> QED
    BY <1>1, <1>2, <1>3

LEMMA MaterialSound ==
    ASSUME NEW d, NEW s, CM!Repo!IsDb(d), CM!IsStore(s), NEW id, NEW data, NEW o,
           \/ o \in CM!CreateMaterial(d, s, data)
           \/ o \in CM!PatchMaterial(d, s, id, data)
           \/ o \in CM!DeleteMaterial(d, s, id)
    PROVE  Sound(d, s, o)
<1> DEFINE t == "materials"
           i == CM!Find(s[t], id)
           row == [id |-> CM!NextId(s[t]), data |-> data]
           new == [s[t][i] EXCEPT !.data = data]
<1>0. t \in Plain /\ t \in CM!Repo!Keyed
    BY PlainRow DEF Plain
<1>1. CASE o \in CM!CreateMaterial(d, s, data)
    <2>1. CM!Repo!IsRow(t, row) /\ row.id \notin Unstored(t)
        BY <1>0, PlainRow, NextIdInt
    <2>2. o \in CM!After(s, CM!Repo!Insert(d, t, row), [s EXCEPT ![t] = Append(s[t], row)])
        BY <1>1 DEF CM!CreateMaterial, CM!Grown, CM!Repo!InsertMaterial
    <2> HIDE DEF row, t
    <2> QED
        BY <2>1, <2>2, <1>0, GrownSound
<1>2. CASE o \in CM!PatchMaterial(d, s, id, data)
    <2>1. CASE i = 0
        <3>1. o \in CM!Ends(d, s, "notfound")
            BY <2>1, <1>2 DEF CM!PatchMaterial, CM!Rewritten
        <3> QED
            BY <3>1, EndsSound
    <2>2. CASE i # 0
        <3>1. i \in DOMAIN s[t] /\ CM!Repo!IsRow(t, new) /\ new.id = s[t][i].id
            BY <2>2, <1>0, FoundRow, PlainRow
        <3>2. o \in CM!After(s, CM!Repo!Update(d, t, new), [s EXCEPT ![t] = [s[t] EXCEPT ![i] = new]])
            BY <2>2, <1>2 DEF CM!PatchMaterial, CM!Rewritten, CM!Repo!UpdateMaterial
        <3> HIDE DEF new, i, t
        <3> QED
            BY <3>1, <3>2, <1>0, RewrittenSound
    <2> QED
        BY <2>1, <2>2
<1>3. CASE o \in CM!DeleteMaterial(d, s, id)
    <2>1. CASE i = 0
        <3>1. o \in CM!Ends(d, s, "notfound")
            BY <2>1, <1>3 DEF CM!DeleteMaterial, CM!Dropped
        <3> QED
            BY <3>1, EndsSound
    <2>2. CASE i # 0
        <3>1. i \in DOMAIN s[t] /\ id = s[t][i].id
            BY <2>2, <1>0, FoundRow
        <3>2. o \in CM!After(s, CM!Repo!Delete(d, t, id), [s EXCEPT ![t] = CM!RemoveAt(s[t], i)])
            BY <2>2, <1>3 DEF CM!DeleteMaterial, CM!Dropped, CM!Repo!DeleteMaterial
        <3> HIDE DEF i, t
        <3> QED
            BY <3>1, <3>2, <1>0, DroppedSound
    <2> QED
        BY <2>1, <2>2
<1> QED
    BY <1>1, <1>2, <1>3

LEMMA RoleSound ==
    ASSUME NEW d, NEW s, CM!Repo!IsDb(d), CM!IsStore(s), NEW id, NEW data, NEW o,
           \/ o \in CM!CreateRole(d, s, data)
           \/ o \in CM!PatchRole(d, s, id, data)
    PROVE  Sound(d, s, o)
<1> DEFINE t == "roles"
           i == CM!Find(s[t], id)
           row == [id |-> CM!NextId(s[t]), data |-> data]
           new == [s[t][i] EXCEPT !.data = data]
<1>0. t \in Plain /\ t \in CM!Repo!Keyed
    BY PlainRow DEF Plain
<1>1. CASE o \in CM!CreateRole(d, s, data)
    <2>1. CM!Repo!IsRow(t, row) /\ row.id \notin Unstored(t)
        BY <1>0, PlainRow, NextIdInt
    <2>2. o \in CM!After(s, CM!Repo!Insert(d, t, row), [s EXCEPT ![t] = Append(s[t], row)])
        BY <1>1 DEF CM!CreateRole, CM!Grown, CM!Repo!InsertCustomRole
    <2> HIDE DEF row, t
    <2> QED
        BY <2>1, <2>2, <1>0, GrownSound
<1>2. CASE o \in CM!PatchRole(d, s, id, data)
    <2>1. CASE i = 0
        <3>1. o \in CM!Ends(d, s, "notfound")
            BY <2>1, <1>2 DEF CM!PatchRole, CM!Rewritten
        <3> QED
            BY <3>1, EndsSound
    <2>2. CASE i # 0
        <3>1. i \in DOMAIN s[t] /\ CM!Repo!IsRow(t, new) /\ new.id = s[t][i].id
            BY <2>2, <1>0, FoundRow, PlainRow
        <3>2. o \in CM!After(s, CM!Repo!Update(d, t, new), [s EXCEPT ![t] = [s[t] EXCEPT ![i] = new]])
            BY <2>2, <1>2 DEF CM!PatchRole, CM!Rewritten, CM!Repo!UpdateCustomRole
        <3> HIDE DEF new, i, t
        <3> QED
            BY <3>1, <3>2, <1>0, RewrittenSound
    <2> QED
        BY <2>1, <2>2
<1> QED
    BY <1>1, <1>2

-----------------------------------------------------------------------------
(* Zones and contracts.  Counts are not compared, so the recount of the    *)
(* cached zones changes nothing of what a cache promises.                  *)

\* Lists that differ in counts only.
LEMMA FollowsBare ==
    ASSUME NEW t, NEW table, NEW rows, NEW table2, NEW rows2, NEW rows3,
           Follows(t, table, rows, table2, rows2), CM!Repo!IsList(t, rows3),
           DOMAIN rows3 = DOMAIN rows2,
           \A i \in DOMAIN rows3 : rows3[i].id = rows2[i].id /\ Bare(rows3[i]) = Bare(rows2[i])
    PROVE  Follows(t, table, rows, table2, rows3)
<1>1. CM!Ids(rows3) = CM!Ids(rows2)
    BY SameIds
<1>2. CM!Repo!Distinct(rows2) => CM!Repo!Distinct(rows3)
    BY DEF CM!Repo!Distinct
<1>3. Mirrors(table2, rows2) => Mirrors(table2, rows3)
    BY <1>1 DEF Mirrors
<1>4. Below(t, table2, rows2) => Below(t, table2, rows3)
    BY <1>1, <1>2 DEF Below
<1> QED
    BY <1>3, <1>4 DEF Follows

\* Rows of zones.
LEMMA ZoneRow ==
    ASSUME NEW z, CM!Repo!IsRow("zones", z)
    PROVE  /\ \A n : /\ CM!Repo!IsRow("zones", [z EXCEPT !.count = n])
                     /\ [z EXCEPT !.count = n].id = z.id
                     /\ Bare([z EXCEPT !.count = n]) = Bare(z)
           /\ \A n : /\ CM!Repo!IsRow("zones", [z EXCEPT !.name = n])
                     /\ [z EXCEPT !.name = n].id = z.id
           /\ \A n, y : CM!Repo!IsRow("zones", y) /\ Bare(z) = Bare(y)
                          => Bare([z EXCEPT !.name = n]) = Bare([y EXCEPT !.name = n])
<1>1. CM!Repo!Columns["zones"] = {"id", "name", "count"}
    BY DEF CM!Repo!Columns
<1>2. z = [f \in {"id", "name", "count"} |-> z[f]] /\ z.id \in Int
    BY <1>1 DEF CM!Repo!IsRow
<1>3. ASSUME NEW n
      PROVE  /\ CM!Repo!IsRow("zones", [z EXCEPT !.count = n])
             /\ [z EXCEPT !.count = n].id = z.id
             /\ Bare([z EXCEPT !.count = n]) = Bare(z)
    BY <1>1, <1>2 DEF CM!Repo!IsRow, Bare
<1>4. ASSUME NEW n
      PROVE  CM!Repo!IsRow("zones", [z EXCEPT !.name = n]) /\ [z EXCEPT !.name = n].id = z.id
    BY <1>1, <1>2 DEF CM!Repo!IsRow
<1>5. ASSUME NEW n, NEW y, CM!Repo!IsRow("zones", y), Bare(z) = Bare(y)
      PROVE  Bare([z EXCEPT !.name = n]) = Bare([y EXCEPT !.name = n])
    <2>1. DOMAIN y = {"id", "name", "count"} /\ DOMAIN z = {"id", "name", "count"}
        BY <1>1, <1>2, <1>5 DEF CM!Repo!IsRow
    <2>2. z.id = y.id
        BY <1>5, <2>1 DEF Bare
    <2> QED
        BY <2>1, <2>2 DEF Bare
<1> QED
    BY <1>3, <1>4, <1>5

\* recalcZoneCounts changes nothing but counts.
LEMMA RecountStore ==
    ASSUME NEW s, CM!IsStore(s)
    PROVE  LET s2 == CM!recalcZoneCounts(s) IN
           /\ CM!IsStore(s2)
           /\ \A t \in CM!Repo!Keyed : t # "zones" => s2[t] = s[t]
           /\ \A t \in DOMAIN s : t # "zones" => s2[t] = s[t]
           /\ DOMAIN s2.zones = DOMAIN s.zones
           /\ \A i \in DOMAIN s.zones : s2.zones[i].id = s.zones[i].id /\ Bare(s2.zones[i]) = Bare(s.zones[i])
<1> DEFINE n(i) == CM!Cardinality({k \in DOMAIN s.contracts : s.contracts[k].zone = s.zones[i].id})
           rows == [i \in DOMAIN s.zones |-> [s.zones[i] EXCEPT !.count = n(i)]]
           s2 == [s EXCEPT !.zones = rows]
<1>1. CM!recalcZoneCounts(s) = s2
    BY DEF CM!recalcZoneCounts, Cardinality, CM!Cardinality
<1>2. DOMAIN s = CM!Repo!Keyed \cup {"audit", "assistance", "photos", "projects", "scan"}
    BY StoreParts
<1>3. "zones" \in CM!Repo!Keyed /\ "zones" \in DOMAIN s
    BY <1>2 DEF CM!Repo!Keyed
<1>4. /\ CM!Repo!IsList("zones", s.zones) /\ Len(s.zones) \in Nat /\ DOMAIN s.zones = 1..Len(s.zones)
      /\ \A i \in DOMAIN s.zones : CM!Repo!IsRow("zones", s.zones[i])
    BY <1>3, StoreParts, ListSeq
<1> HIDE DEF n
<1>5. \A i \in DOMAIN s.zones : /\ CM!Repo!IsRow("zones", rows[i]) /\ rows[i].id = s.zones[i].id
                                /\ Bare(rows[i]) = Bare(s.zones[i])
    BY <1>4, ZoneRow
<1>6. CM!Repo!IsList("zones", rows)
    BY <1>4, <1>5, ListMade
<1>7. DOMAIN s2 = DOMAIN s /\ s2.zones = rows /\ \A t \in DOMAIN s : t # "zones" => s2[t] = s[t]
    BY <1>3
<1> HIDE DEF rows, s2
<1>8. CM!IsStore(s2)
    <2>1. \A t \in CM!Repo!Keyed : CM!Repo!IsList(t, s2[t])
        BY <1>2, <1>6, <1>7, StoreParts
    <2>2. s2.assistance = s.assistance /\ s2.projects = s.projects
        BY <1>2, <1>7
    <2> QED
        BY <1>7, <2>1, <2>2 DEF CM!IsStore
<1>9. DOMAIN s2.zones = DOMAIN s.zones
    BY <1>7 DEF rows
<1> QED
    BY <1>1, <1>2, <1>5, <1>7, <1>8, <1>9

\* So it can follow any change.
LEMMA RecountGood ==
    ASSUME NEW d, NEW s, NEW d2, NEW s2, Good(d, s, d2, s2)
    PROVE  Good(d, s, d2, CM!recalcZoneCounts(s2))
<1> DEFINE s3 == CM!recalcZoneCounts(s2)
<1>1. CM!IsStore(s2)
    BY DEF Good
<1>2. /\ CM!IsStore(s3)
      /\ \A t \in DOMAIN s2 : t # "zones" => s3[t] = s2[t]
      /\ DOMAIN s3.zones = DOMAIN s2.zones
      /\ \A i \in DOMAIN s2.zones : s3.zones[i].id = s2.zones[i].id /\ Bare(s3.zones[i]) = Bare(s2.zones[i])
    BY <1>1, RecountStore
<1> HIDE DEF s3
<1>3. DOMAIN s2 = CM!Repo!Keyed \cup {"audit", "assistance", "photos", "projects", "scan"}
    BY <1>1, StoreParts
<1>4. ASSUME NEW t \in CM!Repo!Keyed
      PROVE  Follows(t, d[t], s[t], d2[t], s3[t])
    <2>1. Follows(t, d[t], s[t], d2[t], s2[t])
        BY DEF Good
    <2>2. CASE t # "zones"
        BY <2>1, <2>2, <1>2, <1>3
    <2>3. CASE t = "zones"
        <3>1. CM!Repo!IsList(t, s3[t])
            BY <1>2, StoreParts
        <3> QED
            BY <2>1, <2>3, <3>1, <1>2, FollowsBare
    <2> QED
        BY <2>2, <2>3
<1>5. Messaged(d, s) => Messaged(d2, s3)
    <2>1. s3.assistance = s2.assistance /\ s3.photos = s2.photos
        BY <1>2, <1>3
    <2> QED
        BY <2>1 DEF Good, Messaged
<1>6. Good(d, s, d2, s3)
    BY <1>2, <1>4, <1>5 DEF Good
<1> QED
    BY <1>6 DEF s3

\* A method that is sound without the recount is sound with it.
LEMMA RecountSound ==
    ASSUME NEW d, NEW s, NEW s2, NEW stmts, \A o \in CM!After(s, stmts, s2) : Sound(d, s, o),
           NEW o \in CM!After(s, stmts, CM!recalcZoneCounts(s2))
    PROVE  Sound(d, s, o)
<1>1. PICK e \in stmts :
        o = [db |-> e.db, store |-> IF e.err = "ok" THEN CM!recalcZoneCounts(s2) ELSE s,
             err |-> CM!wrapPersist(e.err)]
    BY DEF CM!After
<1> DEFINE o2 == [db |-> e.db, store |-> IF e.err = "ok" THEN s2 ELSE s, err |-> CM!wrapPersist(e.err)]
<1>2. Sound(d, s, o2)
    <2>1. o2 \in CM!After(s, stmts, s2)
        BY DEF CM!After
    <2> QED
        BY <2>1
<1>3. CASE e.err = "ok"
    <2>1. o2.err # "lost" /\ o2.db = e.db /\ o2.store = s2
        BY <1>3 DEF CM!wrapPersist
    <2>2. Good(d, s, e.db, s2)
        BY <2>1, <1>2 DEF Sound
    <2>3. Good(d, s, o.db, o.store)
        BY <2>2, <1>1, <1>3, RecountGood
    <2> QED
        BY <2>3 DEF Sound, Good
<1>4. CASE e.err # "ok"
    BY <1>1, <1>2, <1>4
<1> QED
    BY <1>3, <1>4

\* The zone with the code is written, in the table and where the cache lists it.
LEMMA ZoneRenamed ==
    ASSUME NEW d, NEW s, CM!Repo!IsDb(d), CM!IsStore(s), NEW name,
           NEW i \in DOMAIN s.zones, NEW code, s.zones[i].id = code, code \in DOMAIN d.zones,
           NEW d2, d2 = [d EXCEPT !.zones[code].name = name],
           NEW s2, s2 = [s EXCEPT !.zones[i].name = name]
    PROVE  Good(d, s, d2, s2)
<1> DEFINE table == [d.zones EXCEPT ![code].name = name]
           rows == [s.zones EXCEPT ![i].name = name]
           new(z) == [z EXCEPT !.name = name]
<1>0. /\ \A z : CM!Repo!IsRow("zones", z) => CM!Repo!IsRow("zones", new(z)) /\ new(z).id = z.id
      /\ \A z, y : CM!Repo!IsRow("zones", z) /\ CM!Repo!IsRow("zones", y) /\ Bare(z) = Bare(y)
           => Bare(new(z)) = Bare(new(y))
    BY ZoneRow
<1>1. /\ CM!Repo!IsTable("zones", d.zones) /\ CM!Repo!IsList("zones", s.zones)
      /\ d.zones = [k \in DOMAIN d.zones |-> d.zones[k]]
      /\ \A k \in DOMAIN d.zones : CM!Repo!IsRow("zones", d.zones[k]) /\ d.zones[k].id = k
      /\ s.zones \in Seq(Range(s.zones))
      /\ \A k \in DOMAIN s.zones : CM!Repo!IsRow("zones", s.zones[k])
      /\ "zones" \in CM!Repo!Keyed /\ "zones" \in Kinds
    BY DbParts, StoreParts, KeyedTables, ListSeq DEF CM!Repo!Keyed, CM!Repo!IsTable
<1>2. /\ table = [k \in DOMAIN d.zones |-> IF k = code THEN new(d.zones[k]) ELSE d.zones[k]]
      /\ rows = [k \in DOMAIN s.zones |-> IF k = i THEN new(s.zones[k]) ELSE s.zones[k]]
    BY <1>1
<1>7. table = [k \in DOMAIN d.zones |-> table[k]] /\ rows = [k \in DOMAIN s.zones |-> rows[k]]
    BY <1>2
<1>8. d2 = [d EXCEPT !["zones"] = table] /\ s2 = [s EXCEPT !["zones"] = rows]
    OBVIOUS
<1> HIDE DEF new, table, rows
<1>3. ASSUME NEW k \in DOMAIN d.zones
      PROVE  CM!Repo!IsRow("zones", table[k]) /\ table[k].id = k
    <2>1. CASE k = code
        BY <2>1, <1>0, <1>1, <1>2
    <2>2. CASE k # code
        BY <2>2, <1>1, <1>2
    <2> QED
        BY <2>1, <2>2
<1>4. ASSUME NEW k \in DOMAIN s.zones
      PROVE  CM!Repo!IsRow("zones", rows[k]) /\ rows[k].id = s.zones[k].id
    <2>1. CASE k = i
        BY <2>1, <1>0, <1>1, <1>2
    <2>2. CASE k # i
        BY <2>2, <1>1, <1>2
    <2> QED
        BY <2>1, <2>2
<1>5. ASSUME CM!Repo!Distinct(s.zones), NEW j \in DOMAIN s.zones, NEW k \in DOMAIN d.zones,
             Bare(s.zones[j]) = Bare(d.zones[k]), s.zones[j].id = k
      PROVE  Bare(rows[j]) = Bare(table[k])
    <2>1. CASE j = i
        <3>1. k = code /\ rows[j] = new(s.zones[j]) /\ table[k] = new(d.zones[k])
            BY <2>1, <1>2, <1>5
        <3> QED
            BY <3>1, <1>0, <1>1, <1>5
    <2>2. CASE j # i
        <3>1. k # code
            BY <2>2, <1>5 DEF CM!Repo!Distinct
        <3> QED
            BY <2>2, <3>1, <1>2, <1>5
    <2> QED
        BY <2>1, <2>2
<1>6. Follows("zones", d.zones, s.zones, table, rows)
    <2>1. CM!Repo!Distinct(s.zones) =>
            \A j \in DOMAIN s.zones, k \in DOMAIN d.zones :
              Bare(s.zones[j]) = Bare(d.zones[k]) /\ s.zones[j].id = k => Bare(rows[j]) = Bare(table[k])
        BY <1>5
    <2>2. /\ \A k \in DOMAIN d.zones : CM!Repo!IsRow("zones", table[k]) /\ table[k].id = k
          /\ \A k \in DOMAIN s.zones : CM!Repo!IsRow("zones", rows[k]) /\ rows[k].id = s.zones[k].id
        BY <1>3, <1>4
    <2> QED
        BY <1>1, <1>7, <2>1, <2>2, FollowsMapped, Zenon
<1>9. Good(d, s, [d EXCEPT !["zones"] = table], [s EXCEPT !["zones"] = rows])
    BY <1>6, <1>1, OneTable
<1> QED
    BY <1>8, <1>9

\* CreateZone and DeleteZone.
LEMMA CreateZoneSound ==
    ASSUME NEW d, NEW s, CM!Repo!IsDb(d), CM!IsStore(s), NEW code \in Int, NEW name,
           NEW o \in CM!CreateZone(d, s, code, name)
    PROVE  Sound(d, s, o)
<1> DEFINE t == "zones"
           z == [id |-> code, name |-> name, count |-> 0]
<1>0. t \in CM!Repo!Keyed /\ CM!Repo!IsRow(t, z) /\ z.id \notin Unstored(t)
    BY DEF CM!Repo!Keyed, CM!Repo!IsRow, CM!Repo!Columns, Unstored
<1>1. CASE CM!Find(s.zones, code) # 0
    BY <1>1, EndsSound DEF CM!CreateZone
<1>2. CASE CM!Find(s.zones, code) = 0
    <2>1. [z EXCEPT !.count = 0] = z
        OBVIOUS
    <2>2. o \in CM!After(s, CM!Repo!Insert(d, t, z), [s EXCEPT ![t] = Append(s[t], z)])
        BY <1>2, <2>1 DEF CM!CreateZone, CM!Grown, CM!Repo!InsertZone
    <2> HIDE DEF t, z
    <2> QED
        BY <2>2, <1>0, GrownSound
<1> QED
    BY <1>1, <1>2

LEMMA DeleteZoneSound ==
    ASSUME NEW d, NEW s, CM!Repo!IsDb(d), CM!IsStore(s), NEW code,
           NEW o \in CM!DeleteZone(d, s, code)
    PROVE  Sound(d, s, o)
<1> DEFINE t == "zones"
           i == CM!Find(s[t], code)
<1>0. t \in CM!Repo!Keyed
    BY DEF CM!Repo!Keyed
<1>1. CASE i = 0
    <2>1. o \in CM!Ends(d, s, "notfound")
        BY <1>1 DEF CM!DeleteZone, CM!Dropped
    <2> QED
        BY <2>1, EndsSound
<1>2. CASE i # 0
    <2>1. i \in DOMAIN s[t] /\ code = s[t][i].id
        BY <1>2, <1>0, FoundRow
    <2>2. o \in CM!After(s, CM!Repo!DeleteZone(d, code), [s EXCEPT ![t] = CM!RemoveAt(s[t], i)])
        BY <1>2 DEF CM!DeleteZone, CM!Dropped
    <2>3. \/ CM!Repo!DeleteZone(d, code) = CM!Repo!Refused(d)
          \/ CM!Repo!DeleteZone(d, code) = CM!Repo!Delete(d, t, code)
        BY DEF CM!Repo!DeleteZone
    <2> HIDE DEF t, i
    <2> QED
        BY <2>1, <2>2, <2>3, <1>0, DroppedSound
<1> QED
    BY <1>1, <1>2

\* The cached zone is written whatever the answer.
LEMMA PatchZoneSound ==
    ASSUME NEW d, NEW s, CM!Repo!IsDb(d), CM!IsStore(s), NEW code, NEW name,
           NEW o \in CM!PatchZone(d, s, code, name)
    PROVE  /\ CM!Repo!IsDb(o.db) /\ CM!IsStore(o.store)
           /\ o.err = "ok" => Good(d, s, o.db, o.store)
<1> DEFINE i == CM!Find(s.zones, code)
           s2 == [s EXCEPT !.zones[i].name = name]
           ahead == CM!recalcZoneCounts(s2)
           z == ahead.zones[i]
           stmts == CM!Repo!UpdateZone(d, z)
<1>0. "zones" \in CM!Repo!Keyed
    BY DEF CM!Repo!Keyed
<1>1. CASE i = 0
    <2>1. o \in CM!Ends(d, s, "notfound")
        BY <1>1 DEF CM!PatchZone
    <2> QED
        BY <2>1 DEF CM!Ends
<1>2. CASE i # 0
    <2>1. o \in CM!After(ahead, stmts, ahead)
        BY <1>2 DEF CM!PatchZone
    <2>2. i \in DOMAIN s.zones /\ s.zones[i].id = code
        BY <1>2, <1>0, FoundRow
    <2>3. CM!Repo!IsRow("zones", s.zones[i]) /\ s.zones \in Seq(Range(s.zones))
        BY <2>2, <1>0, StoreParts, ListSeq
    <2>4. DOMAIN s = CM!Repo!Keyed \cup {"audit", "assistance", "photos", "projects", "scan"}
        BY StoreParts
    <2>5. /\ s2.zones = [s.zones EXCEPT ![i] = [s.zones[i] EXCEPT !.name = name]]
          /\ DOMAIN s2 = DOMAIN s
          /\ \A t \in DOMAIN s : t # "zones" => s2[t] = s[t]
        BY <1>0, <2>4
    <2>6. /\ s2.zones[i] = [s.zones[i] EXCEPT !.name = name] /\ DOMAIN s2.zones = DOMAIN s.zones
          /\ s2.zones[i].name = name /\ s2.zones[i].id = code /\ DOMAIN s2.zones[i] = {"id", "name", "count"}
        BY <2>2, <2>3, <2>5 DEF CM!Repo!IsRow, CM!Repo!Columns
    <2>7. CM!IsStore(s2)
        <3>1. CM!Repo!IsRow("zones", [s.zones[i] EXCEPT !.name = name])
            BY <2>3, ZoneRow
        <3>2. CM!Repo!IsList("zones", s2.zones)
            <4>1. \A k \in DOMAIN s.zones : CM!Repo!IsRow("zones", s2.zones[k])
                <5>1. \A k \in DOMAIN s.zones : k # i => s2.zones[k] = s.zones[k]
                    BY <2>5
                <5> QED
                    BY <5>1, <3>1, <2>6, <1>0, StoreParts, ListSeq
            <4>2. s2.zones = [k \in 1..Len(s.zones) |-> s2.zones[k]] /\ Len(s.zones) \in Nat
                  /\ DOMAIN s.zones = 1..Len(s.zones)
                <5>1. Len(s.zones) \in Nat /\ DOMAIN s.zones = 1..Len(s.zones)
                    BY <2>3
                <5>2. s2.zones = [k \in DOMAIN s.zones |-> s2.zones[k]]
                    <6> HIDE DEF s2
                    <6> QED
                        BY <2>5
                <5> QED
                    BY <5>1, <5>2
            <4> QED
                BY <4>1, <4>2, ListMade
        <3>3. \A t \in CM!Repo!Keyed : CM!Repo!IsList(t, s2[t])
            BY <3>2, <2>4, <2>5, StoreParts
        <3>4. s2.assistance = s.assistance /\ s2.projects = s.projects
            BY <2>4, <2>5
        <3> HIDE DEF s2
        <3> QED
            BY <3>3, <3>4, <2>5 DEF CM!IsStore
    <2>8. CM!IsStore(ahead)
        BY <2>7, RecountStore
    <2>9. z.id = code /\ z.name = name
        <3>1. Bare(z) = Bare(s2.zones[i]) /\ z.id = s2.zones[i].id
            <4> HIDE DEF s2
            <4> QED
                BY <2>7, <2>6, <2>2, RecountStore
        <3>2. DOMAIN z = {"id", "name", "count"}
            <4>1. CM!Repo!IsList("zones", ahead.zones) /\ DOMAIN ahead.zones = DOMAIN s2.zones
                <5> HIDE DEF s2
                <5> QED
                    BY <2>7, <1>0, RecountStore, StoreParts
            <4>2. CM!Repo!IsRow("zones", z)
                <5> HIDE DEF s2, ahead
                <5> QED
                    BY <4>1, <2>6, <2>2, ListSeq
            <4> QED
                BY <4>2 DEF CM!Repo!IsRow, CM!Repo!Columns
        <3> HIDE DEF z, s2
        <3> QED
            BY <3>1, <3>2, <2>6 DEF Bare
    <2> HIDE DEF s2, ahead, z
    <2>10. PICK e \in stmts : o = [db |-> e.db, store |-> ahead, err |-> CM!wrapPersist(e.err)]
        BY <2>1 DEF CM!After
    <2>11. CASE code \notin DOMAIN d.zones
        <3>1. e.db = d /\ e.err \in {"notfound", "failed"}
            BY <2>9, <2>11 DEF CM!Repo!UpdateZone, CM!Repo!errOrNotFound, CM!Repo!Refused, CM!Repo!Told
        <3> QED
            BY <3>1, <2>8, <2>10 DEF CM!wrapPersist
    <2>12. CASE code \in DOMAIN d.zones
        <3>0. PICK d2 : d2 = [d EXCEPT !.zones[code].name = name]
            OBVIOUS
        <3>1. \/ e.db = d /\ e.err = "failed"
              \/ e.db = d2
            BY <3>0, <2>9, <2>12 DEF CM!Repo!UpdateZone, CM!Repo!errOrNotFound, CM!Repo!Ran, CM!Repo!Told
        <3>2. Good(d, s, d2, s2)
            BY <3>0, <2>2, <2>12, ZoneRenamed DEF s2
        <3>3. Good(d, s, d2, ahead)
            BY <3>2, RecountGood DEF ahead
        <3> QED
            BY <3>1, <3>3, <2>8, <2>10 DEF CM!wrapPersist, Good
    <2> QED
        BY <2>11, <2>12
<1> QED
    BY <1>1, <1>2

\* One UpdateZoneCount.
LEMMA CountSound ==
    ASSUME NEW d, NEW s, CM!Repo!IsDb(d), CM!IsStore(s), NEW code,
           NEW o \in CM!persistZoneCount(d, s, code)
    PROVE  Good(d, s, o.db, o.store) /\ o.store = s
<1> DEFINE n == s.zones[CM!Find(s.zones, code)].count
           table == [d.zones EXCEPT ![code].count = n]
<1>0. "zones" \in CM!Repo!Keyed /\ "zones" \in Kinds
    BY KeyedTables DEF CM!Repo!Keyed
<1>1. PICK e \in CM!Repo!UpdateZoneCount(d, code, n) :
        o = [[db |-> e.db, store |-> IF e.err = "ok" THEN s ELSE s, err |-> CM!wrapPersist(e.err)]
               EXCEPT !.err = "ok"]
    BY DEF CM!persistZoneCount, CM!After
<1>2. o.db = e.db /\ o.store = s
    BY <1>1
<1> HIDE DEF n
<1>3. CASE e.db = d
    BY <1>2, <1>3, GoodSame
<1>4. CASE code \in DOMAIN d.zones /\ e.db = [d EXCEPT !.zones[code].count = n]
    <2>1. /\ CM!Repo!IsTable("zones", d.zones) /\ CM!Repo!IsList("zones", s.zones)
          /\ d.zones = [k \in DOMAIN d.zones |-> d.zones[k]]
          /\ \A k \in DOMAIN d.zones : CM!Repo!IsRow("zones", d.zones[k]) /\ d.zones[k].id = k
          /\ s.zones = [k \in DOMAIN s.zones |-> s.zones[k]]
          /\ \A k \in DOMAIN s.zones : CM!Repo!IsRow("zones", s.zones[k])
        BY <1>0, DbParts, StoreParts, KeyedTables, ListSeq DEF CM!Repo!IsTable
    <2>2. table = [k \in DOMAIN d.zones |-> table[k]]
        BY <2>1
    <2>3. \A k \in DOMAIN d.zones : /\ CM!Repo!IsRow("zones", table[k]) /\ table[k].id = k
                                    /\ Bare(table[k]) = Bare(d.zones[k])
        <3> DEFINE new == [d.zones[code] EXCEPT !.count = n]
        <3>1. CM!Repo!IsRow("zones", new) /\ new.id = code /\ Bare(new) = Bare(d.zones[code])
            BY <1>4, <2>1, ZoneRow
        <3>2. \A k \in DOMAIN d.zones : table[k] = IF k = code THEN new ELSE d.zones[k]
            BY <2>1
        <3> HIDE DEF new, table
        <3> QED
            BY <3>1, <3>2, <2>1
    <2>4. Follows("zones", d.zones, s.zones, table, s.zones)
        <3> HIDE DEF table
        <3>1. \A i \in DOMAIN s.zones, k \in DOMAIN d.zones :
                Bare(s.zones[i]) = Bare(d.zones[k]) => Bare(s.zones[i]) = Bare(table[k])
            BY <2>3
        <3> QED
            BY <1>0, <2>1, <2>2, <2>3, <3>1, FollowsMapped, Zenon
    <2>5. PICK d2 : d2 = [d EXCEPT !["zones"] = table]
        OBVIOUS
    <2>6. e.db = d2
        BY <1>4, <2>5
    <2>7. DOMAIN d2 = DOMAIN d /\ d2.zones = table /\ \A x \in DOMAIN d : x # "zones" => d2[x] = d[x]
        BY <2>5, <1>0, DbParts, KeyedTables
    <2> HIDE DEF table
    <2>8. Good(d, s, d2, s)
        BY <1>0, <2>4, <2>7, OneTableChanged
    <2> QED
        BY <2>6, <2>8, <1>2
<1> QED
    <2>1. e.db = d \/ (code \in DOMAIN d.zones /\ e.db = [d EXCEPT !.zones[code].count = n])
        BY DEF CM!Repo!UpdateZoneCount, CM!Repo!errOrNotFound, CM!Repo!Ran, CM!Repo!Refused, CM!Repo!Told
    <2> QED
        BY <2>1, <1>3, <1>4

\* Rows of contracts.
LEMMA ContractRow ==
    /\ \A no \in Int : \A z, sup, st, rep :
         CM!Repo!IsRow("contracts", [id |-> no, zone |-> z, sup |-> sup, status |-> st, report |-> rep])
    /\ "contracts" \in CM!Repo!Keyed
BY DEF CM!Repo!IsRow, CM!Repo!Columns, CM!Repo!Keyed

\* A patch leaves the id of a row.
LEMMA PatchedRow ==
    ASSUME NEW t, NEW x, CM!Repo!IsRow(t, x), "id" \in DOMAIN x, NEW patch, "id" \notin DOMAIN patch
    PROVE  CM!Repo!IsRow(t, CM!Patched(x, patch)) /\ CM!Patched(x, patch).id = x.id
BY DEF CM!Repo!IsRow, CM!Patched

\* The methods of contracts.
LEMMA CreateContractSound ==
    ASSUME NEW d, NEW s, CM!Repo!IsDb(d), CM!IsStore(s),
           NEW no \in Int, NEW z, NEW sup, NEW st, NEW rep, NEW o,
           o \in CM!CreateContract(d, s, [id |-> no, zone |-> z, sup |-> sup, status |-> st, report |-> rep])
    PROVE  Sound(d, s, o)
<1> DEFINE t == "contracts"
           c == [id |-> no, zone |-> z, sup |-> sup, status |-> CM!defaultStatus(st), report |-> rep]
           s2 == [s EXCEPT ![t] = Append(s[t], c)]
           stmts == CM!Repo!InsertContract(d, c)
<1>0. t \in CM!Repo!Keyed /\ CM!Repo!IsRow(t, c) /\ c.id \notin Unstored(t)
    BY ContractRow DEF Unstored
<1>1. o \in CM!insertContract(d, s, c)
    <2>1. [[id |-> no, zone |-> z, sup |-> sup, status |-> st, report |-> rep]
             EXCEPT !.status = CM!defaultStatus(@)] = c
        OBVIOUS
    <2> QED
        BY <2>1 DEF CM!CreateContract
<1>2. CASE CM!Find(s.contracts, no) # 0
    BY <1>1, <1>2, EndsSound DEF CM!insertContract
<1>3. CASE CM!Find(s.contracts, no) = 0
    <2>1. o \in CM!After(s, stmts, CM!recalcZoneCounts(s2))
        BY <1>1, <1>3 DEF CM!insertContract
    <2>2. stmts = CM!Repo!Refused(d) \/ stmts = CM!Repo!Insert(d, t, c)
        BY DEF CM!Repo!InsertContract
    <2> HIDE DEF c, t, stmts
    <2>3. ASSUME NEW p \in CM!After(s, stmts, s2)
          PROVE  Sound(d, s, p)
        BY <2>2, <2>3, <1>0, GrownSound
    <2> HIDE DEF s2
    <2> QED
        BY <2>1, <2>3, RecountSound
<1> QED
    BY <1>2, <1>3

LEMMA UpdateContractSound ==
    ASSUME NEW d, NEW s, CM!Repo!IsDb(d), CM!IsStore(s), NEW no, NEW patch, "id" \notin DOMAIN patch,
           NEW o \in CM!updateContract(d, s, no, patch)
    PROVE  Sound(d, s, o)
<1> DEFINE t == "contracts"
           i == CM!Find(s[t], no)
           c == CM!Patched(s[t][i], patch)
           s2 == [s EXCEPT ![t] = [s[t] EXCEPT ![i] = c]]
           stmts == CM!Repo!UpdateContract(d, c)
<1>0. t \in CM!Repo!Keyed /\ t \in Kinds
    BY ContractRow, KeyedTables
<1>2. CASE i = 0
    BY <1>2, EndsSound DEF CM!updateContract
<1>3. CASE i # 0
    <2>0. i \in DOMAIN s[t] /\ CM!Repo!IsRow(t, c) /\ c.id = s[t][i].id
        BY <1>0, <1>3, FoundRow, PatchedRow, RowId
    <2>1. o \in CM!After(s, stmts, CM!recalcZoneCounts(s2))
        BY <1>3 DEF CM!updateContract
    <2>2. stmts = CM!Repo!Refused(d) \/ stmts = CM!Repo!Update(d, t, c)
        BY DEF CM!Repo!UpdateContract
    <2> HIDE DEF c, t, stmts, i
    <2>3. ASSUME NEW p \in CM!After(s, stmts, s2)
          PROVE  Sound(d, s, p)
        BY <2>0, <2>2, <2>3, <1>0, RewrittenSound
    <2> HIDE DEF s2
    <2> QED
        BY <2>1, <2>3, RecountSound
<1> QED
    BY <1>2, <1>3

LEMMA DeleteContractSound ==
    ASSUME NEW d, NEW s, CM!Repo!IsDb(d), CM!IsStore(s), NEW no,
           NEW o \in CM!deleteContract(d, s, no)
    PROVE  Sound(d, s, o)
<1> DEFINE t == "contracts"
           i == CM!Find(s[t], no)
           s2 == [s EXCEPT ![t] = CM!RemoveAt(s[t], i)]
           stmts == CM!Repo!Delete(d, t, no)
<1>0. t \in CM!Repo!Keyed
    BY ContractRow
<1>2. CASE i = 0
    BY <1>2, EndsSound DEF CM!deleteContract
<1>3. CASE i # 0
    <2>0. i \in DOMAIN s[t] /\ no = s[t][i].id
        BY <1>0, <1>3, FoundRow
    <2>1. o \in CM!After(s, stmts, CM!recalcZoneCounts(s2))
        BY <1>3 DEF CM!deleteContract, CM!Repo!DeleteContract
    <2> HIDE DEF t, i
    <2>3. ASSUME NEW p \in CM!After(s, stmts, s2)
          PROVE  Sound(d, s, p)
        BY <2>0, <2>3, <1>0, DroppedSound
    <2> HIDE DEF s2, stmts
    <2> QED
        BY <2>1, <2>3, RecountSound
<1> QED
    BY <1>2, <1>3

-----------------------------------------------------------------------------
(* Users and roles. *)

\* The methods of users.
LEMMA CreateUserSound ==
    ASSUME NEW d, NEW s, CM!Repo!IsDb(d), CM!IsStore(s), NEW email, NEW role,
           NEW o \in CM!CreateUser(d, s, email, role)
    PROVE  Sound(d, s, o)
<1> DEFINE t == "users"
           u == [id |-> CM!NextId(s.users), email |-> email, name |-> "given", status |-> "active", role |-> role]
           stmts == CM!Repo!InsertWorkspaceUser(d, u)
<1>0. t \in CM!Repo!Keyed /\ CM!Repo!IsRow(t, u) /\ u.id \notin Unstored(t)
    <2>1. CM!NextId(s.users) \in Int
        BY NextIdInt DEF CM!Repo!Keyed
    <2> QED
        BY <2>1 DEF CM!Repo!Keyed, CM!Repo!IsRow, CM!Repo!Columns, Unstored
<1>1. CASE \E v \in CM!Range(s.users) : v.email = email
    BY <1>1, EndsSound DEF CM!CreateUser
<1>2. CASE ~ \E v \in CM!Range(s.users) : v.email = email
    <2>1. o \in CM!After(s, stmts, [s EXCEPT ![t] = Append(s[t], u)])
        BY <1>2 DEF CM!CreateUser, CM!Grown
    <2>2. stmts = CM!Repo!Refused(d) \/ stmts = CM!Repo!Insert(d, t, u)
        BY DEF CM!Repo!InsertWorkspaceUser
    <2> HIDE DEF t, u, stmts
    <2> QED
        BY <2>1, <2>2, <1>0, GrownSound
<1> QED
    BY <1>1, <1>2

LEMMA PatchUserSound ==
    ASSUME NEW d, NEW s, CM!Repo!IsDb(d), CM!IsStore(s), NEW id, NEW patch, "id" \notin DOMAIN patch,
           NEW o \in CM!PatchUser(d, s, id, patch)
    PROVE  Sound(d, s, o)
<1> DEFINE t == "users"
           i == CM!Find(s[t], id)
           u == CM!Patched(s[t][i], patch)
           stmts == CM!Repo!UpdateWorkspaceUser(d, u)
<1>0. t \in CM!Repo!Keyed /\ t \in Kinds
    BY KeyedTables DEF CM!Repo!Keyed
<1>1. CASE i = 0
    <2>1. o \in CM!Ends(d, s, "notfound")
        BY <1>1 DEF CM!PatchUser, CM!Rewritten
    <2> QED
        BY <2>1, EndsSound
<1>2. CASE i # 0
    <2>0. i \in DOMAIN s[t] /\ CM!Repo!IsRow(t, u) /\ u.id = s[t][i].id
        BY <1>0, <1>2, FoundRow, PatchedRow, RowId
    <2>1. o \in CM!After(s, stmts, [s EXCEPT ![t] = [s[t] EXCEPT ![i] = u]])
        BY <1>2 DEF CM!PatchUser, CM!Rewritten
    <2>2. stmts = CM!Repo!Refused(d) \/ stmts = CM!Repo!Update(d, t, u)
        BY DEF CM!Repo!UpdateWorkspaceUser
    <2> HIDE DEF t, u, stmts, i
    <2> QED
        BY <2>0, <2>1, <2>2, <1>0, RewrittenSound
<1> QED
    BY <1>1, <1>2

LEMMA ProfileSound ==
    ASSUME NEW d, NEW s, CM!Repo!IsDb(d), CM!IsStore(s), NEW email, NEW name,
           NEW o \in CM!PatchProfileForSession(d, s, email, name)
    PROVE  Sound(d, s, o)
BY EndsSound, PatchUserSound DEF CM!PatchProfileForSession

\* One change after another.
LEMMA GoodThen ==
    ASSUME NEW d, NEW s, NEW d1, NEW s1, NEW d2, NEW s2, Good(d, s, d1, s1), Good(d1, s1, d2, s2)
    PROVE  Good(d, s, d2, s2)
BY DEF Good, Follows

\* The users are freed of the role in the table as in the list.
LEMMA UsersFreed ==
    ASSUME NEW d, NEW s, CM!Repo!IsDb(d), CM!IsStore(s), NEW id,
           NEW table, table = [u \in DOMAIN d.users |-> table[u]],
           \A u \in DOMAIN d.users : table[u] =
             IF d.users[u].role = id THEN [d.users[u] EXCEPT !.role = None] ELSE d.users[u],
           NEW rows, rows = [k \in DOMAIN s.users |-> rows[k]],
           \A k \in DOMAIN s.users : rows[k] =
             IF s.users[k].role = id THEN [s.users[k] EXCEPT !.role = None] ELSE s.users[k]
    PROVE  Good(d, s, [d EXCEPT !["users"] = table], [s EXCEPT !["users"] = rows])
<1> DEFINE freed(u) == IF u.role = id THEN [u EXCEPT !.role = None] ELSE u
<1>0. "users" \in CM!Repo!Keyed /\ "users" \in Kinds /\ CM!Repo!Columns["users"] = {"id", "email", "name", "status", "role"}
    BY KeyedTables DEF CM!Repo!Keyed, CM!Repo!Columns
<1>1. ASSUME NEW u, CM!Repo!IsRow("users", u)
      PROVE  CM!Repo!IsRow("users", freed(u)) /\ freed(u).id = u.id
    BY <1>0, <1>1 DEF CM!Repo!IsRow
<1>2. ASSUME NEW u, CM!Repo!IsRow("users", u)
      PROVE  Bare(u) = u
    BY <1>0, <1>2 DEF CM!Repo!IsRow, Bare
<1>5. /\ \A k \in DOMAIN d.users : table[k] = freed(d.users[k])
      /\ \A k \in DOMAIN s.users : rows[k] = freed(s.users[k])
    OBVIOUS
<1> HIDE DEF freed
<1>4. /\ CM!Repo!IsTable("users", d.users) /\ CM!Repo!IsList("users", s.users)
      /\ \A k \in DOMAIN d.users : CM!Repo!IsRow("users", d.users[k]) /\ d.users[k].id = k
      /\ \A k \in DOMAIN s.users : CM!Repo!IsRow("users", s.users[k])
    BY <1>0, DbParts, StoreParts, KeyedTables, ListSeq DEF CM!Repo!IsTable
<1>6. /\ \A k \in DOMAIN d.users : CM!Repo!IsRow("users", table[k]) /\ table[k].id = k
      /\ \A k \in DOMAIN s.users : CM!Repo!IsRow("users", rows[k]) /\ rows[k].id = s.users[k].id
    <2>1. ASSUME NEW k \in DOMAIN d.users
          PROVE  CM!Repo!IsRow("users", table[k]) /\ table[k].id = k
        <3>1. CM!Repo!IsRow("users", freed(d.users[k])) /\ freed(d.users[k]).id = d.users[k].id
            BY <1>1, <1>4
        <3> QED
            BY <3>1, <1>4, <1>5
    <2>2. ASSUME NEW k \in DOMAIN s.users
          PROVE  CM!Repo!IsRow("users", rows[k]) /\ rows[k].id = s.users[k].id
        <3>1. CM!Repo!IsRow("users", freed(s.users[k])) /\ freed(s.users[k]).id = s.users[k].id
            BY <1>1, <1>4
        <3> QED
            BY <3>1, <1>5
    <2> QED
        BY <2>1, <2>2
<1>7. \A i \in DOMAIN s.users, k \in DOMAIN d.users :
        Bare(s.users[i]) = Bare(d.users[k]) => Bare(rows[i]) = Bare(table[k])
    <2>1. ASSUME NEW i \in DOMAIN s.users, NEW k \in DOMAIN d.users, Bare(s.users[i]) = Bare(d.users[k])
          PROVE  Bare(rows[i]) = Bare(table[k])
        <3>1. s.users[i] = d.users[k]
            BY <1>2, <1>4, <2>1
        <3> QED
            BY <3>1, <1>5
    <2> QED
        BY <2>1
<1>8. Follows("users", d.users, s.users, table, rows)
    <2>1. CM!Repo!Distinct(s.users) =>
            \A i \in DOMAIN s.users, k \in DOMAIN d.users :
              Bare(s.users[i]) = Bare(d.users[k]) /\ s.users[i].id = k => Bare(rows[i]) = Bare(table[k])
        BY <1>7
    <2> QED
        BY <1>0, <1>4, <2>1, <1>6, FollowsMapped, Zenon
<1> QED
    BY <1>0, <1>8, OneTable

\* DeleteRole takes the role out of its table and off its users.
LEMMA DeleteRoleSound ==
    ASSUME NEW d, NEW s, CM!Repo!IsDb(d), CM!IsStore(s), NEW id,
           NEW o \in CM!DeleteRole(d, s, id)
    PROVE  Sound(d, s, o)
<1> DEFINE i == CM!Find(s.roles, id)
<1>0. "roles" \in CM!Repo!Keyed /\ "roles" \in Kinds /\ "users" \in CM!Repo!Keyed /\ "roles" # "users"
    BY KeyedTables DEF CM!Repo!Keyed
<1>1. CASE i = 0
    BY <1>1, EndsSound DEF CM!DeleteRole
<1>2. CASE i # 0
    <2>1. PICK table : table = [u \in DOMAIN d.users |->
             IF d.users[u].role = id THEN [d.users[u] EXCEPT !.role = None] ELSE d.users[u]]
        OBVIOUS
    <2>2. PICK rows : rows = [k \in DOMAIN s.users |->
             IF s.users[k].role = id THEN [s.users[k] EXCEPT !.role = None] ELSE s.users[k]]
        OBVIOUS
    <2>3. PICK d1 : d1 = [d EXCEPT !["users"] = table]
        OBVIOUS
    <2>4. PICK s1 : s1 = [s EXCEPT !["users"] = rows]
        OBVIOUS
    <2>5. Good(d, s, d1, s1)
        <3>1. /\ table = [u \in DOMAIN d.users |-> table[u]]
              /\ \A u \in DOMAIN d.users : table[u] =
                   IF d.users[u].role = id THEN [d.users[u] EXCEPT !.role = None] ELSE d.users[u]
            BY <2>1
        <3>2. /\ rows = [k \in DOMAIN s.users |-> rows[k]]
              /\ \A k \in DOMAIN s.users : rows[k] =
                   IF s.users[k].role = id THEN [s.users[k] EXCEPT !.role = None] ELSE s.users[k]
            BY <2>2
        <3> QED
            BY <3>1, <3>2, <2>3, <2>4, UsersFreed
    <2>6. i \in DOMAIN s.roles /\ id = s.roles[i].id
        BY <1>0, <1>2, FoundRow
    <2>7. d1.roles = d.roles /\ s1.roles = s.roles
        BY <2>3, <2>4, <1>0, DbParts, StoreParts, KeyedTables
    <2>8. PICK d2 : d2 = [d1 EXCEPT !["roles"] = CM!Repo!Without(d.roles, id)]
        OBVIOUS
    <2>9. PICK s2 : s2 = [s1 EXCEPT !["roles"] = CM!RemoveAt(s.roles, i)]
        OBVIOUS
    <2>10. Good(d1, s1, d2, s2)
        <3>1. CM!Repo!IsDb(d1) /\ CM!IsStore(s1)
            BY <2>5 DEF Good
        <3>2. Follows("roles", d1.roles, s1.roles, CM!Repo!Without(d.roles, id), CM!RemoveAt(s.roles, i))
            BY <1>0, <2>6, <2>7, FollowsDropped, DbParts, StoreParts, KeyedTables
        <3> HIDE DEF i
        <3> QED
            BY <3>1, <3>2, <2>8, <2>9, <1>0, OneTable
    <2>11. Good(d, s, d2, s2)
        BY <2>5, <2>10, GoodThen
    <2>12. d2 = [d EXCEPT !.roles = CM!Repo!Without(@, id), !.users = table]
        BY <2>3, <2>8, <1>0
    <2>13. s2 = [s EXCEPT !.roles = CM!RemoveAt(@, i), !.users = rows]
        BY <2>4, <2>9, <1>0
    <2>14. o \in CM!After(s, CM!Repo!DeleteCustomRole(d, id), s2)
        BY <1>2, <2>13, <2>2 DEF CM!DeleteRole
    <2>15. \/ Statement(d, d2, CM!Repo!DeleteCustomRole(d, id))
           \/ Missed(d, CM!Repo!DeleteCustomRole(d, id))
        <3>1. CM!Repo!DeleteCustomRole(d, id) = CM!Repo!errOrNotFound(d, id \in DOMAIN d.roles, d2)
            BY <2>1, <2>12 DEF CM!Repo!DeleteCustomRole
        <3> QED
            BY <3>1 DEF CM!Repo!errOrNotFound, CM!Repo!Ran, CM!Repo!Refused, CM!Repo!Told, Statement, Missed
    <2> QED
        BY <2>11, <2>14, <2>15, AfterSound, MissedSound
<1> QED
    BY <1>1, <1>2

-----------------------------------------------------------------------------
(* Task projects. *)

\* A project as the store has it.
IsProject(p) ==
    p = [f \in {"dbid", "name", "tasks"} |-> p[f]] /\ p.dbid \in Nat /\ CM!Repo!IsList("items", p.tasks)

\* What a list of projects is made of.
LEMMA BoardParts ==
    ASSUME NEW rows, CM!IsBoard(rows)
    PROVE  /\ rows \in Seq(Range(rows)) /\ Len(rows) \in Nat /\ DOMAIN rows = 1..Len(rows)
           /\ \A i \in DOMAIN rows : IsProject(rows[i])
<1>1. rows \in Seq(Range(rows)) /\ Len(rows) \in Nat /\ DOMAIN rows = 1..Len(rows)
    BY DEF CM!IsBoard, CM!Repo!IsLog, CM!Repo!Range, Range
<1>2. \A i \in DOMAIN rows : rows[i] \in CM!Range(rows)
    BY DEF CM!Range
<1> QED
    BY <1>1, <1>2 DEF CM!IsBoard, IsProject

\* A function from 1..n to projects is a list of them.
LEMMA BoardMade ==
    ASSUME NEW rows, NEW n \in Nat, rows = [i \in 1..n |-> rows[i]], \A i \in 1..n : IsProject(rows[i])
    PROVE  CM!IsBoard(rows)
<1>1. DOMAIN rows = 1..n
    OBVIOUS
<1>2. rows \in [1..n -> Range(rows)]
    BY DEF Range
<1>3. rows \in Seq(Range(rows))
    BY <1>2
<1>4. CM!Repo!IsLog(rows)
    BY <1>3 DEF CM!Repo!IsLog, CM!Repo!Range, Range
<1>5. \A p \in CM!Range(rows) : IsProject(p)
    BY <1>1 DEF CM!Range
<1> QED
    BY <1>4, <1>5 DEF CM!IsBoard, IsProject

\* A list of projects with one more, one less, one replaced.
LEMMA BoardAppend ==
    ASSUME NEW rows, CM!IsBoard(rows), NEW p, IsProject(p)
    PROVE  CM!IsBoard(Append(rows, p))
<1> DEFINE new == Append(rows, p)
           n == Len(rows)
<1>1. /\ rows \in Seq(Range(rows)) /\ n \in Nat /\ DOMAIN rows = 1..n
      /\ \A i \in DOMAIN rows : IsProject(rows[i])
    BY BoardParts
<1>2. rows \in Seq(Range(rows) \cup {p})
    BY <1>1
<1>3. new \in Seq(Range(rows) \cup {p}) /\ Len(new) = n + 1
    BY <1>2
<1>4. \A i \in 1..(n + 1) : new[i] = IF i = n + 1 THEN p ELSE rows[i]
    BY <1>1, <1>2
<1> HIDE DEF new
<1>5. new = [i \in 1..(n + 1) |-> new[i]] /\ n + 1 \in Nat
    BY <1>3, <1>1
<1>6. \A i \in 1..(n + 1) : IsProject(new[i])
    BY <1>1, <1>4
<1>7. CM!IsBoard(new)
    BY <1>5, <1>6, BoardMade
<1> QED
    BY <1>7 DEF new

LEMMA BoardRemoveAt ==
    ASSUME NEW rows, CM!IsBoard(rows), NEW i \in DOMAIN rows
    PROVE  CM!IsBoard(CM!RemoveAt(rows, i))
<1> DEFINE new == CM!RemoveAt(rows, i)
           n == Len(rows)
<1>1. /\ rows \in Seq(Range(rows)) /\ n \in Nat /\ DOMAIN rows = 1..n
      /\ \A k \in DOMAIN rows : IsProject(rows[k])
    BY BoardParts
<1>2. /\ new \in Seq(Range(rows)) /\ DOMAIN new = 1..(n - 1)
      /\ \A k \in 1..(n - 1) : new[k] = IF k < i THEN rows[k] ELSE rows[k + 1]
    BY <1>1, SeqRemoveAt
<1> HIDE DEF new
<1>3. new = [k \in 1..(n - 1) |-> new[k]] /\ n - 1 \in Nat
    BY <1>1, <1>2
<1>4. \A k \in 1..(n - 1) : IsProject(new[k])
    BY <1>1, <1>2
<1>5. CM!IsBoard(new)
    BY <1>3, <1>4, BoardMade
<1> QED
    BY <1>5 DEF new

LEMMA BoardPut ==
    ASSUME NEW rows, CM!IsBoard(rows), NEW i \in DOMAIN rows, NEW p, IsProject(p)
    PROVE  CM!IsBoard([rows EXCEPT ![i] = p])
<1> DEFINE new == [rows EXCEPT ![i] = p]
<1>1. /\ rows \in Seq(Range(rows)) /\ Len(rows) \in Nat /\ DOMAIN rows = 1..Len(rows)
      /\ \A k \in DOMAIN rows : IsProject(rows[k])
    BY BoardParts
<1>2. new = [k \in 1..Len(rows) |-> IF k = i THEN p ELSE rows[k]]
    BY <1>1
<1>3. new = [k \in 1..Len(rows) |-> new[k]] /\ \A k \in 1..Len(rows) : IsProject(new[k])
    BY <1>1, <1>2
<1> HIDE DEF new
<1>4. CM!IsBoard(new)
    BY <1>1, <1>3, BoardMade
<1> QED
    BY <1>4 DEF new

\* Only the projects and their tasks differ.
TasksOnly(d, d2) ==
    /\ DOMAIN d2 = DOMAIN d /\ \A x \in DOMAIN d \ {"projects", "tasks", "serial"} : d2[x] = d[x]
    /\ CM!Repo!IsTable("projects", d2.projects) /\ CM!Repo!IsTable("tasks", d2.tasks)
    /\ d2.serial \in Nat \ {0} /\ CM!Repo!Numbered(d2)

\* Nothing changed.
LEMMA TasksSame == ASSUME NEW d, CM!Repo!IsDb(d) PROVE TasksOnly(d, d)
BY DbParts DEF TasksOnly, CM!Repo!IsDb, Tables, CM!Repo!Tables

\* What touches projects and tasks only touches nothing else a cache promises.
LEMMA TasksGood ==
    ASSUME NEW d, NEW s, CM!Repo!IsDb(d), CM!IsStore(s),
           NEW d2, TasksOnly(d, d2),
           NEW s2, DOMAIN s2 = DOMAIN s, \A x \in DOMAIN s \ {"projects"} : s2[x] = s[x], CM!IsBoard(s2.projects)
    PROVE  Good(d, s, d2, s2)
<1>1. /\ DOMAIN d = Tables \cup {"audit", "assistance", "photos", "scan", "serial"}
      /\ DOMAIN s = CM!Repo!Keyed \cup {"audit", "assistance", "photos", "projects", "scan"}
    BY DbParts, StoreParts
<1>2. /\ "projects" \notin CM!Repo!Keyed /\ "tasks" \notin CM!Repo!Keyed /\ "serial" \notin CM!Repo!Keyed
      /\ Tables = CM!Repo!Keyed \cup {"projects", "tasks"}
    BY DEF CM!Repo!Keyed, Tables, CM!Repo!Tables
<1>3. \A t \in CM!Repo!Keyed : d2[t] = d[t] /\ s2[t] = s[t]
    <2>1. \A t \in CM!Repo!Keyed : d2[t] = d[t]
        BY <1>1, <1>2 DEF TasksOnly
    <2>2. \A t \in CM!Repo!Keyed : s2[t] = s[t]
        BY <1>1, <1>2
    <2> QED
        BY <2>1, <2>2
<1>4. d2.assistance = d.assistance /\ d2.photos = d.photos
    BY <1>1 DEF TasksOnly
<1>5. s2.assistance = s.assistance /\ s2.photos = s.photos
    BY <1>1
<1>6. CM!Repo!IsDb(d2)
    <2>1. \A t \in Tables : CM!Repo!IsTable(t, d2[t])
        BY <1>2, <1>3, DbParts, KeyedTables DEF TasksOnly
    <2> QED
        BY <2>1, <1>1, <1>4 DEF CM!Repo!IsDb, TasksOnly, Tables
<1>7. CM!IsStore(s2)
    BY <1>3, <1>5, StoreParts DEF CM!IsStore
<1> QED
    BY <1>3, <1>4, <1>5, <1>6, <1>7, GoodAlike DEF Messaged

\* A method that touches the projects alone.
LEMMA TasksSound ==
    ASSUME NEW d, NEW s, CM!Repo!IsDb(d), CM!IsStore(s),
           NEW rows, CM!IsBoard(rows), NEW stmts, \A e \in stmts : TasksOnly(d, e.db),
           NEW s2, s2 = [s EXCEPT !["projects"] = rows],
           NEW o \in CM!After(s, stmts, s2)
    PROVE  Sound(d, s, o)
<1>1. PICK e \in stmts : o = [db |-> e.db, store |-> IF e.err = "ok" THEN s2 ELSE s,
                               err |-> CM!wrapPersist(e.err)]
    BY DEF CM!After
<1>2. CM!IsBoard(s.projects)
    BY DEF CM!IsStore
<1>3. "projects" \in DOMAIN s
    BY StoreParts
<1>4. Good(d, s, e.db, s)
    BY <1>2, TasksGood
<1>5. Good(d, s, e.db, s2)
    <2>1. DOMAIN s2 = DOMAIN s /\ s2.projects = rows /\ \A x \in DOMAIN s \ {"projects"} : s2[x] = s[x]
        BY <1>3
    <2> QED
        BY <2>1, TasksGood
<1> QED
    BY <1>1, <1>4, <1>5 DEF Sound, Good

\* A finite set of numbers has a greatest one.
LEMMA Greatest ==
    ASSUME NEW S \in SUBSET Int, IsFiniteSet(S), S # {}
    PROVE  \E x \in S : \A y \in S : x >= y
<1> DEFINE above(x) == {y \in S : y > x}
           N == {Cardinality(above(x)) : x \in S}
<1>1. \A x \in S : IsFiniteSet(above(x)) /\ Cardinality(above(x)) \in Nat
    <2>1. ASSUME NEW x \in S
          PROVE  IsFiniteSet(above(x)) /\ Cardinality(above(x)) \in Nat
        <3>1. above(x) \in SUBSET S
            OBVIOUS
        <3>2. IsFiniteSet(above(x))
            BY <3>1, FS_Subset
        <3> QED
            BY <3>2, FS_CardinalityType
    <2> QED
        BY <2>1
<1>2. N \in SUBSET Nat /\ N # {}
    <2> HIDE DEF above
    <2> QED
        BY <1>1
<1>3. PICK n \in N : \A k \in N : n <= k
    <2> HIDE DEF N
    <2> QED
        BY <1>2, Least
<1>4. PICK x \in S : n = Cardinality(above(x))
    OBVIOUS
<1>5. ASSUME NEW y \in S, y > x
      PROVE  FALSE
    <2>1. above(y) \in SUBSET above(x) /\ y \in above(x) /\ y \notin above(y)
        <3>1. x \in Int /\ y \in Int /\ S \subseteq Int
            OBVIOUS
        <3>2. \A z \in above(y) : z \in above(x)
            BY <1>5, <3>1
        <3>3. y \in above(x) /\ y \notin above(y)
            BY <1>5, <3>1
        <3> QED
            BY <3>2, <3>3
    <2>2. above(y) # above(x)
        BY <2>1
    <2> HIDE DEF above
    <2>3. Cardinality(above(y)) < Cardinality(above(x))
        BY <2>1, <2>2, <1>1, FS_Subset
    <2>4. Cardinality(above(x)) <= Cardinality(above(y))
        BY <1>3, <1>4
    <2> QED
        BY <2>3, <2>4, <1>1
<1> QED
    BY <1>5

\* The sort order of a new project is a number.
LEMMA NextOrderInt ==
    ASSUME NEW d, CM!Repo!IsDb(d)
    PROVE  CM!Repo!NextOrder(d) \in Int
<1> DEFINE S == CM!Repo!Orders(d)
<1>1. S = {d.projects[id].order : id \in DOMAIN d.projects} /\ S \in SUBSET Int
    BY DEF CM!Repo!Orders, CM!Repo!IsDb, CM!Repo!Numbered
<1>2. IsFiniteSet(S)
    <2>1. IsFiniteSet(DOMAIN d.projects)
        <3>1. CM!Repo!IsTable("projects", d.projects)
            BY DEF CM!Repo!IsDb, CM!Repo!Tables
        <3> QED
            BY <3>1 DEF CM!Repo!IsTable, CM!Repo!IsFiniteSet, IsFiniteSet
    <2>2. PICK f : f = [id \in DOMAIN d.projects |-> d.projects[id].order]
        OBVIOUS
    <2>3. f \in Surjection(DOMAIN d.projects, S)
        BY <2>2, <1>1 DEF Surjection
    <2> HIDE DEF S
    <2> QED
        BY <2>1, <2>3, FS_Surjection
<1>3. S # {} => CM!Repo!Max(S) \in S
    <2>1. S # {} => \E x \in S : \A y \in S : x >= y
        BY <1>1, <1>2, Greatest
    <2>2. CM!Repo!Max(S) = CHOOSE x \in S : \A y \in S : x >= y
        BY DEF CM!Repo!Max
    <2> HIDE DEF S
    <2> QED
        BY <2>1, <2>2
<1>4. CASE S = {}
    BY <1>4 DEF CM!Repo!NextOrder
<1>5. CASE S # {}
    <2>1. CM!Repo!NextOrder(d) = 1 + CM!Repo!Max(S) /\ CM!Repo!Max(S) \in Int
        BY <1>5, <1>3, <1>1 DEF CM!Repo!NextOrder
    <2> QED
        BY <2>1
<1> QED
    BY <1>4, <1>5

\* A database with other projects and tasks.
LEMMA TasksMade ==
    ASSUME NEW d, NEW d2, DOMAIN d2 = DOMAIN d,
           \A x \in DOMAIN d \ {"projects", "tasks", "serial"} : d2[x] = d[x],
           CM!Repo!IsTable("projects", d2.projects), CM!Repo!IsTable("tasks", d2.tasks),
           d2.serial \in Nat \ {0},
           \A p \in DOMAIN d2.projects : p \in 1..(d2.serial - 1) /\ d2.projects[p].order \in Int,
           \A p, q \in DOMAIN d2.projects : d2.projects[p].order = d2.projects[q].order => p = q
    PROVE  TasksOnly(d, d2)
BY DEF TasksOnly, CM!Repo!Numbered

\* The projects and tasks of a database.
LEMMA DbFields ==
    ASSUME NEW d, CM!Repo!IsDb(d)
    PROVE  /\ CM!Repo!IsTable("projects", d.projects) /\ CM!Repo!IsTable("tasks", d.tasks)
           /\ d.serial \in Nat \ {0} /\ "projects" \in Kinds /\ "tasks" \in Kinds
           /\ \A p \in DOMAIN d.projects : p \in 1..(d.serial - 1) /\ d.projects[p].order \in Int
           /\ \A p, q \in DOMAIN d.projects : d.projects[p].order = d.projects[q].order => p = q
           /\ {"projects", "tasks", "serial"} \subseteq DOMAIN d
BY DbParts DEF CM!Repo!IsDb, CM!Repo!Numbered, CM!Repo!Tables, Tables, Kinds

\* Rows of projects and tasks.
LEMMA ProjectRow ==
    /\ \A id, order \in Int : \A name : CM!Repo!IsRow("projects", [id |-> id, order |-> order, name |-> name])
    /\ \A p : CM!Repo!IsRow("projects", p) =>
         \A name : /\ CM!Repo!IsRow("projects", [p EXCEPT !.name = name])
                   /\ [p EXCEPT !.name = name].id = p.id /\ [p EXCEPT !.name = name].order = p.order
    /\ \A id \in Int : \A p, title : CM!Repo!IsRow("tasks", [id |-> id, project |-> p, title |-> title])
    /\ \A t : CM!Repo!IsRow("tasks", t) =>
         \A title : /\ CM!Repo!IsRow("tasks", [t EXCEPT !.title = title])
                    /\ [t EXCEPT !.title = title].id = t.id
    /\ \A id \in Int : \A title : CM!Repo!IsRow("items", [id |-> id, title |-> title])
    /\ \A t : CM!Repo!IsRow("items", t) =>
         \A title : CM!Repo!IsRow("items", [t EXCEPT !.title = title])
<1>1. /\ CM!Repo!Columns["projects"] = {"id", "order", "name"}
      /\ CM!Repo!Columns["tasks"] = {"id", "project", "title"}
      /\ CM!Repo!Columns["items"] = {"id", "title"}
    BY DEF CM!Repo!Columns
<1>2. ASSUME NEW id \in Int, NEW order \in Int, NEW name
      PROVE  CM!Repo!IsRow("projects", [id |-> id, order |-> order, name |-> name])
    BY <1>1 DEF CM!Repo!IsRow
<1>3. ASSUME NEW p, CM!Repo!IsRow("projects", p), NEW name
      PROVE  /\ CM!Repo!IsRow("projects", [p EXCEPT !.name = name])
             /\ [p EXCEPT !.name = name].id = p.id /\ [p EXCEPT !.name = name].order = p.order
    BY <1>1, <1>3 DEF CM!Repo!IsRow
<1>4. ASSUME NEW id \in Int, NEW p, NEW title
      PROVE  CM!Repo!IsRow("tasks", [id |-> id, project |-> p, title |-> title])
    BY <1>1 DEF CM!Repo!IsRow
<1>5. ASSUME NEW t, CM!Repo!IsRow("tasks", t), NEW title
      PROVE  CM!Repo!IsRow("tasks", [t EXCEPT !.title = title]) /\ [t EXCEPT !.title = title].id = t.id
    BY <1>1, <1>5 DEF CM!Repo!IsRow
<1>6. ASSUME NEW id \in Int, NEW title
      PROVE  CM!Repo!IsRow("items", [id |-> id, title |-> title])
    BY <1>1 DEF CM!Repo!IsRow
<1>7. ASSUME NEW t, CM!Repo!IsRow("items", t), NEW title
      PROVE  CM!Repo!IsRow("items", [t EXCEPT !.title = title])
    BY <1>1, <1>7 DEF CM!Repo!IsRow
<1> QED
    BY <1>2, <1>3, <1>4, <1>5, <1>6, <1>7

\* A table with one row replaced.
LEMMA TablePut ==
    ASSUME NEW t \in Kinds, NEW table, CM!Repo!IsTable(t, table), NEW id \in DOMAIN table,
           NEW x, CM!Repo!IsRow(t, x), x.id = id
    PROVE  CM!Repo!IsTable(t, [table EXCEPT ![id] = x])
<1> DEFINE new == [table EXCEPT ![id] = x]
<1>1. /\ IsFiniteSet(DOMAIN table) /\ table = [k \in DOMAIN table |-> table[k]]
      /\ \A k \in DOMAIN table : CM!Repo!IsRow(t, table[k]) /\ table[k].id = k
    BY DEF CM!Repo!IsTable, CM!Repo!IsFiniteSet, IsFiniteSet
<1>2. new = [k \in DOMAIN table |-> IF k = id THEN x ELSE table[k]]
    BY <1>1
<1>3. /\ new = [k \in DOMAIN table |-> new[k]]
      /\ \A k \in DOMAIN table : CM!Repo!IsRow(t, new[k]) /\ new[k].id = k
    BY <1>1, <1>2
<1> HIDE DEF new
<1>4. CM!Repo!IsTable(t, new)
    BY <1>1, <1>3, TableMade
<1> QED
    BY <1>4 DEF new

\* The statements of projects and tasks touch nothing else.
LEMMA InsertTaskProjectOnly ==
    ASSUME NEW d, CM!Repo!IsDb(d), NEW name, NEW e \in CM!Repo!InsertTaskProject(d, name)
    PROVE  TasksOnly(d, e.db)
<1> DEFINE p == [id |-> d.serial, order |-> CM!Repo!NextOrder(d), name |-> name]
           table == CM!Repo!With(d.projects, p.id, p)
<1>1. e.db = d \/ (p.order \notin CM!Repo!Orders(d)
                     /\ e.db = [d EXCEPT !.projects = table, !.serial = @ + 1])
    BY DEF CM!Repo!InsertTaskProject, CM!Repo!Refused, CM!Repo!Ran, CM!Repo!Told
<1>2. CASE e.db = d
    BY <1>2, TasksSame
<1>3. CASE p.order \notin CM!Repo!Orders(d) /\ e.db = [d EXCEPT !.projects = table, !.serial = @ + 1]
    <2>1. p.id = d.serial /\ p.order = CM!Repo!NextOrder(d) /\ p.order \in Int /\ p.id \in Int
        BY NextOrderInt, DbFields
    <2>2. CM!Repo!IsRow("projects", p)
        BY <2>1, ProjectRow
    <2> HIDE DEF p
    <2>3. CM!Repo!IsTable("projects", table)
        BY <2>2, DbFields, TableWith
    <2>4. table = [k \in DOMAIN d.projects \cup {p.id} |-> IF k = p.id THEN p ELSE d.projects[k]]
        BY DEF CM!Repo!With
    <2>5. \A k \in DOMAIN table : k \in 1..d.serial /\ table[k].order \in Int
        BY <2>1, <2>4, DbFields
    <2>6. \A k \in DOMAIN d.projects : d.projects[k].order # p.order
        BY <1>3 DEF CM!Repo!Orders
    <2>7. \A k, l \in DOMAIN table : table[k].order = table[l].order => k = l
        BY <2>4, <2>6, DbFields
    <2>8. /\ DOMAIN e.db = DOMAIN d /\ e.db.projects = table /\ e.db.tasks = d.tasks /\ e.db.serial = d.serial + 1
          /\ \A x \in DOMAIN d \ {"projects", "tasks", "serial"} : e.db[x] = d[x]
        <3> HIDE DEF table
        <3> QED
            BY <1>3, DbFields
    <2> HIDE DEF table
    <2>9. e.db.serial \in Nat \ {0}
        BY <2>8, DbFields
    <2>10. CM!Repo!IsTable("projects", e.db.projects) /\ CM!Repo!IsTable("tasks", e.db.tasks)
        BY <2>3, <2>8, DbFields
    <2>11. /\ \A k \in DOMAIN e.db.projects : k \in 1..(e.db.serial - 1) /\ e.db.projects[k].order \in Int
           /\ \A k, l \in DOMAIN e.db.projects : e.db.projects[k].order = e.db.projects[l].order => k = l
        <3>1. e.db.serial - 1 = d.serial
            BY <2>8, DbFields
        <3>2. e.db.projects = table
            BY <2>8
        <3> QED
            BY <2>5, <2>7, <3>1, <3>2
    <2> QED
        BY <2>8, <2>9, <2>10, <2>11, TasksMade
<1> QED
    BY <1>1, <1>2, <1>3

\* A statement that hits a row changes it or nothing.
LEMMA HitOrSame ==
    ASSUME NEW d, NEW hit, NEW after, NEW e \in CM!Repo!errOrNotFound(d, hit, after)
    PROVE  e.db = d \/ (hit /\ e.db = after)
BY DEF CM!Repo!errOrNotFound, CM!Repo!Ran, CM!Repo!Refused, CM!Repo!Told

\* A database with other tasks.
LEMMA TasksPut ==
    ASSUME NEW d, CM!Repo!IsDb(d), NEW tasks, CM!Repo!IsTable("tasks", tasks),
           NEW d2, d2 = [d EXCEPT !["tasks"] = tasks]
    PROVE  TasksOnly(d, d2)
<1>1. /\ DOMAIN d2 = DOMAIN d /\ d2.tasks = tasks /\ d2.projects = d.projects /\ d2.serial = d.serial
      /\ \A x \in DOMAIN d \ {"projects", "tasks", "serial"} : d2[x] = d[x]
    BY DbFields
<1> QED
    BY <1>1, DbFields, TasksMade

LEMMA UpdateTaskProjectOnly ==
    ASSUME NEW d, CM!Repo!IsDb(d), NEW id, NEW name, NEW e \in CM!Repo!UpdateTaskProject(d, id, name)
    PROVE  TasksOnly(d, e.db)
<1> DEFINE new == [d.projects[id] EXCEPT !.name = name]
           table == [d.projects EXCEPT ![id] = new]
<1>0. [d EXCEPT !.projects[id].name = name] = [d EXCEPT !["projects"] = table]
    OBVIOUS
<1>1. e.db = d \/ (id \in DOMAIN d.projects /\ e.db = [d EXCEPT !["projects"] = table])
    <2>1. e.db = d \/ (id \in DOMAIN d.projects /\ e.db = [d EXCEPT !.projects[id].name = name])
        BY DEF CM!Repo!UpdateTaskProject, CM!Repo!errOrNotFound, CM!Repo!Ran, CM!Repo!Refused, CM!Repo!Told
    <2> HIDE DEF table
    <2> QED
        BY <2>1, <1>0
<1>2. CASE id \in DOMAIN d.projects /\ e.db = [d EXCEPT !["projects"] = table]
    <2>1. CM!Repo!IsRow("projects", d.projects[id]) /\ d.projects[id].id = id
        BY <1>2, DbFields, TableRow
    <2>2. CM!Repo!IsRow("projects", new) /\ new.id = id /\ new.order = d.projects[id].order
        BY <2>1, ProjectRow
    <2>3. d.projects = [k \in DOMAIN d.projects |-> d.projects[k]]
        BY DbFields DEF CM!Repo!IsTable
    <2>4. DOMAIN table = DOMAIN d.projects /\ \A k \in DOMAIN table : table[k] = IF k = id THEN new ELSE d.projects[k]
        BY <2>3
    <2> HIDE DEF new
    <2>5. CM!Repo!IsTable("projects", table)
        BY <1>2, <2>2, DbFields, TablePut
    <2>6. \A k \in DOMAIN table : table[k].order = d.projects[k].order
        BY <2>2, <2>4
    <2>7. /\ DOMAIN e.db = DOMAIN d /\ e.db.tasks = d.tasks /\ e.db.projects = table /\ e.db.serial = d.serial
          /\ \A x \in DOMAIN d \ {"projects", "tasks", "serial"} : e.db[x] = d[x]
        <3> HIDE DEF table
        <3> QED
            BY <1>2, DbFields
    <2> HIDE DEF table
    <2>8. /\ \A p \in DOMAIN table : p \in 1..(d.serial - 1) /\ table[p].order \in Int
          /\ \A p, q \in DOMAIN table : table[p].order = table[q].order => p = q
        BY <2>4, <2>6, DbFields
    <2> QED
        BY <2>5, <2>7, <2>8, DbFields, TasksMade
<1> QED
    BY <1>1, <1>2, TasksSame

LEMMA DeleteTaskProjectOnly ==
    ASSUME NEW d, CM!Repo!IsDb(d), NEW id, NEW e \in CM!Repo!DeleteTaskProject(d, id)
    PROVE  TasksOnly(d, e.db)
<1> DEFINE projects == CM!Repo!Without(d.projects, id)
           tasks == CM!Repo!Restrict(d.tasks, {t \in DOMAIN d.tasks : d.tasks[t].project # id})
<1>1. e.db = d \/ e.db = [d EXCEPT !.projects = projects, !.tasks = tasks]
    BY HitOrSame DEF CM!Repo!DeleteTaskProject
<1>2. CASE e.db = [d EXCEPT !.projects = projects, !.tasks = tasks]
    <2>1. projects = [k \in DOMAIN d.projects \ {id} |-> d.projects[k]]
        BY DEF CM!Repo!Without, CM!Repo!Restrict
    <2>2. CM!Repo!IsTable("projects", projects)
        BY DbFields, TableWithout DEF CM!Repo!Without
    <2>3. CM!Repo!IsTable("tasks", tasks)
        <3>1. {t \in DOMAIN d.tasks : d.tasks[t].project # id} \in SUBSET DOMAIN d.tasks
            OBVIOUS
        <3> QED
            BY <3>1, DbFields, TableWithout
    <2> HIDE DEF tasks, projects
    <2>4. /\ DOMAIN e.db = DOMAIN d /\ e.db.tasks = tasks /\ e.db.projects = projects /\ e.db.serial = d.serial
          /\ \A x \in DOMAIN d \ {"projects", "tasks", "serial"} : e.db[x] = d[x]
        BY <1>2, DbFields
    <2>5. /\ \A p \in DOMAIN projects : p \in 1..(d.serial - 1) /\ projects[p].order \in Int
          /\ \A p, q \in DOMAIN projects : projects[p].order = projects[q].order => p = q
        BY <2>1, DbFields
    <2> QED
        BY <2>2, <2>3, <2>4, <2>5, DbFields, TasksMade
<1> QED
    BY <1>1, <1>2, TasksSame

LEMMA InsertTaskItemOnly ==
    ASSUME NEW d, CM!Repo!IsDb(d), NEW project, NEW t, t.id \in Int,
           NEW e \in CM!Repo!InsertTaskItem(d, project, t)
    PROVE  TasksOnly(d, e.db)
<1> DEFINE row == [id |-> t.id, project |-> project, title |-> t.title]
           tasks == CM!Repo!With(d.tasks, row.id, row)
<1>1. e.db = d \/ e.db = [d EXCEPT !["tasks"] = tasks]
    BY DEF CM!Repo!InsertTaskItem, CM!Repo!Ran, CM!Repo!Refused, CM!Repo!Told
<1>2. CM!Repo!IsRow("tasks", row)
    BY ProjectRow
<1>3. CM!Repo!IsTable("tasks", tasks)
    <2> HIDE DEF row
    <2> QED
        BY <1>2, DbFields, TableWith
<1> HIDE DEF tasks
<1> QED
    BY <1>1, <1>3, TasksSame, TasksPut

LEMMA UpdateTaskItemOnly ==
    ASSUME NEW d, CM!Repo!IsDb(d), NEW project, NEW t,
           NEW e \in CM!Repo!UpdateTaskItem(d, project, t)
    PROVE  TasksOnly(d, e.db)
<1> DEFINE row == [d.tasks[t.id] EXCEPT !.title = t.title]
           tasks == [d.tasks EXCEPT ![t.id] = row]
<1>0. [d EXCEPT !.tasks[t.id].title = t.title] = [d EXCEPT !["tasks"] = tasks]
    OBVIOUS
<1>1. e.db = d \/ (t.id \in DOMAIN d.tasks /\ e.db = [d EXCEPT !["tasks"] = tasks])
    <2>1. e.db = d \/ (t.id \in DOMAIN d.tasks /\ e.db = [d EXCEPT !.tasks[t.id].title = t.title])
        BY DEF CM!Repo!UpdateTaskItem, CM!Repo!TaskOf, CM!Repo!errOrNotFound, CM!Repo!Ran,
               CM!Repo!Refused, CM!Repo!Told
    <2> HIDE DEF tasks
    <2> QED
        BY <2>1, <1>0
<1>2. CASE t.id \in DOMAIN d.tasks /\ e.db = [d EXCEPT !["tasks"] = tasks]
    <2>1. CM!Repo!IsRow("tasks", row) /\ row.id = t.id
        <3>1. CM!Repo!IsRow("tasks", d.tasks[t.id]) /\ d.tasks[t.id].id = t.id
            BY <1>2, DbFields, TableRow
        <3> QED
            BY <3>1, ProjectRow
    <2>2. CM!Repo!IsTable("tasks", tasks)
        <3> HIDE DEF row
        <3> QED
            BY <1>2, <2>1, DbFields, TablePut
    <2> HIDE DEF tasks
    <2> QED
        BY <1>2, <2>2, TasksPut
<1> QED
    BY <1>1, <1>2, TasksSame

LEMMA DeleteTaskItemOnly ==
    ASSUME NEW d, CM!Repo!IsDb(d), NEW project, NEW id,
           NEW e \in CM!Repo!DeleteTaskItem(d, project, id)
    PROVE  TasksOnly(d, e.db)
<1> DEFINE tasks == CM!Repo!Without(d.tasks, id)
<1>1. e.db = d \/ e.db = [d EXCEPT !["tasks"] = tasks]
    BY HitOrSame DEF CM!Repo!DeleteTaskItem
<1>2. CM!Repo!IsTable("tasks", tasks)
    BY DbFields, TableWithout DEF CM!Repo!Without
<1> HIDE DEF tasks
<1> QED
    BY <1>1, <1>2, TasksSame, TasksPut

\* A project without a surrogate is not stored.
LEMMA StoredOnly ==
    ASSUME NEW d, CM!Repo!IsDb(d), NEW p, NEW stmts, \A e \in stmts : TasksOnly(d, e.db)
    PROVE  \A e \in CM!Stored(d, p, stmts) : TasksOnly(d, e.db)
BY TasksSame DEF CM!Stored, CM!SkipRepo, CM!Repo!Told

\* The methods of projects, then of tasks.
LEMMA ProjectMethodsSound ==
    ASSUME NEW d, NEW s, CM!Repo!IsDb(d), CM!IsStore(s), NEW i, NEW name, NEW o,
           \/ o \in CM!CreateProject(d, s, name)
           \/ o \in CM!PatchProject(d, s, i, name)
           \/ o \in CM!DeleteProject(d, s, i)
    PROVE  Sound(d, s, o)
<1>0. CM!IsBoard(s.projects) /\ s.projects \in Seq(Range(s.projects)) /\ "projects" \in DOMAIN s
    BY BoardParts, StoreParts DEF CM!IsStore
<1>1. CASE o \in CM!CreateProject(d, s, name)
    <2> DEFINE p == [dbid |-> d.serial, name |-> name, tasks |-> <<>>]
               stmts == CM!Repo!InsertTaskProject(d, name)
    <2>1. o \in CM!After(s, stmts, [s EXCEPT !["projects"] = Append(s.projects, p)])
        BY <1>1 DEF CM!CreateProject
    <2>2. IsProject(p)
        <3>1. CM!Repo!IsList("items", <<>>)
            BY DEF CM!Repo!IsList, CM!Repo!IsLog, CM!Repo!Range, Range
        <3> QED
            BY <3>1, DbFields DEF IsProject
    <2>3. \A e \in stmts : TasksOnly(d, e.db)
        BY InsertTaskProjectOnly
    <2> HIDE DEF p, stmts
    <2>4. CM!IsBoard(Append(s.projects, p))
        BY <1>0, <2>2, BoardAppend
    <2> QED
        BY <2>1, <2>3, <2>4, TasksSound
<1>2. CASE o \in CM!PatchProject(d, s, i, name)
    <2>1. CASE i \notin DOMAIN s.projects
        BY <2>1, <1>2, EndsSound DEF CM!PatchProject
    <2>2. CASE i \in DOMAIN s.projects
        <3> DEFINE p == [s.projects[i] EXCEPT !.name = name]
                   stmts == CM!Stored(d, s.projects[i], CM!Repo!UpdateTaskProject(d, s.projects[i].dbid, name))
        <3>1. o \in CM!After(s, stmts, [s EXCEPT !["projects"] = [s.projects EXCEPT ![i] = p]])
            BY <1>2, <2>2 DEF CM!PatchProject
        <3>2. IsProject(p)
            <4>1. IsProject(s.projects[i])
                BY <1>0, <2>2, BoardParts
            <4> QED
                BY <4>1 DEF IsProject
        <3>3. \A e \in stmts : TasksOnly(d, e.db)
            BY UpdateTaskProjectOnly, StoredOnly
        <3> HIDE DEF p, stmts
        <3>4. CM!IsBoard([s.projects EXCEPT ![i] = p])
            BY <1>0, <2>2, <3>2, BoardPut
        <3> QED
            BY <3>1, <3>3, <3>4, TasksSound
    <2> QED
        BY <2>1, <2>2
<1>3. CASE o \in CM!DeleteProject(d, s, i)
    <2>1. CASE i \notin DOMAIN s.projects
        BY <2>1, <1>3, EndsSound DEF CM!DeleteProject
    <2>2. CASE i \in DOMAIN s.projects
        <3> DEFINE stmts == CM!Stored(d, s.projects[i], CM!Repo!DeleteTaskProject(d, s.projects[i].dbid))
        <3>1. o \in CM!After(s, stmts, [s EXCEPT !["projects"] = CM!RemoveAt(s.projects, i)])
            BY <1>3, <2>2 DEF CM!DeleteProject
        <3>3. \A e \in stmts : TasksOnly(d, e.db)
            BY DeleteTaskProjectOnly, StoredOnly
        <3> HIDE DEF stmts
        <3>4. CM!IsBoard(CM!RemoveAt(s.projects, i))
            BY <1>0, <2>2, BoardRemoveAt
        <3> QED
            BY <3>1, <3>3, <3>4, TasksSound
    <2> QED
        BY <2>1, <2>2
<1> QED
    BY <1>1, <1>2, <1>3

LEMMA TaskMethodsSound ==
    ASSUME NEW d, NEW s, CM!Repo!IsDb(d), CM!IsStore(s), NEW i, NEW id \in Int, NEW title, NEW o,
           \/ o \in CM!CreateTask(d, s, i, id, title)
           \/ o \in CM!PatchTask(d, s, i, id, title)
           \/ o \in CM!DeleteTask(d, s, i, id)
    PROVE  Sound(d, s, o)
<1> DEFINE p == s.projects[i]
           k == CM!Find(p.tasks, id)
           t == [id |-> id, title |-> title]
<1>0. /\ CM!IsBoard(s.projects) /\ s.projects \in Seq(Range(s.projects)) /\ "projects" \in DOMAIN s
      /\ "items" \in Kinds /\ CM!Repo!IsRow("items", t) /\ t.id \in Int
    BY BoardParts, StoreParts, ProjectRow DEF CM!IsStore, Kinds
<1>1. CASE i \notin DOMAIN s.projects
    BY <1>1, EndsSound DEF CM!CreateTask, CM!PatchTask, CM!DeleteTask
<1>2. CASE i \in DOMAIN s.projects
    <2>0. IsProject(p) /\ CM!Repo!IsList("items", p.tasks)
        BY <1>0, <1>2, BoardParts DEF IsProject
    <2>1. ASSUME NEW rows, CM!Repo!IsList("items", rows)
          PROVE  CM!IsBoard([s.projects EXCEPT ![i] = [p EXCEPT !.tasks = rows]])
        <3>1. IsProject([p EXCEPT !.tasks = rows])
            BY <2>0, <2>1 DEF IsProject
        <3> HIDE DEF p
        <3> QED
            BY <1>0, <1>2, <3>1, BoardPut
    <2>2. CASE o \in CM!CreateTask(d, s, i, id, title)
        <3> DEFINE stmts == CM!Stored(d, p, CM!Repo!InsertTaskItem(d, p.dbid, t))
        <3>1. o \in CM!After(s, stmts,
                [s EXCEPT !["projects"] = [s.projects EXCEPT ![i] = [p EXCEPT !.tasks = Append(p.tasks, t)]]])
            BY <1>2, <2>2 DEF CM!CreateTask
        <3>2. \A e \in stmts : TasksOnly(d, e.db)
            BY <1>0, InsertTaskItemOnly, StoredOnly
        <3> HIDE DEF stmts, p, t
        <3>3. CM!Repo!IsList("items", Append(p.tasks, t))
            BY <1>0, <2>0, ListAppend
        <3>4. CM!IsBoard([s.projects EXCEPT ![i] = [p EXCEPT !.tasks = Append(p.tasks, t)]])
            BY <2>1, <3>3
        <3> QED
            BY <3>1, <3>2, <3>4, TasksSound
    <2>3. CASE k = 0 /\ (o \in CM!PatchTask(d, s, i, id, title) \/ o \in CM!DeleteTask(d, s, i, id))
        BY <2>3, EndsSound DEF CM!PatchTask, CM!DeleteTask
    <2>4. CASE k # 0 /\ o \in CM!PatchTask(d, s, i, id, title)
        <3> DEFINE stmts == CM!Stored(d, p, CM!Repo!UpdateTaskItem(d, p.dbid, t))
                   new == [p.tasks[k] EXCEPT !.title = title]
                   rows == [p.tasks EXCEPT ![k] = new]
        <3>1. o \in CM!After(s, stmts,
                [s EXCEPT !["projects"] = [s.projects EXCEPT ![i] = [p EXCEPT !.tasks = rows]]])
            BY <1>2, <2>4 DEF CM!PatchTask
        <3>2. \A e \in stmts : TasksOnly(d, e.db)
            BY UpdateTaskItemOnly, StoredOnly
        <3> HIDE DEF stmts, p, t
        <3>3. CM!Repo!IsList("items", rows)
            <4>1. /\ p.tasks \in Seq(Range(p.tasks)) /\ Len(p.tasks) \in Nat /\ DOMAIN p.tasks = 1..Len(p.tasks)
                  /\ \A j \in DOMAIN p.tasks : CM!Repo!IsRow("items", p.tasks[j])
                BY <2>0, ListSeq
            <4>2. k \in DOMAIN p.tasks
                BY <2>4, <4>1, FindRow
            <4> HIDE DEF k
            <4>3. CM!Repo!IsRow("items", new)
                BY <4>1, <4>2, ProjectRow
            <4> HIDE DEF new
            <4>4. \A j \in 1..Len(p.tasks) : rows[j] = IF j = k THEN new ELSE p.tasks[j]
                BY <4>1
            <4>5. rows = [j \in 1..Len(p.tasks) |-> rows[j]]
                BY <4>1
            <4> HIDE DEF rows
            <4>6. \A j \in 1..Len(p.tasks) : CM!Repo!IsRow("items", rows[j])
                BY <4>1, <4>3, <4>4
            <4> QED
                BY <4>1, <4>5, <4>6, ListMade
        <3> HIDE DEF rows
        <3>4. CM!IsBoard([s.projects EXCEPT ![i] = [p EXCEPT !.tasks = rows]])
            BY <2>1, <3>3
        <3> QED
            BY <3>1, <3>2, <3>4, TasksSound
    <2>5. CASE k # 0 /\ o \in CM!DeleteTask(d, s, i, id)
        <3> DEFINE stmts == CM!Stored(d, p, CM!Repo!DeleteTaskItem(d, p.dbid, id))
                   rows == CM!RemoveAt(p.tasks, k)
        <3>1. o \in CM!After(s, stmts,
                [s EXCEPT !["projects"] = [s.projects EXCEPT ![i] = [p EXCEPT !.tasks = rows]]])
            BY <1>2, <2>5 DEF CM!DeleteTask
        <3>2. \A e \in stmts : TasksOnly(d, e.db)
            BY DeleteTaskItemOnly, StoredOnly
        <3> HIDE DEF stmts, p
        <3>3. CM!Repo!IsList("items", rows)
            <4>1. p.tasks \in Seq(Range(p.tasks))
                BY <2>0, ListSeq
            <4>2. k \in DOMAIN p.tasks
                BY <2>5, <4>1, FindRow
            <4> HIDE DEF k
            <4> QED
                BY <4>2, <1>0, <2>0, ListRemoveAt
        <3> HIDE DEF rows
        <3>4. CM!IsBoard([s.projects EXCEPT ![i] = [p EXCEPT !.tasks = rows]])
            BY <2>1, <3>3
        <3> QED
            BY <3>1, <3>2, <3>4, TasksSound
    <2> QED
        BY <2>2, <2>3, <2>4, <2>5
<1> QED
    BY <1>1, <1>2

-----------------------------------------------------------------------------
(* Log, messages, photos, scan. *)

\* What touches the logs only.
LEMMA LogGood ==
    ASSUME NEW d, NEW s, CM!Repo!IsDb(d), CM!IsStore(s), NEW d2, NEW s2,
           DOMAIN d2 = DOMAIN d, \A x \in Tables \cup {"serial"} : d2[x] = d[x], CM!Repo!IsLog(d2.assistance),
           DOMAIN s2 = DOMAIN s, \A x \in CM!Repo!Keyed \cup {"projects"} : s2[x] = s[x],
           CM!Repo!IsLog(s2.assistance),
           Messaged(d, s) => Messaged(d2, s2)
    PROVE  Good(d, s, d2, s2)
<1>1. CM!Repo!IsDb(d2)
    <2>1. d2.projects = d.projects /\ d2.serial = d.serial
        BY DEF Tables, CM!Repo!Tables
    <2>2. CM!Repo!Numbered(d2)
        BY <2>1 DEF CM!Repo!IsDb, CM!Repo!Numbered
    <2> QED
        BY <2>1, <2>2 DEF CM!Repo!IsDb, Tables
<1>2. CM!IsStore(s2)
    BY DEF CM!IsStore
<1> QED
    BY <1>1, <1>2, GoodAlike, KeyedTables

\* InsertAuditAndTrim.
LEMMA AuditGood ==
    ASSUME NEW d, NEW s, CM!Repo!IsDb(d), CM!IsStore(s), NEW entry,
           NEW o \in CM!auditStored(d, s, entry)
    PROVE  Good(d, s, o.db, o.store) /\ o.store = s
<1>1. PICK e \in CM!Repo!InsertAuditAndTrim(d, entry, AuditKeep) :
        o = [[db |-> e.db, store |-> IF e.err = "ok" THEN s ELSE s, err |-> CM!wrapPersist(e.err)]
               EXCEPT !.err = "ok"]
    BY DEF CM!auditStored, CM!After
<1>2. o.db = e.db /\ o.store = s
    BY <1>1
<1>3. PICK log : e.db = d \/ e.db = [d EXCEPT !["audit"] = log]
    BY DEF CM!Repo!InsertAuditAndTrim, CM!Repo!Ran, CM!Repo!Told
<1>4. CASE e.db = [d EXCEPT !["audit"] = log]
    <2>1. DOMAIN e.db = DOMAIN d /\ \A x \in DOMAIN d \ {"audit"} : e.db[x] = d[x]
        BY <1>4
    <2>2. Tables \cup {"serial", "assistance", "photos"} \subseteq DOMAIN d \ {"audit"}
        BY DbParts DEF Tables, CM!Repo!Tables, CM!Repo!Keyed
    <2>3. \A x \in Tables \cup {"serial", "assistance", "photos"} : e.db[x] = d[x]
        BY <2>1, <2>2
    <2>4. CM!Repo!IsLog(e.db.assistance) /\ CM!Repo!IsLog(s.assistance)
        BY <2>3 DEF CM!Repo!IsDb, CM!IsStore
    <2>5. Messaged(d, s) => Messaged(e.db, s)
        BY <2>3 DEF Messaged
    <2> QED
        BY <1>2, <2>1, <2>3, <2>4, <2>5, LogGood
<1> QED
    BY <1>2, <1>3, <1>4, GoodSame

\* The ring of the cache.
LEMMA RingGood ==
    ASSUME NEW d, NEW s, CM!Repo!IsDb(d), CM!IsStore(s), NEW entry
    PROVE  Good(d, s, d, CM!auditRing(s, entry))
<1>1. PICK ring : CM!auditRing(s, entry) = [s EXCEPT !["audit"] = ring]
    BY DEF CM!auditRing
<1> DEFINE s2 == CM!auditRing(s, entry)
<1>2. DOMAIN s2 = DOMAIN s /\ \A x \in DOMAIN s \ {"audit"} : s2[x] = s[x]
    BY <1>1
<1>3. CM!Repo!Keyed \cup {"projects", "assistance", "photos"} \subseteq DOMAIN s \ {"audit"}
    BY StoreParts DEF CM!Repo!Keyed
<1> HIDE DEF s2
<1>4. \A x \in CM!Repo!Keyed \cup {"projects", "assistance", "photos"} : s2[x] = s[x]
    BY <1>2, <1>3
<1>5. CM!Repo!IsLog(d.assistance) /\ CM!Repo!IsLog(s2.assistance)
    BY <1>4 DEF CM!Repo!IsDb, CM!IsStore
<1>6. Messaged(d, s) => Messaged(d, s2)
    BY <1>4 DEF Messaged
<1>7. Good(d, s, d, s2)
    BY <1>2, <1>4, <1>5, <1>6, LogGood
<1> QED
    BY <1>7 DEF s2

\* A log with an entry more, at either end.
LEMMA LogAdded ==
    ASSUME NEW rows, CM!Repo!IsLog(rows), NEW m
    PROVE  /\ CM!Repo!IsLog(Append(rows, m)) /\ Range(Append(rows, m)) = Range(rows) \cup {m}
           /\ CM!Repo!IsLog(<<m>> \o rows) /\ Range(<<m>> \o rows) = Range(rows) \cup {m}
<1> DEFINE S == Range(rows) \cup {m}
           new == Append(rows, m)
           old == <<m>> \o rows
           n == Len(rows)
<1>1. rows \in Seq(Range(rows)) /\ n \in Nat /\ DOMAIN rows = 1..n
    BY DEF CM!Repo!IsLog, CM!Repo!Range, Range
<1>2. rows \in Seq(S) /\ <<m>> \in Seq(S)
    BY <1>1
<1>3. new \in Seq(S) /\ Len(new) = n + 1 /\ \A i \in 1..(n + 1) : new[i] = IF i = n + 1 THEN m ELSE rows[i]
    <2> HIDE DEF S
    <2>0. m \in S
        BY DEF S
    <2>1. new \in Seq(S) /\ Len(new) = n + 1
        BY <1>2, <2>0
    <2>2. \A i \in 1..n : new[i] = rows[i]
        BY <1>2, <2>0
    <2>3. new[n + 1] = m
        BY <1>2, <2>0
    <2> QED
        BY <2>1, <2>2, <2>3, <1>1
<1>4. old \in Seq(S) /\ Len(old) = n + 1 /\ \A i \in 1..(n + 1) : old[i] = IF i = 1 THEN m ELSE rows[i - 1]
    <2> HIDE DEF S
    <2>1. old \in Seq(S)
        BY <1>2
    <2>2. Len(old) = n + 1
        BY <1>2, <1>1
    <2>3. old[1] = m
        BY <1>2, <1>1
    <2>4. \A i \in 2..(n + 1) : old[i] = rows[i - 1]
        BY <1>2, <1>1
    <2> QED
        BY <2>1, <2>2, <2>3, <2>4, <1>1
<1> HIDE DEF new, old
<1>5. DOMAIN new = 1..(n + 1) /\ DOMAIN old = 1..(n + 1)
    BY <1>3, <1>4
<1>6. Range(new) = S
    <2>1. \A x \in Range(new) : x \in S
        BY <1>1, <1>3, <1>5 DEF Range
    <2>2. m \in Range(new)
        BY <1>1, <1>3, <1>5 DEF Range
    <2>3. ASSUME NEW i \in DOMAIN rows
          PROVE  rows[i] \in Range(new)
        <3>1. i \in 1..(n + 1) /\ new[i] = rows[i]
            BY <1>1, <1>3
        <3> QED
            BY <3>1, <1>5 DEF Range
    <2> QED
        BY <2>1, <2>2, <2>3 DEF Range
<1>7. Range(old) = S
    <2>1. \A x \in Range(old) : x \in S
        BY <1>4 DEF Range
    <2>2. m \in Range(old)
        BY <1>1, <1>4, <1>5 DEF Range
    <2>3. ASSUME NEW i \in DOMAIN rows
          PROVE  rows[i] \in Range(old)
        <3>1. i + 1 \in 1..(n + 1) /\ old[i + 1] = rows[i]
            BY <1>1, <1>4
        <3> QED
            BY <3>1, <1>5 DEF Range
    <2> QED
        BY <2>1, <2>2, <2>3 DEF Range
<1>8. CM!Repo!IsLog(new) /\ CM!Repo!IsLog(old)
    BY <1>3, <1>4, <1>6, <1>7 DEF CM!Repo!IsLog, CM!Repo!Range, Range
<1> QED
    BY <1>6, <1>7, <1>8 DEF new, old

\* PostAssistance.
LEMMA AssistanceSound ==
    ASSUME NEW d, NEW s, CM!Repo!IsDb(d), CM!IsStore(s), NEW m,
           NEW o \in CM!PostAssistance(d, s, m)
    PROVE  Sound(d, s, o)
<1>1. PICK d2 : d2 = [d EXCEPT !["assistance"] = Append(d.assistance, m)]
    OBVIOUS
<1>2. PICK s2 : s2 = [s EXCEPT !["assistance"] = <<m>> \o s.assistance]
    OBVIOUS
<1>3. o \in CM!After(s, CM!Repo!Ran(d, d2), s2)
    BY <1>1, <1>2 DEF CM!PostAssistance, CM!Repo!InsertAssistance
<1>4. CM!Repo!IsLog(d.assistance) /\ CM!Repo!IsLog(s.assistance)
    BY DEF CM!Repo!IsDb, CM!IsStore
<1>5. /\ DOMAIN d = Tables \cup {"audit", "assistance", "photos", "scan", "serial"}
      /\ DOMAIN s = CM!Repo!Keyed \cup {"audit", "assistance", "photos", "projects", "scan"}
      /\ "assistance" \notin Tables \cup {"serial", "photos"}
      /\ "assistance" \notin CM!Repo!Keyed \cup {"projects", "photos"}
    BY DbParts, StoreParts DEF Tables, CM!Repo!Tables, CM!Repo!Keyed
<1>6. /\ DOMAIN d2 = DOMAIN d /\ d2.assistance = Append(d.assistance, m)
      /\ \A x \in Tables \cup {"serial", "photos"} : d2[x] = d[x]
    BY <1>1, <1>5
<1>7. /\ DOMAIN s2 = DOMAIN s /\ s2.assistance = <<m>> \o s.assistance
      /\ \A x \in CM!Repo!Keyed \cup {"projects", "photos"} : s2[x] = s[x]
    BY <1>2, <1>5
<1>8. /\ CM!Repo!IsLog(d2.assistance) /\ Range(d2.assistance) = Range(d.assistance) \cup {m}
      /\ CM!Repo!IsLog(s2.assistance) /\ Range(s2.assistance) = Range(s.assistance) \cup {m}
    <2>1. /\ CM!Repo!IsLog(Append(d.assistance, m))
          /\ Range(Append(d.assistance, m)) = Range(d.assistance) \cup {m}
        BY <1>4, LogAdded
    <2>2. /\ CM!Repo!IsLog(<<m>> \o s.assistance)
          /\ Range(<<m>> \o s.assistance) = Range(s.assistance) \cup {m}
        BY <1>4, LogAdded
    <2> QED
        BY <1>6, <1>7, <2>1, <2>2
<1>9. Messaged(d, s) => Messaged(d2, s2)
    BY <1>6, <1>7, <1>8 DEF Messaged
<1>10. Good(d, s, d2, s2)
    BY <1>6, <1>7, <1>8, <1>9, LogGood
<1> QED
    BY <1>3, <1>10, RanStatement, AfterSound

\* SetProfilePhoto.
LEMMA PhotoSound ==
    ASSUME NEW d, NEW s, CM!Repo!IsDb(d), CM!IsStore(s), NEW email, NEW photo,
           NEW o \in CM!SetProfilePhoto(d, s, email, photo)
    PROVE  Sound(d, s, o)
<1> DEFINE put(photos) == IF photo = None THEN CM!Repo!Without(photos, email)
                          ELSE CM!Repo!With(photos, email, photo)
<1>1. PICK d2 : d2 = [d EXCEPT !["photos"] = put(d.photos)]
    OBVIOUS
<1>2. PICK s2 : s2 = [s EXCEPT !["photos"] = put(s.photos)]
    OBVIOUS
<1>3. o \in CM!After(s, CM!Repo!Ran(d, d2), s2)
    BY <1>1, <1>2 DEF CM!SetProfilePhoto, CM!Repo!DeleteProfilePhoto, CM!Repo!UpsertProfilePhoto
<1> HIDE DEF put
<1>4. CM!Repo!IsLog(d.assistance) /\ CM!Repo!IsLog(s.assistance)
    BY DEF CM!Repo!IsDb, CM!IsStore
<1>5. /\ DOMAIN d = Tables \cup {"audit", "assistance", "photos", "scan", "serial"}
      /\ DOMAIN s = CM!Repo!Keyed \cup {"audit", "assistance", "photos", "projects", "scan"}
      /\ "photos" \notin Tables \cup {"serial", "assistance"}
      /\ "photos" \notin CM!Repo!Keyed \cup {"projects", "assistance"}
    BY DbParts, StoreParts DEF Tables, CM!Repo!Tables, CM!Repo!Keyed
<1>6. /\ DOMAIN d2 = DOMAIN d /\ d2.photos = put(d.photos)
      /\ \A x \in Tables \cup {"serial", "assistance"} : d2[x] = d[x]
    BY <1>1, <1>5
<1>7. /\ DOMAIN s2 = DOMAIN s /\ s2.photos = put(s.photos)
      /\ \A x \in CM!Repo!Keyed \cup {"projects", "assistance"} : s2[x] = s[x]
    BY <1>2, <1>5
<1>8. CM!Repo!IsLog(d2.assistance) /\ CM!Repo!IsLog(s2.assistance)
    BY <1>4, <1>6, <1>7
<1>9. Messaged(d, s) => Messaged(d2, s2)
    BY <1>6, <1>7 DEF Messaged
<1>10. Good(d, s, d2, s2)
    BY <1>6, <1>7, <1>8, <1>9, LogGood
<1> QED
    BY <1>3, <1>10, RanStatement, AfterSound

\* SetAiScan.
LEMMA ScanGood ==
    ASSUME NEW d, NEW s, CM!Repo!IsDb(d), CM!IsStore(s), NEW scan,
           NEW o \in CM!SetAiScan(d, s, scan)
    PROVE  Good(d, s, o.db, o.store)
<1>0. PICK s2 : s2 = [s EXCEPT !["scan"] = scan]
    OBVIOUS
<1>9. PICK p \in CM!After(s, CM!Repo!UpsertAiScan(d, scan), s2) : o = [p EXCEPT !.err = "ok"]
    BY <1>0 DEF CM!SetAiScan
<1>1. PICK e \in CM!Repo!UpsertAiScan(d, scan) :
        p = [db |-> e.db, store |-> IF e.err = "ok" THEN s2 ELSE s, err |-> CM!wrapPersist(e.err)]
    BY DEF CM!After
<1>2. o.db = e.db /\ (o.store = s \/ o.store = [s EXCEPT !["scan"] = scan])
    BY <1>0, <1>1, <1>9
<1>3. e.db = d \/ e.db = [d EXCEPT !["scan"] = scan]
    BY DEF CM!Repo!UpsertAiScan, CM!Repo!Ran, CM!Repo!Told
<1>4. /\ DOMAIN d = Tables \cup {"audit", "assistance", "photos", "scan", "serial"}
      /\ DOMAIN s = CM!Repo!Keyed \cup {"audit", "assistance", "photos", "projects", "scan"}
      /\ "scan" \notin Tables \cup {"serial", "assistance", "photos"}
      /\ "scan" \notin CM!Repo!Keyed \cup {"projects", "assistance", "photos"}
    BY DbParts, StoreParts DEF Tables, CM!Repo!Tables, CM!Repo!Keyed
<1>5. DOMAIN o.db = DOMAIN d /\ \A x \in Tables \cup {"serial", "assistance", "photos"} : o.db[x] = d[x]
    BY <1>2, <1>3, <1>4
<1>6. DOMAIN o.store = DOMAIN s
      /\ \A x \in CM!Repo!Keyed \cup {"projects", "assistance", "photos"} : o.store[x] = s[x]
    BY <1>2, <1>4
<1>7. CM!Repo!IsLog(o.db.assistance) /\ CM!Repo!IsLog(o.store.assistance)
    BY <1>5, <1>6 DEF CM!Repo!IsDb, CM!IsStore
<1>8. Messaged(d, s) => Messaged(o.db, o.store)
    BY <1>5, <1>6 DEF Messaged
<1> QED
    BY <1>5, <1>6, <1>7, <1>8, LogGood

-----------------------------------------------------------------------------
(* Loading: every row of a table is listed once. *)

\* Cardinality, as the modules of the workspace know it.
LEMMA CardSame == \A S : CM!Repo!Cardinality(S) = Cardinality(S)
BY DEF CM!Repo!Cardinality, Cardinality

\* How many k have a value up to that of id.
RankIn(S, v, id) == Cardinality({k \in S : v[k] <= v[id]})

\* Distinct numbers have distinct ranks, from 1 to how many there are.
LEMMA Ranks ==
    ASSUME NEW S, IsFiniteSet(S), NEW v, \A k \in S : v[k] \in Int, \A k, l \in S : v[k] = v[l] => k = l
    PROVE  \A i \in 1..Cardinality(S) : \E id \in S :
             RankIn(S, v, id) = i /\ \A id2 \in S : RankIn(S, v, id2) = i => id2 = id
<1> DEFINE upTo(id) == {k \in S : v[k] <= v[id]}
           n == Cardinality(S)
           rank == [id \in S |-> Cardinality(upTo(id))]
<1>0. n \in Nat
    BY FS_CardinalityType
<1>1. ASSUME NEW id \in S
      PROVE  IsFiniteSet(upTo(id)) /\ rank[id] \in 1..n
    <2>1. upTo(id) \in SUBSET S /\ id \in upTo(id) /\ upTo(id) # {}
        OBVIOUS
    <2>2. rank[id] = Cardinality(upTo(id))
        OBVIOUS
    <2> HIDE DEF upTo, rank
    <2>3. IsFiniteSet(upTo(id)) /\ Cardinality(upTo(id)) <= n /\ Cardinality(upTo(id)) \in Nat
        BY <2>1, FS_Subset, FS_CardinalityType
    <2>4. Cardinality(upTo(id)) # 0
        BY <2>1, <2>3, FS_EmptySet
    <2> QED
        BY <1>0, <2>2, <2>3, <2>4
<1>2. ASSUME NEW id \in S, NEW id2 \in S, v[id] < v[id2]
      PROVE  rank[id] # rank[id2]
    <2>1. upTo(id) \in SUBSET upTo(id2) /\ id2 \in upTo(id2) /\ id2 \notin upTo(id)
        BY <1>2
    <2>2. rank[id] = Cardinality(upTo(id)) /\ rank[id2] = Cardinality(upTo(id2))
        OBVIOUS
    <2> HIDE DEF upTo, rank
    <2>3. upTo(id2) # upTo(id)
        BY <2>1
    <2> QED
        BY <2>1, <2>2, <2>3, <1>1, FS_Subset
<1>3. \A id, id2 \in S : rank[id] = rank[id2] => id = id2
    <2>1. ASSUME NEW id \in S, NEW id2 \in S, id # id2
          PROVE  rank[id] # rank[id2]
        <3>1. v[id] < v[id2] \/ v[id2] < v[id]
            BY <2>1
        <3> HIDE DEF rank
        <3> QED
            BY <3>1, <1>2
    <2> HIDE DEF rank
    <2> QED
        BY <2>1
<1>4. rank \in Injection(S, 1..n)
    <2>1. rank = [id \in S |-> rank[id]]
        OBVIOUS
    <2> HIDE DEF rank
    <2> QED
        BY <1>1, <1>3, <2>1 DEF Injection, IsInjective
<1>5. IsFiniteSet(1..n) /\ Cardinality(1..n) = n
    BY <1>0, FS_Interval
<1>6. rank \in Surjection(S, 1..n)
    <2> HIDE DEF rank
    <2> QED
        BY <1>4, <1>5, FS_Injection
<1>7. \A id \in S : rank[id] = Cardinality(upTo(id))
    OBVIOUS
<1> HIDE DEF rank
<1>8. ASSUME NEW i \in 1..n
      PROVE  \E id \in S : rank[id] = i /\ \A id2 \in S : rank[id2] = i => id2 = id
    <2>1. PICK id \in S : rank[id] = i
        BY <1>6 DEF Surjection
    <2> QED
        BY <2>1, <1>3
<1>9. ASSUME NEW i \in 1..n
      PROVE  \E id \in S : Cardinality(upTo(id)) = i /\ \A id2 \in S : Cardinality(upTo(id2)) = i => id2 = id
    <2> HIDE DEF upTo
    <2> QED
        BY <1>7, <1>8
<1>10. \A id : RankIn(S, v, id) = Cardinality(upTo(id))
    BY DEF RankIn
<1> HIDE DEF upTo
<1> QED
    BY <1>9, <1>10

\* What OrderBy returns, when the column tells the rows apart.
LEMMA Ordered ==
    ASSUME NEW t \in Kinds, NEW table, CM!Repo!IsTable(t, table), NEW c,
           \A k \in DOMAIN table : table[k][c] \in Int,
           \A k, l \in DOMAIN table : table[k][c] = table[l][c] => k = l
    PROVE  LET rows == CM!Repo!OrderBy(table, c)
               n == Cardinality(DOMAIN table) IN
           /\ n \in Nat /\ rows = [i \in 1..n |-> rows[i]]
           /\ \A i \in 1..n : \E id \in DOMAIN table : rows[i] = table[id]
           /\ \A id \in DOMAIN table : \E i \in 1..n : rows[i] = table[id]
           /\ \A i, j \in 1..n : i # j => rows[i].id # rows[j].id
<1> DEFINE S == DOMAIN table
           v == [k \in S |-> table[k][c]]
           n == Cardinality(S)
           rows == CM!Repo!OrderBy(table, c)
           at(i, id) == CM!Repo!Cardinality({k \in S : table[k][c] <= table[id][c]}) = i
<1>1. IsFiniteSet(S) /\ \A k \in S : table[k].id = k
    BY DEF CM!Repo!IsTable, CM!Repo!IsFiniteSet, IsFiniteSet
<1>2. n \in Nat
    BY <1>1, FS_CardinalityType
<1>11. ASSUME NEW i, NEW id \in S
       PROVE  at(i, id) <=> RankIn(S, v, id) = i
    <2>1. {k \in S : table[k][c] <= table[id][c]} = {k \in S : v[k] <= v[id]}
        OBVIOUS
    <2> HIDE DEF v
    <2> QED
        BY <2>1, CardSame DEF RankIn
<1>12. \A i, j, id : at(i, id) /\ at(j, id) => i = j
    OBVIOUS
<1>4. rows = [i \in 1..n |-> table[CHOOSE id \in S : at(i, id)]]
    BY CardSame DEF CM!Repo!OrderBy
<1>3. \A i \in 1..n : \E id \in S : at(i, id) /\ \A id2 \in S : at(i, id2) => id2 = id
    <2>1. (\A k \in S : v[k] \in Int) /\ (\A k, l \in S : v[k] = v[l] => k = l)
        OBVIOUS
    <2> HIDE DEF v, at
    <2>2. \A i \in 1..n : \E id \in S :
            RankIn(S, v, id) = i /\ \A id2 \in S : RankIn(S, v, id2) = i => id2 = id
        BY <1>1, <2>1, Ranks
    <2> QED
        BY <2>2, <1>11
<1> DEFINE key == [i \in 1..n |-> CHOOSE id \in S : at(i, id)]
<1>5. ASSUME NEW i \in 1..n
      PROVE  key[i] \in S /\ at(i, key[i]) /\ \A id2 \in S : at(i, id2) => id2 = key[i]
    <2>1. \E id \in S : at(i, id) /\ \A id2 \in S : at(i, id2) => id2 = id
        BY <1>3
    <2>2. key[i] = CHOOSE id \in S : at(i, id)
        OBVIOUS
    <2> HIDE DEF at, key
    <2> QED
        BY <2>1, <2>2
<1>6. \A i \in 1..n : rows[i] = table[key[i]]
    BY <1>4
<1>7. rows = [i \in 1..n |-> rows[i]]
    BY <1>4
<1> HIDE DEF key, rows, at
<1>8. \A i \in 1..n : \E id \in S : rows[i] = table[id]
    BY <1>5, <1>6
<1>9. ASSUME NEW id \in S
      PROVE  \E i \in 1..n : rows[i] = table[id]
    <2> DEFINE i == Cardinality({k \in S : v[k] <= v[id]})
    <2>1. {k \in S : v[k] <= v[id]} \in SUBSET S /\ id \in {k \in S : v[k] <= v[id]}
        OBVIOUS
    <2>2. IsFiniteSet({k \in S : v[k] <= v[id]}) /\ i \in Nat /\ i <= n
        <3> HIDE DEF v
        <3> QED
            BY <2>1, <1>1, FS_Subset, FS_CardinalityType
    <2>3. i # 0
        <3> HIDE DEF v
        <3> QED
            BY <2>1, <2>2, FS_EmptySet
    <2>4. i \in 1..n /\ at(i, id)
        <3>1. at(i, id)
            <4>1. i = RankIn(S, v, id)
                BY DEF RankIn
            <4> HIDE DEF v, i
            <4> QED
                BY <4>1, <1>11
        <3> HIDE DEF i
        <3> QED
            BY <2>2, <2>3, <1>2, <3>1
    <2> HIDE DEF i
    <2>5. key[i] = id
        BY <2>4, <1>5
    <2> QED
        BY <2>4, <2>5, <1>6
<1>10. ASSUME NEW i \in 1..n, NEW j \in 1..n, i # j
       PROVE  rows[i].id # rows[j].id
    <2>1. rows[i].id = key[i] /\ rows[j].id = key[j] /\ key[i] \in S /\ key[j] \in S
        BY <1>1, <1>5, <1>6
    <2>2. key[i] # key[j]
        <3>1. at(i, key[i]) /\ at(j, key[j])
            BY <1>5
        <3> QED
            BY <3>1, <1>10, <1>12
    <2> QED
        BY <2>1, <2>2
<1> QED
    BY <1>2, <1>7, <1>8, <1>9, <1>10 DEF rows

\* A list loaded by id has every row of the table, each once.
LEMMA Loaded ==
    ASSUME NEW t \in Kinds, NEW table, CM!Repo!IsTable(t, table)
    PROVE  LET rows == CM!Repo!ById(table) IN
           CM!Repo!IsList(t, rows) /\ Below(t, table, rows) /\ Mirrors(table, rows)
<1> DEFINE rows == CM!Repo!ById(table)
           n == Cardinality(DOMAIN table)
<1>1. /\ \A k \in DOMAIN table : table[k]["id"] \in Int
      /\ \A k, l \in DOMAIN table : table[k]["id"] = table[l]["id"] => k = l
      /\ \A k \in DOMAIN table : CM!Repo!IsRow(t, table[k]) /\ table[k].id = k
    BY TableRow
<1>2. /\ n \in Nat /\ rows = [i \in 1..n |-> rows[i]]
      /\ \A i \in 1..n : \E id \in DOMAIN table : rows[i] = table[id]
      /\ \A id \in DOMAIN table : \E i \in 1..n : rows[i] = table[id]
      /\ \A i, j \in 1..n : i # j => rows[i].id # rows[j].id
    <2>1. rows = CM!Repo!OrderBy(table, "id")
        BY DEF CM!Repo!ById
    <2> QED
        BY <1>1, <2>1, Ordered
<1> HIDE DEF rows, n
<1>3. DOMAIN rows = 1..n
    BY <1>2
<1>4. CM!Repo!IsList(t, rows)
    BY <1>1, <1>2, ListMade
<1>5. Below(t, table, rows)
    BY <1>1, <1>2, <1>3 DEF Below, CM!Repo!Distinct, CM!Ids
<1>6. Mirrors(table, rows)
    <2>1. ASSUME NEW i \in 1..n
          PROVE  rows[i].id \in DOMAIN table /\ rows[i] = table[rows[i].id]
        <3>1. PICK k \in DOMAIN table : rows[i] = table[k]
            BY <1>2
        <3> QED
            BY <3>1, <1>1
    <2>2. ASSUME NEW k \in DOMAIN table
          PROVE  \E i \in 1..n : rows[i].id = k
        <3>1. PICK i \in 1..n : rows[i] = table[k]
            BY <1>2
        <3> QED
            BY <3>1, <1>1
    <2>3. CM!Ids(rows) = DOMAIN table
        BY <2>1, <2>2, <1>3 DEF CM!Ids
    <2> QED
        BY <2>1, <2>3, <1>3 DEF Mirrors
<1> QED
    BY <1>4, <1>5, <1>6 DEF rows

\* The replica lists rows the tables have, each once.
BelowAll(d, s) == \A t \in CM!Repo!Keyed : Below(t, d[t], s[t])
\* It lists all of them, as they are stored.
MirrorsAll(d, s) == (\A t \in CM!Repo!Keyed : Mirrors(d[t], s[t])) /\ Messaged(d, s)

\* Projects are loaded by their sort order.
LEMMA ProjectsInOrder ==
    ASSUME NEW table, CM!Repo!IsTable("projects", table),
           \A k \in DOMAIN table : table[k].order \in Int,
           \A k, l \in DOMAIN table : table[k].order = table[l].order => k = l
    PROVE  LET rows == CM!Repo!OrderBy(table, "order")
               n == Cardinality(DOMAIN table) IN
           /\ n \in Nat /\ rows = [i \in 1..n |-> rows[i]]
           /\ \A i \in 1..n : \E id \in DOMAIN table : rows[i] = table[id]
<1> DEFINE rows == CM!Repo!OrderBy(table, "order")
           n == Cardinality(DOMAIN table)
<1>1. "projects" \in Kinds
    BY DEF Kinds, Tables, CM!Repo!Tables
<1>2. /\ \A k \in DOMAIN table : table[k]["order"] \in Int
      /\ \A k, l \in DOMAIN table : table[k]["order"] = table[l]["order"] => k = l
    OBVIOUS
<1>3. /\ n \in Nat /\ rows = [i \in 1..n |-> rows[i]]
      /\ \A i \in 1..n : \E id \in DOMAIN table : rows[i] = table[id]
    BY <1>1, <1>2, Ordered
<1> QED
    BY <1>3

\* What loadTasks returns is a list of projects.
LEMMA LoadedTasks ==
    ASSUME NEW d, CM!Repo!IsDb(d)
    PROVE  CM!IsBoard(CM!Repo!loadTasks(d))
<1> DEFINE inOrder == CM!Repo!OrderBy(d.projects, "order")
           tasksOf(p) == CM!Repo!ById(CM!Repo!Restrict(d.tasks, {t \in DOMAIN d.tasks : d.tasks[t].project = p}))
           item(t) == [id |-> t.id, title |-> t.title]
           n == Cardinality(DOMAIN d.projects)
           board == [i \in DOMAIN inOrder |->
                      [dbid |-> inOrder[i].id, name |-> inOrder[i].name,
                       tasks |-> [k \in DOMAIN tasksOf(inOrder[i].id) |-> item(tasksOf(inOrder[i].id)[k])]]]
<1>1. CM!Repo!loadTasks(d) = board
    BY DEF CM!Repo!loadTasks
<1>2. /\ n \in Nat /\ inOrder = [i \in 1..n |-> inOrder[i]]
      /\ \A i \in 1..n : \E id \in DOMAIN d.projects : inOrder[i] = d.projects[id]
    BY DbFields, ProjectsInOrder
<1>3. \A p : CM!Repo!IsList("tasks", tasksOf(p))
    <2>1. ASSUME NEW p
          PROVE  CM!Repo!IsList("tasks", tasksOf(p))
        <3> DEFINE T == {t \in DOMAIN d.tasks : d.tasks[t].project = p}
        <3>1. T \in SUBSET DOMAIN d.tasks
            OBVIOUS
        <3> HIDE DEF T
        <3>2. CM!Repo!IsTable("tasks", CM!Repo!Restrict(d.tasks, T))
            BY <3>1, DbFields, TableWithout
        <3>3. CM!Repo!IsList("tasks", CM!Repo!ById(CM!Repo!Restrict(d.tasks, T)))
            BY <3>2, DbFields, Loaded
        <3> QED
            BY <3>3 DEF T
    <2> HIDE DEF tasksOf
    <2> QED
        BY <2>1
<1> HIDE DEF inOrder, tasksOf, n
<1>4. \A p : CM!Repo!IsList("items", [k \in DOMAIN tasksOf(p) |-> item(tasksOf(p)[k])])
    <2>1. ASSUME NEW p
          PROVE  CM!Repo!IsList("items", [k \in DOMAIN tasksOf(p) |-> item(tasksOf(p)[k])])
        <3> DEFINE rows == tasksOf(p)
                   items == [k \in DOMAIN rows |-> item(rows[k])]
        <3>1. Len(rows) \in Nat /\ DOMAIN rows = 1..Len(rows) /\ \A k \in DOMAIN rows : CM!Repo!IsRow("tasks", rows[k])
            BY <1>3, ListSeq
        <3>2. \A k \in DOMAIN rows : CM!Repo!IsRow("items", item(rows[k]))
            <4>1. \A k \in DOMAIN rows : rows[k].id \in Int
                BY <3>1, DbFields, RowId
            <4> QED
                BY <4>1, ProjectRow
        <3> HIDE DEF rows, item
        <3>3. items = [k \in 1..Len(rows) |-> items[k]] /\ \A k \in 1..Len(rows) : CM!Repo!IsRow("items", items[k])
            BY <3>1, <3>2
        <3> HIDE DEF items
        <3>4. CM!Repo!IsList("items", items)
            BY <3>1, <3>3, ListMade
        <3> QED
            BY <3>4 DEF items, rows
    <2> QED
        BY <2>1
<1>5. DOMAIN inOrder = 1..n
    BY <1>2
<1>6. ASSUME NEW i \in 1..n
      PROVE  IsProject(board[i])
    <2> DEFINE tasks == [k \in DOMAIN tasksOf(inOrder[i].id) |-> item(tasksOf(inOrder[i].id)[k])]
    <2>1. board[i] = [dbid |-> inOrder[i].id, name |-> inOrder[i].name, tasks |-> tasks]
        BY <1>5
    <2>2. PICK id \in DOMAIN d.projects : inOrder[i] = d.projects[id]
        BY <1>2
    <2>3. inOrder[i].id \in Nat
        <3>1. d.projects[id].id = id
            BY DbFields, TableRow
        <3> QED
            BY <2>2, <3>1, DbFields
    <2>4. CM!Repo!IsList("items", tasks)
        BY <1>4
    <2> HIDE DEF tasks, board
    <2> QED
        BY <2>1, <2>3, <2>4 DEF IsProject
<1>7. board = [i \in 1..n |-> board[i]]
    BY <1>5
<1> HIDE DEF board
<1>8. CM!IsBoard(board)
    BY <1>2, <1>6, <1>7, BoardMade
<1> QED
    BY <1>1, <1>8

\* LoadState promises all a cache has to.
LEMMA LoadedStore ==
    ASSUME NEW d, CM!Repo!IsDb(d)
    PROVE  LET s == CM!Repo!LoadState(d) IN CM!IsStore(s) /\ BelowAll(d, s) /\ MirrorsAll(d, s)
<1> DEFINE s == CM!Repo!LoadState(d)
<1>1. \A t \in CM!Repo!Keyed : s[t] = CM!Repo!ById(d[t])
    BY DEF CM!Repo!LoadState, CM!Repo!Keyed
<1>2. s.assistance = d.assistance /\ s.photos = d.photos /\ s.projects = CM!Repo!loadTasks(d)
    BY DEF CM!Repo!LoadState
<1>3. DOMAIN s = DOMAIN CM!seed
    BY DEF CM!Repo!LoadState, CM!seed
<1> HIDE DEF s
<1>4. \A t \in CM!Repo!Keyed : CM!Repo!IsList(t, s[t]) /\ Below(t, d[t], s[t]) /\ Mirrors(d[t], s[t])
    BY <1>1, DbParts, KeyedTables, Loaded
<1>5. CM!Repo!IsLog(s.assistance)
    BY <1>2 DEF CM!Repo!IsDb
<1>6. CM!IsBoard(s.projects)
    BY <1>2, LoadedTasks
<1>7. CM!IsStore(s)
    BY <1>3, <1>4, <1>5, <1>6 DEF CM!IsStore
<1>8. Messaged(d, s)
    BY <1>2 DEF Messaged
<1> QED
    BY <1>4, <1>7, <1>8 DEF BelowAll, MirrorsAll, s

\* A replica that could not load serves two roles, and nothing else.
LEMMA SeedStore ==
    ASSUME NEW d
    PROVE  CM!IsStore(CM!seed) /\ BelowAll(d, CM!seed) /\ CM!seed.contracts = << >>
<1> DEFINE s == CM!seed
           lead == [id |-> -1, data |-> "zone_lead"]
           auditor == [id |-> -2, data |-> "auditor"]
           roles == << lead, auditor >>
<1>1. /\ \A t \in CM!Repo!Keyed \ {"roles"} : s[t] = << >>
      /\ s.roles = roles /\ s.contracts = << >>
      /\ s.assistance = << >> /\ s.projects = << >>
    BY DEF CM!seed, CM!Repo!Keyed
<1>2. /\ DOMAIN roles = 1..2 /\ roles = [i \in 1..2 |-> roles[i]]
      /\ roles[1].id = -1 /\ roles[2].id = -2
    OBVIOUS
<1>3. CM!Repo!IsRow("roles", lead) /\ CM!Repo!IsRow("roles", auditor)
    <2>1. CM!Repo!IsRow("roles", lead)
        BY DEF CM!Repo!IsRow, CM!Repo!Columns
    <2>2. CM!Repo!IsRow("roles", auditor)
        BY DEF CM!Repo!IsRow, CM!Repo!Columns
    <2> QED
        BY <2>1, <2>2
<1>4. \A i \in 1..2 : CM!Repo!IsRow("roles", roles[i])
    <2>1. roles[1] = lead /\ roles[2] = auditor
        OBVIOUS
    <2> HIDE DEF roles, lead, auditor
    <2>2. \A i \in 1..2 : i = 1 \/ i = 2
        OBVIOUS
    <2> QED
        BY <1>3, <2>1, <2>2
<1> HIDE DEF s, roles, lead, auditor
<1>5. CM!Repo!IsList("roles", roles)
    BY <1>2, <1>4, ListMade DEF Kinds, Tables, CM!Repo!Tables, CM!Repo!Keyed
<1>6. CM!Repo!IsLog(<< >>)
    BY DEF CM!Repo!IsLog, CM!Repo!Range, Range
<1>7. \A x : x \notin CM!Range(<< >>) /\ x \notin CM!Repo!Range(<< >>)
    BY DEF CM!Range, CM!Repo!Range, Range
<1>8. \A t \in CM!Repo!Keyed : CM!Repo!IsList(t, s[t])
    <2>1. \A t \in CM!Repo!Keyed \ {"roles"} : CM!Repo!IsList(t, s[t])
        BY <1>1, <1>6, <1>7 DEF CM!Repo!IsList
    <2> QED
        BY <1>1, <1>5, <2>1
<1>9. CM!IsBoard(s.projects)
    BY <1>1, <1>6, <1>7 DEF CM!IsBoard
<1>10. CM!IsStore(s)
    BY <1>1, <1>6, <1>8, <1>9 DEF CM!IsStore, s
<1>11. \A t \in CM!Repo!Keyed \ {"roles"} : Below(t, d[t], s[t])
    BY <1>1 DEF Below, CM!Repo!Distinct, CM!Ids
<1>12. Below("roles", d.roles, s.roles)
    BY <1>1, <1>2 DEF Below, CM!Repo!Distinct, CM!Ids, Unstored, CM!SeedIds
<1>13. BelowAll(d, s)
    BY <1>11, <1>12 DEF BelowAll
<1> QED
    BY <1>1, <1>10, <1>13 DEF s

-----------------------------------------------------------------------------
(* Snapshots. *)

\* Rows under their keys.
Keyed(S) == [id \in {x.id : x \in S} |-> CHOOSE x \in S : x.id = id]

\* A sequence has finitely many elements.
LEMMA RangeFinite ==
    ASSUME NEW rows, NEW S, rows \in Seq(S)
    PROVE  IsFiniteSet(Range(rows))
<1>1. rows \in Surjection(1..Len(rows), Range(rows))
    BY DEF Surjection, Range
<1>2. IsFiniteSet(1..Len(rows))
    BY FS_Interval
<1> QED
    BY <1>1, <1>2, FS_Surjection

\* Projects and tasks are kinds of rows.
LEMMA TaskKind == "tasks" \in Kinds /\ "projects" \in Kinds
BY DEF Kinds, Tables, CM!Repo!Tables

\* A finite set of rows, under their ids, is a table.
LEMMA KeyedTable ==
    ASSUME NEW t \in Kinds, NEW S, IsFiniteSet(S), \A x \in S : CM!Repo!IsRow(t, x)
    PROVE  CM!Repo!IsTable(t, Keyed(S))
<1> DEFINE K == {x.id : x \in S}
           table == Keyed(S)
<1>1. IsFiniteSet(K)
    <2>1. PICK f : f = [x \in S |-> x.id]
        OBVIOUS
    <2>2. f \in Surjection(S, K)
        BY <2>1 DEF Surjection
    <2> HIDE DEF K
    <2> QED
        BY <2>2, FS_Surjection
<1>2. \A id \in K : table[id] \in S /\ table[id].id = id
    BY DEF Keyed
<1>3. table = [id \in K |-> table[id]]
    BY DEF Keyed
<1> HIDE DEF K, table
<1>4. CM!Repo!IsTable(t, table)
    BY <1>1, <1>2, <1>3, TableMade
<1> QED
    BY <1>4 DEF table

\* What SaveState writes from a list, and that the list mirrors it.
LEMMA SavedTable ==
    ASSUME NEW t \in Kinds, NEW rows, CM!Repo!IsList(t, rows)
    PROVE  LET table == CM!Repo!AsTable(rows) IN
           /\ CM!Repo!IsTable(t, table)
           /\ CM!Repo!Distinct(rows) => Below(t, table, rows) /\ Mirrors(table, rows)
<1> DEFINE S == Range(rows)
           table == CM!Repo!AsTable(rows)
<1>1. /\ rows \in Seq(S)
      /\ \A x \in S : CM!Repo!IsRow(t, x)
      /\ \A x : x \in S <=> \E i \in DOMAIN rows : rows[i] = x
      /\ CM!Repo!Range(rows) = S
    BY DEF CM!Repo!IsList, CM!Repo!IsLog, CM!Repo!Range, Range
<1>2. {rows[i].id : i \in DOMAIN rows} = {x.id : x \in S}
    BY <1>1
<1>3. table = Keyed(S)
    <2> HIDE DEF S
    <2> QED
        BY <1>1, <1>2 DEF Keyed, CM!Repo!AsTable
<1>4. CM!Repo!IsTable(t, table)
    <2>1. IsFiniteSet(S)
        BY <1>1, RangeFinite
    <2> HIDE DEF S, table
    <2> QED
        BY <1>1, <1>3, <2>1, KeyedTable
<1>5. \A i \in DOMAIN rows : rows[i].id \in DOMAIN table
    BY DEF CM!Repo!AsTable
<1>6. CM!Ids(rows) = DOMAIN table
    BY DEF CM!Repo!AsTable, CM!Ids
<1>7. ASSUME CM!Repo!Distinct(rows), NEW i \in DOMAIN rows
      PROVE  table[rows[i].id] = rows[i]
    <2>1. table[rows[i].id] = CHOOSE x \in S : x.id = rows[i].id
        BY <1>1 DEF CM!Repo!AsTable
    <2>2. rows[i] \in S /\ \A x \in S : x.id = rows[i].id => x = rows[i]
        BY <1>1, <1>7 DEF CM!Repo!Distinct
    <2> HIDE DEF table, S
    <2> QED
        BY <2>1, <2>2
<1> HIDE DEF table, S
<1>8. ASSUME CM!Repo!Distinct(rows)
      PROVE  Below(t, table, rows) /\ Mirrors(table, rows)
    <2>1. Below(t, table, rows)
        BY <1>5, <1>8 DEF Below, CM!Ids
    <2>2. \A i \in DOMAIN rows : Bare(rows[i]) = Bare(table[rows[i].id])
        BY <1>7, <1>8
    <2> QED
        BY <2>1, <2>2, <1>6 DEF Mirrors
<1> QED
    BY <1>4, <1>8 DEF table

\* The items of a board, and the projects that hold them.
Items(projects, dbid) ==
    UNION {{[id |-> t.id, project |-> dbid[i], title |-> t.title] : t \in Range(projects[i].tasks)} :
             i \in DOMAIN projects}

\* What it writes as tasks.
LEMMA ItemsTable ==
    ASSUME NEW projects, CM!IsBoard(projects), NEW dbid
    PROVE  CM!Repo!IsTable("tasks", Keyed(Items(projects, dbid)))
<1> DEFINE rowsOf(i) == {[id |-> t.id, project |-> dbid[i], title |-> t.title] : t \in Range(projects[i].tasks)}
           n == Len(projects)
           groups == {rowsOf(i) : i \in 1..n}
<1>1. n \in Nat /\ DOMAIN projects = 1..n
    BY BoardParts
<1>2. ASSUME NEW i \in 1..n
      PROVE  IsFiniteSet(rowsOf(i)) /\ \A x \in rowsOf(i) : CM!Repo!IsRow("tasks", x)
    <2> DEFINE S == Range(projects[i].tasks)
    <2>1. CM!Repo!IsList("items", projects[i].tasks)
        BY <1>1, BoardParts DEF IsProject
    <2>2. projects[i].tasks \in Seq(S) /\ \A t \in S : CM!Repo!IsRow("items", t)
        BY <2>1 DEF CM!Repo!IsList, CM!Repo!IsLog, CM!Repo!Range, Range
    <2>3. IsFiniteSet(S)
        BY <2>2, RangeFinite
    <2>4. rowsOf(i) = {[id |-> t.id, project |-> dbid[i], title |-> t.title] : t \in S}
        OBVIOUS
    <2>5. \A t \in S : t.id \in Int
        <3>1. "items" \in Kinds
            BY DEF Kinds
        <3> HIDE DEF S
        <3> QED
            BY <2>2, <3>1, RowId
    <2> HIDE DEF S, rowsOf
    <2>6. PICK f : f = [t \in S |-> [id |-> t.id, project |-> dbid[i], title |-> t.title]]
        OBVIOUS
    <2>7. f \in Surjection(S, rowsOf(i))
        BY <2>4, <2>6 DEF Surjection
    <2>8. IsFiniteSet(rowsOf(i))
        BY <2>3, <2>7, FS_Surjection
    <2>9. \A x \in rowsOf(i) : CM!Repo!IsRow("tasks", x)
        BY <2>4, <2>5, ProjectRow
    <2> QED
        BY <2>8, <2>9
<1>3. Items(projects, dbid) = UNION groups
    BY <1>1 DEF Items
<1> HIDE DEF rowsOf
<1>4. IsFiniteSet(groups)
    <2>1. PICK f : f = [i \in 1..n |-> rowsOf(i)]
        OBVIOUS
    <2>2. f \in Surjection(1..n, groups)
        BY <2>1 DEF Surjection
    <2>3. IsFiniteSet(1..n)
        BY <1>1, FS_Interval
    <2> HIDE DEF groups
    <2> QED
        BY <2>2, <2>3, FS_Surjection
<1>5. \A T \in groups : IsFiniteSet(T) /\ \A x \in T : CM!Repo!IsRow("tasks", x)
    BY <1>2
<1> HIDE DEF groups, n
<1>6. IsFiniteSet(UNION groups) /\ \A x \in UNION groups : CM!Repo!IsRow("tasks", x)
    BY <1>4, <1>5, FS_UNION
<1> QED
    BY <1>3, <1>6, TaskKind, KeyedTable

\* The table lists the projects of a board in order, under new surrogates.
ListsProjects(table, projects, serial) ==
    /\ table = [id \in DOMAIN table |-> table[id]]
    /\ DOMAIN table = {serial + i - 1 : i \in DOMAIN projects}
    /\ \A id \in DOMAIN table :
         table[id] = [id |-> id, order |-> id - serial, name |-> projects[id - serial + 1].name]

\* What it writes as projects, under new surrogates.
LEMMA ProjectsTable ==
    ASSUME NEW projects, CM!IsBoard(projects), NEW serial \in Nat \ {0}, NEW next, next = serial + Len(projects),
           NEW table, ListsProjects(table, projects, serial)
    PROVE  /\ CM!Repo!IsTable("projects", table) /\ next \in Nat \ {0}
           /\ \A p \in DOMAIN table : p \in 1..(next - 1) /\ table[p].order \in Int
           /\ \A p, q \in DOMAIN table : table[p].order = table[q].order => p = q
<1> DEFINE n == Len(projects)
           K == {serial + i - 1 : i \in DOMAIN projects}
<1>1. n \in Nat /\ DOMAIN projects = 1..n
    BY BoardParts
<1>2. K \in SUBSET (1..(next - 1)) /\ next - 1 \in Int
    BY <1>1
<1>3. IsFiniteSet(K)
    <2>1. IsFiniteSet(1..(next - 1))
        BY <1>2, FS_Interval
    <2> HIDE DEF K, n
    <2> QED
        BY <1>2, <2>1, FS_Subset
<1>4. DOMAIN table = K /\ \A id \in K : table[id] = [id |-> id, order |-> id - serial, name |-> projects[id - serial + 1].name]
    BY DEF ListsProjects
<1>5. table = [id \in K |-> table[id]]
    BY DEF ListsProjects
<1> HIDE DEF K, n
<1>6. \A id \in K : id \in Int /\ id - serial \in Int
    BY <1>1, <1>2
<1>7. \A id \in K : (CM!Repo!IsRow("projects", table[id]) /\ table[id].id = id) /\ table[id].order = id - serial
    <2>1. ASSUME NEW id \in K
          PROVE  CM!Repo!IsRow("projects", table[id]) /\ table[id].id = id /\ table[id].order = id - serial
        <3> DEFINE order == id - serial
                   name == projects[id - serial + 1].name
        <3>1. order \in Int /\ id \in Int
            BY <1>6
        <3>2. table[id] = [id |-> id, order |-> order, name |-> name]
            BY <1>4
        <3>3. table[id].id = id /\ table[id].order = order
            BY <3>2
        <3> HIDE DEF order, name
        <3>4. CM!Repo!IsRow("projects", table[id])
            BY <3>1, <3>2, ProjectRow
        <3> QED
            BY <3>3, <3>4 DEF order
    <2> QED
        BY <2>1
<1>8. CM!Repo!IsTable("projects", table)
    <2>1. \A id \in K : CM!Repo!IsRow("projects", table[id]) /\ table[id].id = id
        BY <1>7
    <2> QED
        BY <1>3, <1>5, <2>1, TableMade
<1>9. next \in Nat \ {0}
    BY <1>1
<1>10. \A p \in K : p \in 1..(next - 1) /\ table[p].order \in Int
    BY <1>2, <1>6, <1>7
<1>11. \A p, q \in K : table[p].order = table[q].order => p = q
    <2>1. \A p, q \in K : p - serial = q - serial => p = q
        BY <1>6
    <2> QED
        BY <1>7, <2>1
<1> QED
    BY <1>4, <1>8, <1>9, <1>10, <1>11 DEF n

\* What SaveState writes.
Snapshot(d, s) ==
    LET dbid(i) == d.serial + i - 1
        rowsOf(i) == {[id |-> t.id, project |-> dbid(i), title |-> t.title] : t \in CM!Repo!Range(s.projects[i].tasks)}
        items == UNION {rowsOf(i) : i \in DOMAIN s.projects}
    IN [zones |-> CM!Repo!AsTable(s.zones), contracts |-> CM!Repo!AsTable(s.contracts),
        engineers |-> CM!Repo!AsTable(s.engineers), users |-> CM!Repo!AsTable(s.users),
        milestones |-> CM!Repo!AsTable(s.milestones), materials |-> CM!Repo!AsTable(s.materials),
        roles |-> CM!Repo!AsTable(s.roles), audit |-> s.audit, assistance |-> s.assistance,
        photos |-> s.photos,
        projects |-> [id \in {dbid(i) : i \in DOMAIN s.projects} |->
                        [id |-> id, order |-> id - d.serial,
                         name |-> s.projects[id - d.serial + 1].name]],
        tasks |-> [id \in {t.id : t \in items} |-> CHOOSE t \in items : t.id = id],
        scan |-> IF s.scan = None THEN d.scan ELSE s.scan,
        serial |-> d.serial + Len(s.projects)]

\* The snapshot that SaveState writes.
LEMMA SnapshotFields ==
    ASSUME NEW d, NEW s
    PROVE  /\ DOMAIN Snapshot(d, s) = Tables \cup {"audit", "assistance", "photos", "scan", "serial"}
           /\ \A t \in CM!Repo!Keyed : Snapshot(d, s)[t] = CM!Repo!AsTable(s[t])
           /\ Snapshot(d, s).assistance = s.assistance /\ Snapshot(d, s).photos = s.photos
           /\ Snapshot(d, s).serial = d.serial + Len(s.projects)
<1>1. DOMAIN Snapshot(d, s) = Tables \cup {"audit", "assistance", "photos", "scan", "serial"}
    BY DEF Snapshot, Tables, CM!Repo!Tables, CM!Repo!Keyed
<1>2. \A t \in CM!Repo!Keyed : Snapshot(d, s)[t] = CM!Repo!AsTable(s[t])
    BY DEF Snapshot, CM!Repo!Keyed
<1>3. /\ Snapshot(d, s).assistance = s.assistance /\ Snapshot(d, s).photos = s.photos
      /\ Snapshot(d, s).serial = d.serial + Len(s.projects)
    BY DEF Snapshot
<1> QED
    BY <1>1, <1>2, <1>3

LEMMA SnapshotProjects ==
    ASSUME NEW d, NEW s, NEW table, table = Snapshot(d, s).projects
    PROVE  ListsProjects(table, s.projects, d.serial)
BY DEF Snapshot, ListsProjects

LEMMA SnapshotTasks ==
    ASSUME NEW d, NEW s
    PROVE  \E dbid : Snapshot(d, s).tasks = Keyed(Items(s.projects, dbid))
<1> DEFINE rowsOf(i) == {[id |-> t.id, project |-> d.serial + i - 1, title |-> t.title] : t \in CM!Repo!Range(s.projects[i].tasks)}
           items == UNION {rowsOf(i) : i \in DOMAIN s.projects}
           dbid == [i \in DOMAIN s.projects |-> d.serial + i - 1]
<1>1. Snapshot(d, s).tasks = [id \in {t.id : t \in items} |-> CHOOSE t \in items : t.id = id]
    BY DEF Snapshot
<1>2. \A i \in DOMAIN s.projects :
        rowsOf(i) = {[id |-> t.id, project |-> dbid[i], title |-> t.title] : t \in Range(s.projects[i].tasks)}
    BY DEF CM!Repo!Range, Range
<1>3. items = Items(s.projects, dbid)
    <2> HIDE DEF rowsOf, dbid
    <2> QED
        BY <1>2 DEF Items
<1> HIDE DEF items, dbid
<1>4. Snapshot(d, s).tasks = Keyed(Items(s.projects, dbid))
    BY <1>1, <1>3 DEF Keyed
<1> QED
    BY <1>4

\* It is a database.
LEMMA SnapshotDb ==
    ASSUME NEW d, CM!Repo!IsDb(d), NEW s, CM!IsStore(s)
    PROVE  CM!Repo!IsDb(Snapshot(d, s))
<1> DEFINE a == Snapshot(d, s)
<1>1. /\ DOMAIN a = Tables \cup {"audit", "assistance", "photos", "scan", "serial"}
      /\ \A t \in CM!Repo!Keyed : a[t] = CM!Repo!AsTable(s[t])
      /\ a.assistance = s.assistance
      /\ a.serial = d.serial + Len(s.projects)
    BY SnapshotFields
<1>2. PICK table : table = a.projects
    OBVIOUS
<1>3. CM!IsBoard(s.projects) /\ d.serial \in Nat \ {0}
    BY DbFields DEF CM!IsStore
<1>4. /\ CM!Repo!IsTable("projects", table) /\ a.serial \in Nat \ {0}
      /\ \A p \in DOMAIN table : p \in 1..(a.serial - 1) /\ table[p].order \in Int
      /\ \A p, q \in DOMAIN table : table[p].order = table[q].order => p = q
    <2>1. ListsProjects(table, s.projects, d.serial)
        BY <1>2, SnapshotProjects
    <2> HIDE DEF a
    <2> QED
        BY <1>1, <1>3, <2>1, ProjectsTable
<1>5. CM!Repo!IsTable("tasks", a.tasks)
    <2>1. PICK dbid : a.tasks = Keyed(Items(s.projects, dbid))
        BY SnapshotTasks
    <2> HIDE DEF a
    <2> QED
        BY <1>3, <2>1, ItemsTable
<1> HIDE DEF a
<1>6. \A t \in CM!Repo!Keyed : CM!Repo!IsTable(t, a[t])
    BY <1>1, StoreParts, KeyedTables, SavedTable
<1>7. CM!Repo!IsLog(a.assistance)
    BY <1>1 DEF CM!IsStore
<1>8. \A t \in CM!Repo!Tables : CM!Repo!IsTable(t, a[t])
    BY <1>2, <1>4, <1>5, <1>6 DEF CM!Repo!Tables
<1>9. CM!Repo!IsDb(a)
    BY <1>1, <1>2, <1>4, <1>7, <1>8 DEF CM!Repo!IsDb, CM!Repo!Numbered, Tables
<1> QED
    BY <1>9 DEF a

\* SaveState writes nothing, or the snapshot, which the store mirrors.
LEMMA SaveSound ==
    ASSUME NEW d, CM!Repo!IsDb(d), NEW s, CM!IsStore(s), NEW e \in CM!Repo!SaveState(d, s)
    PROVE  /\ CM!Repo!IsDb(e.db)
           /\ \/ e.db = d /\ e.err = "failed"
              \/ e.db = Snapshot(d, s) /\ BelowAll(e.db, s) /\ MirrorsAll(e.db, s)
<1> DEFINE after == Snapshot(d, s)
<1>1. CM!Repo!SaveState(d, s) = IF ~CM!Repo!Storable(s) THEN CM!Repo!Refused(d) ELSE CM!Repo!Ran(d, after)
    BY DEF CM!Repo!SaveState, Snapshot
<1>2. (e.db = d /\ e.err = "failed") \/ (e.db = after /\ CM!Repo!Storable(s))
    <2> HIDE DEF after
    <2> QED
        BY <1>1 DEF CM!Repo!Refused, CM!Repo!Ran, CM!Repo!Told
<1>3. CM!Repo!IsDb(after)
    BY SnapshotDb
<1>4. ASSUME CM!Repo!Storable(s)
      PROVE  BelowAll(after, s) /\ MirrorsAll(after, s)
    <2>2. /\ \A t \in CM!Repo!Keyed : after[t] = CM!Repo!AsTable(s[t])
          /\ after.assistance = s.assistance /\ after.photos = s.photos
        BY SnapshotFields
    <2> HIDE DEF after
    <2>3. \A t \in CM!Repo!Keyed : CM!Repo!Distinct(s[t])
        BY <1>4 DEF CM!Repo!Storable
    <2>4. \A t \in CM!Repo!Keyed : Below(t, after[t], s[t]) /\ Mirrors(after[t], s[t])
        BY <2>2, <2>3, StoreParts, KeyedTables, SavedTable
    <2>5. Messaged(after, s)
        BY <2>2 DEF Messaged
    <2> QED
        BY <2>4, <2>5 DEF BelowAll, MirrorsAll
<1> HIDE DEF after
<1> QED
    BY <1>2, <1>3, <1>4 DEF after

\* What of a store is saved as it is.
Alike(s, s2) == \A x \in DOMAIN CM!seed \ {"audit"} : s[x] = s2[x]

\* A list that is read while another replaces it is still a list.
LEMMA TornRows ==
    ASSUME NEW t \in Kinds, NEW copy, NEW now, CM!Repo!IsList(t, copy), CM!Repo!IsList(t, now),
           NEW rows \in CM!Torn(copy, now)
    PROVE  CM!Repo!IsList(t, rows)
<1>1. /\ Len(copy) \in Nat /\ DOMAIN copy = 1..Len(copy)
      /\ \A i \in DOMAIN copy : CM!Repo!IsRow(t, copy[i])
      /\ \A i \in DOMAIN now : CM!Repo!IsRow(t, now[i])
    BY ListSeq
<1>2. /\ rows = [i \in DOMAIN copy |-> rows[i]]
      /\ \A i \in DOMAIN copy : rows[i] = copy[i] \/ (i \in DOMAIN now /\ rows[i] = now[i])
    BY DEF CM!Torn
<1>3. \A i \in DOMAIN copy : CM!Repo!IsRow(t, rows[i])
    BY <1>1, <1>2
<1> QED
    BY <1>1, <1>2, <1>3, ListMade

\* So are the projects.
LEMMA TornBoard ==
    ASSUME NEW copy, NEW now, CM!IsBoard(copy), CM!IsBoard(now), NEW rows \in CM!Torn(copy, now)
    PROVE  CM!IsBoard(rows)
<1>1. /\ Len(copy) \in Nat /\ DOMAIN copy = 1..Len(copy)
      /\ \A i \in DOMAIN copy : IsProject(copy[i])
      /\ \A i \in DOMAIN now : IsProject(now[i])
    BY BoardParts
<1>2. /\ rows = [i \in DOMAIN copy |-> rows[i]]
      /\ \A i \in DOMAIN copy : rows[i] = copy[i] \/ (i \in DOMAIN now /\ rows[i] = now[i])
    BY DEF CM!Torn
<1>3. \A i \in DOMAIN copy : IsProject(rows[i])
    BY <1>1, <1>2
<1> QED
    BY <1>1, <1>2, <1>3, BoardMade

\* And a store with such lists a store; equal lists cannot be torn apart.
LEMMA TornStore ==
    ASSUME NEW copy, NEW now, CM!IsStore(copy), CM!IsStore(now), NEW shared, shared \subseteq Shared,
           NEW st \in CM!TornStores(copy, now, shared)
    PROVE  CM!IsStore(st) /\ (Alike(copy, now) => Alike(st, now))
<1> DEFINE moved == {t \in shared \ {"photos"} : copy[t] # now[t]}
           reads == {rows \in [moved -> UNION {CM!Torn(copy[t], now[t]) : t \in moved}] :
                       \A t \in moved : rows[t] \in CM!Torn(copy[t], now[t])}
           photos == {copy.photos} \cup (IF "photos" \in shared THEN {now.photos} ELSE {})
<1>1. PICK rows \in reads, map \in photos :
        st = [t \in DOMAIN copy |-> IF t \in moved THEN rows[t] ELSE IF t = "photos" THEN map ELSE copy[t]]
    <2>1. \E map \in photos :
             st \in {[t \in DOMAIN copy |-> IF t \in moved THEN rows[t] ELSE IF t = "photos" THEN map ELSE copy[t]] :
                     rows \in reads}
        BY Zenon DEF CM!TornStores
    <2> HIDE DEF moved, reads, photos
    <2> QED
        BY <2>1
<1>2. \A t \in moved : rows[t] \in CM!Torn(copy[t], now[t])
    OBVIOUS
<1>3. /\ moved \subseteq CM!Repo!Keyed \cup {"projects"} /\ \A t \in moved : copy[t] # now[t]
      /\ map \in {copy.photos, now.photos}
    BY DEF Shared, WorkspaceHalf, FrontendHalf, CM!Repo!Keyed
<1> HIDE DEF moved, reads, photos
<1>4. /\ \A t \in moved : t \in CM!Repo!Keyed => CM!Repo!IsList(t, rows[t])
      /\ "projects" \in moved => CM!IsBoard(rows["projects"])
    <2>1. \A t \in moved : t \in CM!Repo!Keyed => CM!Repo!IsList(t, rows[t])
        BY <1>2, <1>3, StoreParts, KeyedTables, TornRows
    <2>2. CM!IsBoard(copy["projects"]) /\ CM!IsBoard(now["projects"])
        BY DEF CM!IsStore
    <2> QED
        BY <1>2, <2>1, <2>2, TornBoard
<1>5. /\ DOMAIN st = DOMAIN copy
      /\ \A t \in DOMAIN copy : \/ t \in moved /\ st[t] = rows[t]
                                \/ t \notin moved /\ t = "photos" /\ st[t] = map
                                \/ t \notin moved /\ t # "photos" /\ st[t] = copy[t]
    BY <1>1
<1>6. /\ DOMAIN copy = CM!Repo!Keyed \cup {"audit", "assistance", "photos", "projects", "scan"}
      /\ \A t \in CM!Repo!Keyed : CM!Repo!IsList(t, copy[t])
    BY StoreParts
<1>7. \A t \in CM!Repo!Keyed : CM!Repo!IsList(t, st[t])
    <2>1. "photos" \notin CM!Repo!Keyed
        BY DEF CM!Repo!Keyed
    <2> QED
        BY <1>4, <1>5, <1>6, <2>1
<1>8. st.assistance = copy.assistance /\ CM!IsBoard(st.projects)
    <2>1. "assistance" \notin moved
        BY <1>3 DEF CM!Repo!Keyed
    <2>2. CM!IsBoard(copy.projects)
        BY DEF CM!IsStore
    <2> QED
        BY <1>4, <1>5, <1>6, <2>1, <2>2
<1>9. CM!IsStore(st)
    BY <1>5, <1>7, <1>8 DEF CM!IsStore
<1>10. ASSUME Alike(copy, now)
       PROVE  Alike(st, now)
    <2>1. moved = {} /\ map = now.photos
        BY <1>3, <1>10 DEF Alike, CM!Repo!Keyed, CM!seed
    <2>2. \A x \in DOMAIN CM!seed : st[x] = copy[x] \/ (x = "photos" /\ st[x] = now.photos)
        BY <2>1, <1>5 DEF CM!IsStore
    <2> QED
        BY <2>2, <1>10 DEF Alike
<1> QED
    BY <1>9, <1>10

\* What the bulk PUTs leave in the store.
LEMMA ReplacedWorkspace ==
    ASSUME NEW s, CM!IsStore(s), NEW ws \in Workspaces
    PROVE  /\ CM!IsStore(CM!ReplaceWorkspace(s, ws))
           /\ CM!ReplaceWorkspace(s, ws).contracts = ws.contracts
<1> DEFINE s2 == [s EXCEPT !.zones = ws.zones, !.contracts = ws.contracts,
                           !.engineers = ws.engineers, !.users = ws.users]
<1>1. DOMAIN s = CM!Repo!Keyed \cup {"audit", "assistance", "photos", "projects", "scan"}
      /\ \A t \in CM!Repo!Keyed : CM!Repo!IsList(t, s[t])
    BY StoreParts
<1>2. DOMAIN s2 = DOMAIN s /\ \A x \in DOMAIN s \ WorkspaceHalf : s2[x] = s[x]
    BY DEF WorkspaceHalf
<1>3. WorkspaceHalf \subseteq DOMAIN s
    BY <1>1 DEF WorkspaceHalf, CM!Repo!Keyed
<1>4. \A t \in WorkspaceHalf : s2[t] = ws[t]
    BY <1>3 DEF WorkspaceHalf
<1>5. CM!ReplaceWorkspace(s, ws) = CM!recalcZoneCounts(s2)
    BY DEF CM!ReplaceWorkspace
<1> HIDE DEF s2
<1>6. \A t \in CM!Repo!Keyed : CM!Repo!IsList(t, s2[t])
    BY <1>1, <1>2, <1>4, BodiesAssumption
<1>7. s2.assistance = s.assistance /\ s2.projects = s.projects
    BY <1>1, <1>2 DEF WorkspaceHalf
<1>8. CM!IsStore(s2)
    BY <1>2, <1>6, <1>7 DEF CM!IsStore
<1>9. s2.contracts = ws.contracts
    BY <1>4 DEF WorkspaceHalf
<1>10. "contracts" \in CM!Repo!Keyed
    BY DEF CM!Repo!Keyed
<1> QED
    BY <1>5, <1>8, <1>9, <1>10, RecountStore

LEMMA ReplacedFrontend ==
    ASSUME NEW s, CM!IsStore(s), NEW fe \in Frontends
    PROVE  /\ CM!IsStore(CM!ReplaceFrontend(s, fe))
           /\ CM!ReplaceFrontend(s, fe).contracts = s.contracts
<1> DEFINE board == [i \in DOMAIN fe.projects |->
                       [dbid |-> 0, name |-> fe.projects[i].name, tasks |-> fe.projects[i].tasks]]
           s2 == CM!ReplaceFrontend(s, fe)
           Given == FrontendHalf \cup {"projects", "assistance", "photos", "scan"}
<1>1. /\ DOMAIN s = CM!Repo!Keyed \cup {"audit", "assistance", "photos", "projects", "scan"}
      /\ \A t \in CM!Repo!Keyed : CM!Repo!IsList(t, s[t])
    BY StoreParts
<1>2. DOMAIN s2 = DOMAIN s /\ \A x \in DOMAIN s \ Given : s2[x] = s[x]
    BY DEF CM!ReplaceFrontend, FrontendHalf
<1>3. Given \subseteq DOMAIN s
    BY <1>1 DEF FrontendHalf, CM!Repo!Keyed
<1>4. \A t \in FrontendHalf : s2[t] = fe[t]
    BY <1>3 DEF FrontendHalf, CM!ReplaceFrontend
<1>5. s2.assistance = fe.assistance /\ s2.projects = board
    BY <1>3 DEF CM!ReplaceFrontend
<1> HIDE DEF s2
<1>6. \A t \in CM!Repo!Keyed : CM!Repo!IsList(t, s2[t])
    <2>1. \A t \in CM!Repo!Keyed : t \in FrontendHalf \/ t \notin Given
        BY DEF CM!Repo!Keyed, FrontendHalf
    <2>2. \A t \in FrontendHalf : CM!Repo!IsList(t, fe[t])
        BY BodiesAssumption
    <2> HIDE DEF Given
    <2> QED
        BY <1>1, <1>2, <1>4, <2>1, <2>2
<1>7. CM!IsBoard(board)
    <2> DEFINE n == Len(fe.projects)
    <2>1. /\ CM!Repo!IsLog(fe.projects) /\ \A p \in Range(fe.projects) : CM!Repo!IsList("items", p.tasks)
        BY BodiesAssumption
    <2>2. n \in Nat /\ DOMAIN fe.projects = 1..n
        BY <2>1 DEF CM!Repo!IsLog
    <2>3. \A i \in 1..n : CM!Repo!IsList("items", fe.projects[i].tasks)
        <3>1. \A i \in DOMAIN fe.projects : fe.projects[i] \in Range(fe.projects)
            BY DEF Range
        <3> QED
            BY <3>1, <2>1, <2>2
    <2>4. board = [i \in 1..n |-> board[i]]
        BY <2>2
    <2>5. \A i \in 1..n : IsProject(board[i])
        <3>1. ASSUME NEW i \in 1..n
              PROVE  IsProject(board[i])
            <4>1. board[i] = [dbid |-> 0, name |-> fe.projects[i].name, tasks |-> fe.projects[i].tasks]
                BY <2>2
            <4> HIDE DEF board
            <4> QED
                BY <4>1, <2>3 DEF IsProject
        <3> QED
            BY <3>1
    <2> HIDE DEF n, board
    <2> QED
        BY <2>2, <2>4, <2>5, BoardMade
<1>8. CM!Repo!IsLog(s2.assistance)
    BY <1>5, BodiesAssumption
<1>9. CM!IsStore(s2)
    BY <1>2, <1>5, <1>6, <1>7, <1>8 DEF CM!IsStore
<1>10. s2.contracts = s.contracts
    BY <1>1, <1>2 DEF FrontendHalf, CM!Repo!Keyed
<1> QED
    BY <1>9, <1>10 DEF s2

\* A creation that was answered 2xx put the last row of the list into the table.
Made(t, o) == o.err = "ok" => /\ Last(o.store[t]).id \in Int /\ Last(o.store[t]).id \in DOMAIN o.db[t]
                              /\ Last(o.store[t]).id \in CM!Ids(o.store[t])

\* The store changes when the statement was answered, and only then.
LEMMA AfterShape ==
    ASSUME NEW s, NEW stmts, NEW s2, NEW o \in CM!After(s, stmts, s2)
    PROVE  \E e \in stmts : /\ o.db = e.db
                            /\ \/ e.err = "ok" /\ o.err = "ok" /\ o.store = s2
                               \/ e.err # "ok" /\ o.err # "ok" /\ o.store = s
BY DEF CM!After, CM!wrapPersist

\* A creation that was answered leaves its row at the end of the list.
LEMMA GrownMade ==
    ASSUME NEW d, NEW s, CM!Repo!IsDb(d), CM!IsStore(s), NEW t \in CM!Repo!Keyed,
           NEW row, CM!Repo!IsRow(t, row), NEW s2, s2[t] = Append(s[t], row), NEW o,
           \/ o \in CM!After(s, CM!Repo!Insert(d, t, row), s2)
           \/ o \in CM!After(s, CM!Repo!Refused(d), s2)
    PROVE  Made(t, o)
<1>1. ASSUME o.err = "ok"
      PROVE  /\ Last(o.store[t]).id \in Int /\ Last(o.store[t]).id \in DOMAIN o.db[t]
             /\ Last(o.store[t]).id \in CM!Ids(o.store[t])
    <2>1. PICK e \in CM!Repo!Insert(d, t, row) \cup CM!Repo!Refused(d) :
            e.err = "ok" /\ o.db = e.db /\ o.store = s2
        BY <1>1, AfterShape
    <2> DEFINE table == CM!Repo!With(d[t], row.id, row)
    <2>2. o.db = [d EXCEPT ![t] = table]
        BY <2>1 DEF CM!Repo!Insert, CM!Repo!Refused, CM!Repo!Ran, CM!Repo!Told
    <2>3. row.id \in DOMAIN table
        BY DEF CM!Repo!With
    <2>4. t \in DOMAIN d /\ t \in Kinds /\ CM!Repo!IsList(t, s[t])
        BY DbParts, StoreParts, KeyedTables
    <2> HIDE DEF table
    <2>5. o.db[t] = table
        BY <2>2, <2>4
    <2>6. Len(s[t]) \in Nat /\ s[t] \in Seq(Range(s[t]))
        BY <2>4, ListSeq
    <2>7. DOMAIN Append(s[t], row) = 1..(Len(s[t]) + 1) /\ Append(s[t], row)[Len(s[t]) + 1] = row
        BY <2>4, ListAppend
    <2>8. Len(Append(s[t], row)) = Len(s[t]) + 1
        BY <2>6
    <2>9. Last(o.store[t]) = row
        BY <2>1, <2>7, <2>8 DEF Last
    <2>10. row.id \in CM!Ids(o.store[t])
        BY <2>1, <2>6, <2>7 DEF CM!Ids
    <2>11. row.id \in Int
        BY DEF CM!Repo!IsRow
    <2> QED
        BY <2>3, <2>5, <2>9, <2>10, <2>11
<1> QED
    BY <1>1 DEF Made

LEMMA EndsMade ==
    ASSUME NEW d, NEW s, NEW t, NEW e, e # "ok", NEW o \in CM!Ends(d, s, e)
    PROVE  Made(t, o)
BY DEF CM!Ends, Made

LEMMA CreateZoneMade ==
    ASSUME NEW d, NEW s, CM!Repo!IsDb(d), CM!IsStore(s), NEW code \in Int, NEW name,
           NEW o \in CM!CreateZone(d, s, code, name)
    PROVE  Made("zones", o)
<1> DEFINE t == "zones"
           z == [id |-> code, name |-> name, count |-> 0]
           s2 == [s EXCEPT ![t] = Append(s[t], z)]
<1>0. t \in CM!Repo!Keyed /\ CM!Repo!IsRow(t, z)
    BY DEF CM!Repo!Keyed, CM!Repo!IsRow, CM!Repo!Columns
<1>1. CASE CM!Find(s.zones, code) # 0
    BY <1>1, EndsMade DEF CM!CreateZone
<1>2. CASE CM!Find(s.zones, code) = 0
    <2>1. [z EXCEPT !.count = 0] = z
        OBVIOUS
    <2>2. o \in CM!After(s, CM!Repo!Insert(d, t, z), s2)
        BY <1>2, <2>1 DEF CM!CreateZone, CM!Grown, CM!Repo!InsertZone
    <2>3. s2[t] = Append(s[t], z)
        BY <1>0, StoreParts
    <2> HIDE DEF t, z, s2
    <2>4. Made(t, o)
        BY <2>2, <2>3, <1>0, GrownMade
    <2> QED
        BY <2>4 DEF t
<1> QED
    BY <1>1, <1>2

LEMMA CreateUserMade ==
    ASSUME NEW d, NEW s, CM!Repo!IsDb(d), CM!IsStore(s), NEW email, NEW role,
           NEW o \in CM!CreateUser(d, s, email, role)
    PROVE  Made("users", o)
<1> DEFINE t == "users"
           u == [id |-> CM!NextId(s.users), email |-> email, name |-> "given", status |-> "active", role |-> role]
           stmts == CM!Repo!InsertWorkspaceUser(d, u)
           s2 == [s EXCEPT ![t] = Append(s[t], u)]
<1>0. t \in CM!Repo!Keyed /\ CM!Repo!IsRow(t, u)
    <2>1. CM!NextId(s.users) \in Int
        BY NextIdInt DEF CM!Repo!Keyed
    <2> QED
        BY <2>1 DEF CM!Repo!Keyed, CM!Repo!IsRow, CM!Repo!Columns
<1>1. CASE \E v \in CM!Range(s.users) : v.email = email
    BY <1>1, EndsMade DEF CM!CreateUser
<1>2. CASE ~ \E v \in CM!Range(s.users) : v.email = email
    <2>1. o \in CM!After(s, stmts, s2)
        BY <1>2 DEF CM!CreateUser, CM!Grown
    <2>2. stmts = CM!Repo!Refused(d) \/ stmts = CM!Repo!Insert(d, t, u)
        BY DEF CM!Repo!InsertWorkspaceUser
    <2>3. s2[t] = Append(s[t], u)
        BY <1>0, StoreParts
    <2> HIDE DEF t, u, stmts, s2
    <2>4. Made(t, o)
        BY <2>1, <2>2, <2>3, <1>0, GrownMade
    <2> QED
        BY <2>4 DEF t
<1> QED
    BY <1>1, <1>2

LEMMA CreateContractMade ==
    ASSUME NEW d, NEW s, CM!Repo!IsDb(d), CM!IsStore(s),
           NEW no \in Int, NEW z, NEW sup, NEW st, NEW rep, NEW o,
           o \in CM!CreateContract(d, s, [id |-> no, zone |-> z, sup |-> sup, status |-> st, report |-> rep])
    PROVE  Made("contracts", o)
<1> DEFINE t == "contracts"
           c == [id |-> no, zone |-> z, sup |-> sup, status |-> CM!defaultStatus(st), report |-> rep]
           s1 == [s EXCEPT ![t] = Append(s[t], c)]
           s2 == CM!recalcZoneCounts(s1)
           stmts == CM!Repo!InsertContract(d, c)
<1>0. t \in CM!Repo!Keyed /\ CM!Repo!IsRow(t, c)
    BY ContractRow
<1>1. o \in CM!insertContract(d, s, c)
    <2>1. [[id |-> no, zone |-> z, sup |-> sup, status |-> st, report |-> rep]
             EXCEPT !.status = CM!defaultStatus(@)] = c
        OBVIOUS
    <2> QED
        BY <2>1 DEF CM!CreateContract
<1>2. CASE CM!Find(s.contracts, no) # 0
    BY <1>1, <1>2, EndsMade DEF CM!insertContract
<1>3. CASE CM!Find(s.contracts, no) = 0
    <2>1. o \in CM!After(s, stmts, s2)
        BY <1>1, <1>3 DEF CM!insertContract
    <2>2. stmts = CM!Repo!Refused(d) \/ stmts = CM!Repo!Insert(d, t, c)
        BY DEF CM!Repo!InsertContract
    <2>3. s2[t] = Append(s[t], c)
        <3>1. s1[t] = Append(s[t], c)
            BY <1>0, StoreParts
        <3>2. s2[t] = s1[t]
            <4>1. "contracts" \in DOMAIN s /\ "zones" \in DOMAIN s /\ DOMAIN s1 = DOMAIN s
                BY StoreParts DEF CM!Repo!Keyed
            <4> HIDE DEF s1, c
            <4> QED
                BY <4>1 DEF CM!recalcZoneCounts
        <3> QED
            BY <3>1, <3>2
    <2> HIDE DEF c, t, stmts, s1, s2
    <2>4. Made(t, o)
        BY <2>1, <2>2, <2>3, <1>0, GrownMade
    <2> QED
        BY <2>4 DEF t
<1> QED
    BY <1>2, <1>3

LEMMA CreateEngineerMade ==
    ASSUME NEW d, NEW s, CM!Repo!IsDb(d), CM!IsStore(s), NEW data, NEW o \in CM!CreateEngineer(d, s, data)
    PROVE  Made("engineers", o)
<1> DEFINE t == "engineers"
           row == [id |-> CM!NextId(s[t]), data |-> data]
           s2 == [s EXCEPT ![t] = Append(s[t], row)]
<1>0. t \in Plain /\ t \in CM!Repo!Keyed
    BY PlainRow DEF Plain
<1>1. CM!Repo!IsRow(t, row)
    BY <1>0, PlainRow, NextIdInt
<1>2. o \in CM!After(s, CM!Repo!Insert(d, t, row), s2)
    BY DEF CM!CreateEngineer, CM!Grown, CM!Repo!InsertEngineer
<1>3. s2[t] = Append(s[t], row)
    BY <1>0, StoreParts
<1> HIDE DEF row, t, s2
<1>4. Made(t, o)
    BY <1>0, <1>1, <1>2, <1>3, GrownMade
<1> QED
    BY <1>4 DEF t

LEMMA CreateMilestoneMade ==
    ASSUME NEW d, NEW s, CM!Repo!IsDb(d), CM!IsStore(s), NEW data, NEW o \in CM!CreateMilestone(d, s, data)
    PROVE  Made("milestones", o)
<1> DEFINE t == "milestones"
           row == [id |-> CM!NextId(s[t]), data |-> data]
           s2 == [s EXCEPT ![t] = Append(s[t], row)]
<1>0. t \in Plain /\ t \in CM!Repo!Keyed
    BY PlainRow DEF Plain
<1>1. CM!Repo!IsRow(t, row)
    BY <1>0, PlainRow, NextIdInt
<1>2. o \in CM!After(s, CM!Repo!Insert(d, t, row), s2)
    BY DEF CM!CreateMilestone, CM!Grown, CM!Repo!InsertMilestone
<1>3. s2[t] = Append(s[t], row)
    BY <1>0, StoreParts
<1> HIDE DEF row, t, s2
<1>4. Made(t, o)
    BY <1>0, <1>1, <1>2, <1>3, GrownMade
<1> QED
    BY <1>4 DEF t

LEMMA CreateMaterialMade ==
    ASSUME NEW d, NEW s, CM!Repo!IsDb(d), CM!IsStore(s), NEW data, NEW o \in CM!CreateMaterial(d, s, data)
    PROVE  Made("materials", o)
<1> DEFINE t == "materials"
           row == [id |-> CM!NextId(s[t]), data |-> data]
           s2 == [s EXCEPT ![t] = Append(s[t], row)]
<1>0. t \in Plain /\ t \in CM!Repo!Keyed
    BY PlainRow DEF Plain
<1>1. CM!Repo!IsRow(t, row)
    BY <1>0, PlainRow, NextIdInt
<1>2. o \in CM!After(s, CM!Repo!Insert(d, t, row), s2)
    BY DEF CM!CreateMaterial, CM!Grown, CM!Repo!InsertMaterial
<1>3. s2[t] = Append(s[t], row)
    BY <1>0, StoreParts
<1> HIDE DEF row, t, s2
<1>4. Made(t, o)
    BY <1>0, <1>1, <1>2, <1>3, GrownMade
<1> QED
    BY <1>4 DEF t

LEMMA CreateRoleMade ==
    ASSUME NEW d, NEW s, CM!Repo!IsDb(d), CM!IsStore(s), NEW data, NEW o \in CM!CreateRole(d, s, data)
    PROVE  Made("roles", o)
<1> DEFINE t == "roles"
           row == [id |-> CM!NextId(s[t]), data |-> data]
           s2 == [s EXCEPT ![t] = Append(s[t], row)]
<1>0. t \in Plain /\ t \in CM!Repo!Keyed
    BY PlainRow DEF Plain
<1>1. CM!Repo!IsRow(t, row)
    BY <1>0, PlainRow, NextIdInt
<1>2. o \in CM!After(s, CM!Repo!Insert(d, t, row), s2)
    BY DEF CM!CreateRole, CM!Grown, CM!Repo!InsertCustomRole
<1>3. s2[t] = Append(s[t], row)
    BY <1>0, StoreParts
<1> HIDE DEF row, t, s2
<1>4. Made(t, o)
    BY <1>0, <1>1, <1>2, <1>3, GrownMade
<1> QED
    BY <1>4 DEF t

-----------------------------------------------------------------------------
(* The inductive invariant.  A replica that nothing upset lists rows the   *)
(* tables have, each once, and all of them unless it failed to load; a     *)
(* save that nothing overlapped holds what the replica still serves.       *)

\* Why a cache may differ from the tables.
Reasons == {"foreign", "lost", "ahead", "overlap", "load", "dropped", "bulk", "late"}
\* What a consumer may be told of a contract.
Told == Statuses \cup {"Planning", None, "gone"}

\* What a handler carries at each of its steps.
JobOK(j) ==
    \/ j = Idle
    \/ j.at = "patch" /\ j.replica \in Replicas /\ j.patch \in Patches
    \/ j.at = "drop" /\ j.replica \in Replicas
    \/ /\ j.at \in {"count", "publish"} /\ j.replica \in Replicas /\ j.tell \in Told
       /\ DOMAIN j = {"at", "replica", "no", "zones", "tell"}
    \/ /\ j.at = "save" /\ j.replica \in Replicas
       /\ CM!IsStore(j.copy) /\ j.shared \subseteq Shared
       /\ DOMAIN j = {"at", "replica", "copy", "of", "shared"}
    \/ j.at \in {"record", "ring", "seed"} /\ j.replica \in Replicas

\* What every replica serves.
Served == \A r \in Replicas :
    Covered(r) => BelowAll(db, cache[r]) /\ ("load" \notin upset[r] => MirrorsAll(db, cache[r]))
\* What the saves under way hold.
SavesKept == \A h \in Handlers :
    job[h].at = "save" /\ "overlap" \notin upset[job[h].replica] => Alike(job[h].copy, cache[job[h].replica])

\* A replica that seeds the tables has no save under way.
Starting == \A h, g \in Handlers :
    job[h].at = "seed" /\ job[g].at = "save" => job[g].replica # job[h].replica

\* The inductive invariant, and what it needs of the variables of the histories.
Core ==
    /\ CM!Repo!IsDb(db)
    /\ cache = [r \in Replicas |-> cache[r]] /\ \A r \in Replicas : CM!IsStore(cache[r])
    /\ upset = [r \in Replicas |-> upset[r]] /\ \A r \in Replicas : upset[r] \subseteq Reasons
    /\ job = [h \in Handlers |-> job[h]] /\ \A h \in Handlers : JobOK(job[h])
    /\ Served /\ SavesKept /\ Starting

Bookkept ==
    /\ acked \subseteq Tables \X Int /\ unsaved \subseteq Tables \X Int
    /\ said \in [ContractNos -> Statuses \cup {"Planning", None}] /\ ops \in 0..MaxOps

\* Outcomes that keep it: sound ones, and those of a request that excuses itself.
CommitOK(d, s, o, excuse) ==
    /\ CM!Repo!IsDb(o.db) /\ CM!IsStore(o.store)
    /\ o.err # "lost" /\ "ahead" \notin excuse => Good(d, s, o.db, o.store)
    /\ excuse \subseteq {"ahead", "dropped"}

\* No save and no start begins, and handlers carry what they should.
JobsGoOn ==
    /\ job' = [h \in Handlers |-> job'[h]]
    /\ \A h \in Handlers :
         /\ JobOK(job'[h]) /\ (job[h].at = "save" \/ job'[h].at = "save" => job'[h] = job[h])
         /\ job'[h].at = "seed" => job'[h] = job[h]

\* A handler at rest.
LEMMA IdleAt == Idle.at = "idle"
BY DEF Idle

\* What a replica served, it serves after a good change.
LEMMA GoodServed ==
    ASSUME NEW d, NEW s, NEW d2, NEW s2, Good(d, s, d2, s2), BelowAll(d, s)
    PROVE  BelowAll(d2, s2) /\ (MirrorsAll(d, s) => MirrorsAll(d2, s2))
BY DEF Good, Follows, BelowAll, MirrorsAll

\* Then no save begins on a replica that starts.
LEMMA StartingKept ==
    ASSUME Starting, JobsGoOn
    PROVE  Starting'
BY DEF Starting, JobsGoOn

\* The write of one replica.
LEMMA CommitStep ==
    ASSUME Core, NEW r \in Replicas, NEW o, NEW excuse,
           CommitOK(db, cache[r], o, excuse), Commit(r, o, excuse), JobsGoOn
    PROVE  Core'
<1>1. /\ db' = o.db
      /\ cache' = [cache EXCEPT ![r] = o.store]
      /\ upset' = Disturbed(r, o, excuse)
    BY DEF Commit
<1>2. /\ cache' = [q \in Replicas |-> cache'[q]] /\ cache'[r] = o.store
      /\ \A q \in Replicas : q # r => cache'[q] = cache[q]
    BY <1>1 DEF Core
<1>3. /\ upset' = [q \in Replicas |-> upset'[q]]
      /\ \A q \in Replicas : q # r => upset'[q] = upset[q] \cup (IF o.db # db THEN {"foreign"} ELSE {})
      /\ upset'[r] = upset[r] \cup (excuse \cup (IF o.err = "lost" THEN {"lost"} ELSE {})
                                \cup (IF <<o.db, o.store>> # <<db, cache[r]>> /\ Saving(r) THEN {"overlap"} ELSE {}))
    BY <1>1 DEF Disturbed
<1>4. CM!Repo!IsDb(db')
    BY <1>1 DEF CommitOK
<1>5. \A q \in Replicas : CM!IsStore(cache'[q])
    BY <1>2 DEF CommitOK, Core
<1>6. \A q \in Replicas : upset'[q] \subseteq Reasons
    BY <1>3 DEF CommitOK, Core, Reasons
<1>7. \A q \in Replicas : Saving(q)' <=> Saving(q)
    BY DEF JobsGoOn, Saving
<1>8. Served'
    <2>1. ASSUME NEW q \in Replicas, Covered(q)'
          PROVE  BelowAll(db, cache[q])' /\ ("load" \notin upset'[q] => MirrorsAll(db, cache[q])')
        <3>1. upset'[q] \cap {"foreign", "lost", "ahead", "overlap"} = {} /\ ~Saving(q)
            BY <2>1, <1>7 DEF Covered
        <3>2. upset[q] \subseteq upset'[q]
            BY <1>3
        <3>3. BelowAll(db, cache[q]) /\ ("load" \notin upset[q] => MirrorsAll(db, cache[q]))
            BY <3>1, <3>2 DEF Core, Served, Covered
        <3>4. CASE q # r
            <4>1. db' = db /\ cache'[q] = cache[q]
                BY <3>1, <3>4, <1>1, <1>2, <1>3
            <4> QED
                BY <3>2, <3>3, <4>1 DEF BelowAll, MirrorsAll, Messaged
        <3>5. CASE q = r
            <4>1. o.err # "lost" /\ "ahead" \notin excuse
                BY <3>1, <3>5, <1>3
            <4>2. Good(db, cache[r], o.db, o.store)
                BY <4>1 DEF CommitOK
            <4>3. BelowAll(o.db, o.store) /\ ("load" \notin upset[q] => MirrorsAll(o.db, o.store))
                BY <4>2, <3>3, <3>5, GoodServed
            <4>4. db' = o.db /\ cache'[q] = o.store
                BY <3>5, <1>1, <1>2
            <4> QED
                BY <3>2, <4>3, <4>4 DEF BelowAll, MirrorsAll, Messaged
        <3> QED
            BY <3>4, <3>5
    <2> QED
        BY <2>1 DEF Served
<1>9. SavesKept'
    <2>1. ASSUME NEW h \in Handlers, job'[h].at = "save", "overlap" \notin upset'[job'[h].replica]
          PROVE  Alike(job[h].copy, cache[job[h].replica])'
        <3> DEFINE q == job[h].replica
        <3>1. job'[h] = job[h]
            BY <2>1 DEF JobsGoOn
        <3>2. q \in Replicas
            BY <2>1, <3>1, IdleAt DEF Core, JobOK
        <3>3. "overlap" \notin upset[q]
            BY <2>1, <3>1, <3>2, <1>3
        <3>4. Alike(job[h].copy, cache[q])
            BY <2>1, <3>1, <3>3 DEF Core, SavesKept
        <3>5. cache'[q] = cache[q]
            <4>1. CASE q = r
                <5>1. Saving(r)
                    BY <2>1, <3>1, <4>1 DEF Saving
                <5>2. <<o.db, o.store>> = <<db, cache[r]>>
                    BY <2>1, <3>1, <4>1, <5>1, <1>3
                <5> QED
                    BY <4>1, <5>2, <1>2
            <4> QED
                BY <3>2, <4>1, <1>2
        <3> QED
            BY <3>1, <3>4, <3>5 DEF Alike
    <2> QED
        BY <2>1 DEF SavesKept
<1> QED
    BY <1>2, <1>3, <1>4, <1>5, <1>6, <1>8, <1>9, StartingKept DEF Core, JobsGoOn

\* A step that writes nothing.
LEMMA QuietStep ==
    ASSUME Core, UNCHANGED <<db, cache, upset>>, JobsGoOn
    PROVE  Core'
<1>1. \A q \in Replicas : Saving(q)' <=> Saving(q)
    BY DEF JobsGoOn, Saving
<1>2. \A q \in Replicas : Covered(q)' <=> Covered(q)
    BY <1>1 DEF Covered
<1>3. Served'
    <2>1. \A q \in Replicas : Covered(q)' => BelowAll(db, cache[q]) /\ ("load" \notin upset'[q] => MirrorsAll(db, cache[q]))
        BY <1>2 DEF Core, Served
    <2> QED
        BY <2>1 DEF Served, BelowAll, MirrorsAll, Messaged
<1>4. SavesKept'
    <2>1. ASSUME NEW h \in Handlers, job'[h].at = "save", "overlap" \notin upset'[job'[h].replica]
          PROVE  Alike(job[h].copy, cache[job[h].replica])'
        <3>1. job'[h] = job[h]
            BY <2>1 DEF JobsGoOn
        <3>2. Alike(job[h].copy, cache[job[h].replica])
            BY <2>1, <3>1 DEF Core, SavesKept
        <3> QED
            BY <3>1, <3>2 DEF Alike
    <2> QED
        BY <2>1 DEF SavesKept
<1> QED
    BY <1>3, <1>4, StartingKept DEF Core, JobsGoOn

\* A request that was answered in one step.
Did(r, o, excuse) ==
    /\ Commit(r, o, excuse) /\ Begin
    /\ UNCHANGED <<job, spilled, miscounted, raced, said>>

\* Sound outcomes keep the invariant, and good ones do.
LEMMA SoundOK ==
    ASSUME NEW d, NEW s, NEW o, Sound(d, s, o)
    PROVE  CommitOK(d, s, o, {})
BY DEF Sound, CommitOK

LEMMA GoodOK ==
    ASSUME NEW d, NEW s, NEW o, Good(d, s, o.db, o.store), NEW excuse \in SUBSET {"ahead", "dropped"}
    PROVE  CommitOK(d, s, o, excuse)
BY DEF Good, CommitOK

\* No handler moved.
LEMMA JobsSame ==
    ASSUME Core, UNCHANGED job
    PROVE  JobsGoOn
BY DEF Core, JobsGoOn

\* A request that is one step keeps it.
LEMMA OneStep ==
    ASSUME Core, Bookkept, NEW r \in Replicas, NEW o, NEW excuse,
           CommitOK(db, cache[r], o, excuse), Did(r, o, excuse),
           acked' \subseteq Tables \X Int, unsaved' \subseteq Tables \X Int
    PROVE  Core' /\ Bookkept'
<1>1. Commit(r, o, excuse) /\ job' = job /\ said' = said
    BY DEF Did
<1>2. Core'
    BY <1>1, JobsSame, CommitStep
<1>3. ops' \in 0..MaxOps
    BY ServiceAssumption DEF Did, Begin, Bookkept
<1> QED
    BY <1>1, <1>2, <1>3 DEF Bookkept

\* So do requests that create, change and destroy a row.
LEMMA CreateStep ==
    ASSUME Core, Bookkept, NEW r \in Replicas, NEW t \in Tables, NEW outcomes,
           \A o \in outcomes : Sound(db, cache[r], o) /\ Made(t, o), Create(r, t, outcomes)
    PROVE  Core' /\ Bookkept'
<1>1. PICK o \in outcomes : Did(r, o, {}) /\ acked' = Adds(t, o) /\ unsaved' = unsaved
    BY DEF Create, Request, Did, NoExcuse
<1>2. acked' \subseteq Tables \X Int
    BY <1>1 DEF Adds, Made, Bookkept
<1>3. unsaved' \subseteq Tables \X Int
    BY <1>1 DEF Bookkept
<1> QED
    BY <1>1, <1>2, <1>3, SoundOK, OneStep

LEMMA ChangeStep ==
    ASSUME Core, Bookkept, NEW r \in Replicas, NEW outcomes,
           \A o \in outcomes : CommitOK(db, cache[r], o, {}), Change(r, outcomes)
    PROVE  Core' /\ Bookkept'
<1>1. PICK o \in outcomes : Did(r, o, {}) /\ acked' = acked /\ unsaved' = unsaved
    BY DEF Change, Request, Did, NoExcuse, Keeps
<1>2. acked' \subseteq Tables \X Int /\ unsaved' \subseteq Tables \X Int
    BY <1>1 DEF Bookkept
<1> QED
    BY <1>1, <1>2, OneStep

LEMMA DestroyStep ==
    ASSUME Core, Bookkept, NEW r \in Replicas, NEW t, NEW id, NEW outcomes,
           \A o \in outcomes : CommitOK(db, cache[r], o, {}), Destroy(r, t, id, outcomes)
    PROVE  Core' /\ Bookkept'
<1>1. PICK o \in outcomes : Did(r, o, {}) /\ acked' = Drops(t, id, o) /\ unsaved' = unsaved
    BY DEF Destroy, Request, Did, NoExcuse
<1>2. acked' \subseteq Tables \X Int /\ unsaved' \subseteq Tables \X Int
    BY <1>1 DEF Drops, Bookkept
<1> QED
    BY <1>1, <1>2, OneStep

\* What a request may take for granted of the database and a store.
LEMMA CoreParts ==
    ASSUME Core, NEW r \in Replicas
    PROVE  CM!Repo!IsDb(db) /\ CM!IsStore(cache[r])
BY DEF Core

\* The requests, one group after another.
LEMMA ZoneStep ==
    ASSUME Core, Bookkept, NEW r \in Replicas, ZoneRequests(r)
    PROVE  Core' /\ Bookkept'
<1>1. CM!Repo!IsDb(db) /\ CM!IsStore(cache[r])
    BY CoreParts
<1>2. CASE \E z \in ZoneCodes, n \in Data : Create(r, "zones", CM!CreateZone(db, cache[r], z, n))
    <2>1. PICK z \in ZoneCodes, n \in Data : Create(r, "zones", CM!CreateZone(db, cache[r], z, n))
        BY <1>2
    <2>2. \A o \in CM!CreateZone(db, cache[r], z, n) : Sound(db, cache[r], o) /\ Made("zones", o)
        BY <1>1, CreateZoneSound, CreateZoneMade, ServiceAssumption
    <2>3. "zones" \in Tables
        BY KeyedTables DEF CM!Repo!Keyed
    <2> QED
        BY <2>1, <2>2, <2>3, CreateStep
<1>3. CASE \E z \in ZoneCodes, n \in Data :
             /\ Request(r, CM!PatchZone(db, cache[r], z, n),
                        LAMBDA o : IF o.err = "ok" THEN {} ELSE {"ahead"}, Keeps)
             /\ UNCHANGED unsaved
    <2>1. PICK z \in ZoneCodes, n \in Data :
             /\ Request(r, CM!PatchZone(db, cache[r], z, n),
                        LAMBDA o : IF o.err = "ok" THEN {} ELSE {"ahead"}, Keeps)
             /\ UNCHANGED unsaved
        BY <1>3
    <2>2. PICK o \in CM!PatchZone(db, cache[r], z, n) :
             Did(r, o, IF o.err = "ok" THEN {} ELSE {"ahead"}) /\ acked' = acked /\ unsaved' = unsaved
        BY <2>1 DEF Request, Did, Keeps
    <2>3. CommitOK(db, cache[r], o, IF o.err = "ok" THEN {} ELSE {"ahead"})
        BY <1>1, PatchZoneSound DEF CommitOK
    <2>4. acked' \subseteq Tables \X Int /\ unsaved' \subseteq Tables \X Int
        BY <2>2 DEF Bookkept
    <2> QED
        BY <2>2, <2>3, <2>4, OneStep
<1>4. CASE \E z \in ZoneCodes : Destroy(r, "zones", z, CM!DeleteZone(db, cache[r], z))
    <2>1. PICK z \in ZoneCodes : Destroy(r, "zones", z, CM!DeleteZone(db, cache[r], z))
        BY <1>4
    <2>2. \A o \in CM!DeleteZone(db, cache[r], z) : CommitOK(db, cache[r], o, {})
        BY <1>1, DeleteZoneSound, SoundOK
    <2> QED
        BY <2>1, <2>2, DestroyStep
<1> QED
    BY <1>2, <1>3, <1>4 DEF ZoneRequests

LEMMA EngineerStep ==
    ASSUME Core, Bookkept, NEW r \in Replicas, EngineerRequests(r)
    PROVE  Core' /\ Bookkept'
<1>1. CM!Repo!IsDb(db) /\ CM!IsStore(cache[r])
    BY CoreParts
<1>2. CASE \E x \in Data : Create(r, "engineers", CM!CreateEngineer(db, cache[r], x))
    <2>1. PICK x \in Data : Create(r, "engineers", CM!CreateEngineer(db, cache[r], x))
        BY <1>2
    <2>2. \A o \in CM!CreateEngineer(db, cache[r], x) : Sound(db, cache[r], o) /\ Made("engineers", o)
        BY <1>1, EngineerSound, CreateEngineerMade
    <2>3. "engineers" \in Tables
        BY KeyedTables DEF CM!Repo!Keyed
    <2> QED
        BY <2>1, <2>2, <2>3, CreateStep
<1>3. CASE \E i \in CM!Ids(cache[r].engineers), x \in Data : Change(r, CM!PatchEngineer(db, cache[r], i, x))
    <2>1. PICK i \in CM!Ids(cache[r].engineers), x \in Data : Change(r, CM!PatchEngineer(db, cache[r], i, x))
        BY <1>3
    <2>2. \A o \in CM!PatchEngineer(db, cache[r], i, x) : CommitOK(db, cache[r], o, {})
        BY <1>1, EngineerSound, SoundOK
    <2> QED
        BY <2>1, <2>2, ChangeStep
<1>4. CASE \E i \in CM!Ids(cache[r].engineers) : Destroy(r, "engineers", i, CM!DeleteEngineer(db, cache[r], i))
    <2>1. PICK i \in CM!Ids(cache[r].engineers) : Destroy(r, "engineers", i, CM!DeleteEngineer(db, cache[r], i))
        BY <1>4
    <2>2. \A o \in CM!DeleteEngineer(db, cache[r], i) : CommitOK(db, cache[r], o, {})
        BY <1>1, EngineerSound, SoundOK
    <2> QED
        BY <2>1, <2>2, DestroyStep
<1> QED
    BY <1>2, <1>3, <1>4 DEF EngineerRequests

LEMMA MilestoneStep ==
    ASSUME Core, Bookkept, NEW r \in Replicas, MilestoneRequests(r)
    PROVE  Core' /\ Bookkept'
<1>1. CM!Repo!IsDb(db) /\ CM!IsStore(cache[r])
    BY CoreParts
<1>2. CASE \E x \in Data : Create(r, "milestones", CM!CreateMilestone(db, cache[r], x))
    <2>1. PICK x \in Data : Create(r, "milestones", CM!CreateMilestone(db, cache[r], x))
        BY <1>2
    <2>2. \A o \in CM!CreateMilestone(db, cache[r], x) : Sound(db, cache[r], o) /\ Made("milestones", o)
        BY <1>1, MilestoneSound, CreateMilestoneMade
    <2>3. "milestones" \in Tables
        BY KeyedTables DEF CM!Repo!Keyed
    <2> QED
        BY <2>1, <2>2, <2>3, CreateStep
<1>3. CASE \E i \in CM!Ids(cache[r].milestones), x \in Data : Change(r, CM!PatchMilestone(db, cache[r], i, x))
    <2>1. PICK i \in CM!Ids(cache[r].milestones), x \in Data : Change(r, CM!PatchMilestone(db, cache[r], i, x))
        BY <1>3
    <2>2. \A o \in CM!PatchMilestone(db, cache[r], i, x) : CommitOK(db, cache[r], o, {})
        BY <1>1, MilestoneSound, SoundOK
    <2> QED
        BY <2>1, <2>2, ChangeStep
<1>4. CASE \E i \in CM!Ids(cache[r].milestones) : Destroy(r, "milestones", i, CM!DeleteMilestone(db, cache[r], i))
    <2>1. PICK i \in CM!Ids(cache[r].milestones) : Destroy(r, "milestones", i, CM!DeleteMilestone(db, cache[r], i))
        BY <1>4
    <2>2. \A o \in CM!DeleteMilestone(db, cache[r], i) : CommitOK(db, cache[r], o, {})
        BY <1>1, MilestoneSound, SoundOK
    <2> QED
        BY <2>1, <2>2, DestroyStep
<1> QED
    BY <1>2, <1>3, <1>4 DEF MilestoneRequests

LEMMA MaterialStep ==
    ASSUME Core, Bookkept, NEW r \in Replicas, MaterialRequests(r)
    PROVE  Core' /\ Bookkept'
<1>1. CM!Repo!IsDb(db) /\ CM!IsStore(cache[r])
    BY CoreParts
<1>2. CASE \E x \in Data : Create(r, "materials", CM!CreateMaterial(db, cache[r], x))
    <2>1. PICK x \in Data : Create(r, "materials", CM!CreateMaterial(db, cache[r], x))
        BY <1>2
    <2>2. \A o \in CM!CreateMaterial(db, cache[r], x) : Sound(db, cache[r], o) /\ Made("materials", o)
        BY <1>1, MaterialSound, CreateMaterialMade
    <2>3. "materials" \in Tables
        BY KeyedTables DEF CM!Repo!Keyed
    <2> QED
        BY <2>1, <2>2, <2>3, CreateStep
<1>3. CASE \E i \in CM!Ids(cache[r].materials), x \in Data : Change(r, CM!PatchMaterial(db, cache[r], i, x))
    <2>1. PICK i \in CM!Ids(cache[r].materials), x \in Data : Change(r, CM!PatchMaterial(db, cache[r], i, x))
        BY <1>3
    <2>2. \A o \in CM!PatchMaterial(db, cache[r], i, x) : CommitOK(db, cache[r], o, {})
        BY <1>1, MaterialSound, SoundOK
    <2> QED
        BY <2>1, <2>2, ChangeStep
<1>4. CASE \E i \in CM!Ids(cache[r].materials) : Destroy(r, "materials", i, CM!DeleteMaterial(db, cache[r], i))
    <2>1. PICK i \in CM!Ids(cache[r].materials) : Destroy(r, "materials", i, CM!DeleteMaterial(db, cache[r], i))
        BY <1>4
    <2>2. \A o \in CM!DeleteMaterial(db, cache[r], i) : CommitOK(db, cache[r], o, {})
        BY <1>1, MaterialSound, SoundOK
    <2> QED
        BY <2>1, <2>2, DestroyStep
<1> QED
    BY <1>2, <1>3, <1>4 DEF MaterialRequests

LEMMA UserStep ==
    ASSUME Core, Bookkept, NEW r \in Replicas, UserRequests(r)
    PROVE  Core' /\ Bookkept'
<1>1. CM!Repo!IsDb(db) /\ CM!IsStore(cache[r])
    BY CoreParts
<1>2. CASE \E e \in Emails, ro \in RoleIds \cup {None} : Create(r, "users", CM!CreateUser(db, cache[r], e, ro))
    <2>1. PICK e \in Emails, ro \in RoleIds \cup {None} : Create(r, "users", CM!CreateUser(db, cache[r], e, ro))
        BY <1>2
    <2>2. \A o \in CM!CreateUser(db, cache[r], e, ro) : Sound(db, cache[r], o) /\ Made("users", o)
        BY <1>1, CreateUserSound, CreateUserMade
    <2>3. "users" \in Tables
        BY KeyedTables DEF CM!Repo!Keyed
    <2> QED
        BY <2>1, <2>2, <2>3, CreateStep
<1>3. ASSUME NEW i, NEW patch, "id" \notin DOMAIN patch, Change(r, CM!PatchUser(db, cache[r], i, patch))
      PROVE  Core' /\ Bookkept'
    <2>1. \A o \in CM!PatchUser(db, cache[r], i, patch) : CommitOK(db, cache[r], o, {})
        BY <1>1, <1>3, PatchUserSound, SoundOK
    <2> QED
        BY <1>3, <2>1, ChangeStep
<1>4. CASE \E i \in CM!Ids(cache[r].users) :
             \/ \E e \in Emails : Change(r, CM!PatchUser(db, cache[r], i, [email |-> e]))
             \/ \E ro \in RoleIds : Change(r, CM!PatchUser(db, cache[r], i, [role |-> ro]))
    <2>1. \A x : "id" \notin DOMAIN [email |-> x] /\ "id" \notin DOMAIN [role |-> x]
        OBVIOUS
    <2> QED
        BY <1>3, <1>4, <2>1
<1>5. CASE \E i \in CM!Ids(cache[r].users) : Change(r, CM!DeactivateUser(db, cache[r], i))
    <2>1. "id" \notin DOMAIN [status |-> "inactive"]
        OBVIOUS
    <2> QED
        BY <1>3, <1>5, <2>1 DEF CM!DeactivateUser
<1> QED
    BY <1>2, <1>4, <1>5 DEF UserRequests

LEMMA ProfileStep ==
    ASSUME Core, Bookkept, NEW r \in Replicas, ProfileRequests(r)
    PROVE  Core' /\ Bookkept'
<1>1. CM!Repo!IsDb(db) /\ CM!IsStore(cache[r])
    BY CoreParts
<1>2. CASE \E e \in Emails : Change(r, CM!PatchProfileForSession(db, cache[r], e, "own"))
    <2>1. PICK e \in Emails : Change(r, CM!PatchProfileForSession(db, cache[r], e, "own"))
        BY <1>2
    <2>2. \A o \in CM!PatchProfileForSession(db, cache[r], e, "own") : CommitOK(db, cache[r], o, {})
        BY <1>1, ProfileSound, SoundOK
    <2> QED
        BY <2>1, <2>2, ChangeStep
<1>3. CASE \E e \in Emails, p \in Data \cup {None} : Change(r, CM!SetProfilePhoto(db, cache[r], e, p))
    <2>1. PICK e \in Emails, p \in Data \cup {None} : Change(r, CM!SetProfilePhoto(db, cache[r], e, p))
        BY <1>3
    <2>2. \A o \in CM!SetProfilePhoto(db, cache[r], e, p) : CommitOK(db, cache[r], o, {})
        BY <1>1, PhotoSound, SoundOK
    <2> QED
        BY <2>1, <2>2, ChangeStep
<1> QED
    BY <1>2, <1>3 DEF ProfileRequests

LEMMA RoleStep ==
    ASSUME Core, Bookkept, NEW r \in Replicas, RoleRequests(r)
    PROVE  Core' /\ Bookkept'
<1>1. CM!Repo!IsDb(db) /\ CM!IsStore(cache[r])
    BY CoreParts
<1>2. CASE \E x \in Data : Create(r, "roles", CM!CreateRole(db, cache[r], x))
    <2>1. PICK x \in Data : Create(r, "roles", CM!CreateRole(db, cache[r], x))
        BY <1>2
    <2>2. \A o \in CM!CreateRole(db, cache[r], x) : Sound(db, cache[r], o) /\ Made("roles", o)
        BY <1>1, RoleSound, CreateRoleMade
    <2>3. "roles" \in Tables
        BY KeyedTables DEF CM!Repo!Keyed
    <2> QED
        BY <2>1, <2>2, <2>3, CreateStep
<1>3. CASE \E i \in CM!Ids(cache[r].roles), x \in Data : Change(r, CM!PatchRole(db, cache[r], i, x))
    <2>1. PICK i \in CM!Ids(cache[r].roles), x \in Data : Change(r, CM!PatchRole(db, cache[r], i, x))
        BY <1>3
    <2>2. \A o \in CM!PatchRole(db, cache[r], i, x) : CommitOK(db, cache[r], o, {})
        BY <1>1, RoleSound, SoundOK
    <2> QED
        BY <2>1, <2>2, ChangeStep
<1>4. CASE \E i \in CM!Ids(cache[r].roles) : Destroy(r, "roles", i, CM!DeleteRole(db, cache[r], i))
    <2>1. PICK i \in CM!Ids(cache[r].roles) : Destroy(r, "roles", i, CM!DeleteRole(db, cache[r], i))
        BY <1>4
    <2>2. \A o \in CM!DeleteRole(db, cache[r], i) : CommitOK(db, cache[r], o, {})
        BY <1>1, DeleteRoleSound, SoundOK
    <2> QED
        BY <2>1, <2>2, DestroyStep
<1> QED
    BY <1>2, <1>3, <1>4 DEF RoleRequests

LEMMA ProjectStep ==
    ASSUME Core, Bookkept, NEW r \in Replicas, ProjectRequests(r)
    PROVE  Core' /\ Bookkept'
<1>1. CM!Repo!IsDb(db) /\ CM!IsStore(cache[r])
    BY CoreParts
<1>2. CASE \E x \in Data :
             /\ Request(r, CM!CreateProject(db, cache[r], x), NoExcuse,
                        LAMBDA o : IF o.err = "ok" THEN acked \cup {<<"projects", db.serial>>} ELSE acked)
             /\ UNCHANGED unsaved
    <2>1. PICK x \in Data :
             /\ Request(r, CM!CreateProject(db, cache[r], x), NoExcuse,
                        LAMBDA o : IF o.err = "ok" THEN acked \cup {<<"projects", db.serial>>} ELSE acked)
             /\ UNCHANGED unsaved
        BY <1>2
    <2>2. PICK o \in CM!CreateProject(db, cache[r], x) :
             /\ Did(r, o, {}) /\ unsaved' = unsaved
             /\ acked' = IF o.err = "ok" THEN acked \cup {<<"projects", db.serial>>} ELSE acked
        BY <2>1 DEF Request, Did, NoExcuse
    <2>3. <<"projects", db.serial>> \in Tables \X Int
        BY <1>1, DbFields DEF Tables, CM!Repo!Tables
    <2>4. acked' \subseteq Tables \X Int /\ unsaved' \subseteq Tables \X Int
        BY <2>2, <2>3 DEF Bookkept
    <2>5. CommitOK(db, cache[r], o, {})
        BY <1>1, <2>2, ProjectMethodsSound, SoundOK
    <2> QED
        BY <2>2, <2>4, <2>5, OneStep
<1>3. CASE \E i \in DOMAIN cache[r].projects, x \in Data : Change(r, CM!PatchProject(db, cache[r], i, x))
    <2>1. PICK i \in DOMAIN cache[r].projects, x \in Data : Change(r, CM!PatchProject(db, cache[r], i, x))
        BY <1>3
    <2>2. \A o \in CM!PatchProject(db, cache[r], i, x) : CommitOK(db, cache[r], o, {})
        BY <1>1, ProjectMethodsSound, SoundOK
    <2> QED
        BY <2>1, <2>2, ChangeStep
<1>4. CASE /\ \E i \in DOMAIN cache[r].projects :
                  LET gone == {<<"projects", ProjectAt(r, i).dbid>>}
                                \cup {<<"tasks", t>> : t \in {id \in DOMAIN db.tasks : db.tasks[id].project = ProjectAt(r, i).dbid}}
                                \cup {<<"tasks", t.id>> : t \in Range(ProjectAt(r, i).tasks)}
                  IN Request(r, CM!DeleteProject(db, cache[r], i), NoExcuse,
                             LAMBDA o : IF o.err \in {"ok", "lost"} THEN acked \ gone ELSE acked)
           /\ UNCHANGED unsaved
    <2>1. PICK i, gone :
            \E o \in CM!DeleteProject(db, cache[r], i) :
              /\ Did(r, o, {}) /\ unsaved' = unsaved
              /\ acked' = IF o.err \in {"ok", "lost"} THEN acked \ gone ELSE acked
        BY <1>4 DEF Request, Did, NoExcuse
    <2>2. PICK o \in CM!DeleteProject(db, cache[r], i) :
             /\ Did(r, o, {}) /\ unsaved' = unsaved
             /\ acked' = IF o.err \in {"ok", "lost"} THEN acked \ gone ELSE acked
        BY <2>1
    <2>4. acked' \subseteq Tables \X Int /\ unsaved' \subseteq Tables \X Int
        BY <2>2 DEF Bookkept
    <2>5. CommitOK(db, cache[r], o, {})
        BY <1>1, <2>2, ProjectMethodsSound, SoundOK
    <2> QED
        BY <2>2, <2>4, <2>5, OneStep
<1> QED
    BY <1>2, <1>3, <1>4 DEF ProjectRequests

LEMMA TaskStep ==
    ASSUME Core, Bookkept, NEW r \in Replicas, TaskRequests(r)
    PROVE  Core' /\ Bookkept'
<1>1. CM!Repo!IsDb(db) /\ CM!IsStore(cache[r])
    BY CoreParts
<1>2. PICK i \in DOMAIN cache[r].projects :
    \/ /\ Allowed("tasks.create")
       /\ \E t \in TaskIds, x \in Data :
            /\ Request(r, CM!CreateTask(db, cache[r], i, t, x), NoExcuse,
                       LAMBDA o : IF o.err = "ok" THEN acked \cup {<<"tasks", t>>} ELSE acked)
            /\ unsaved' = IF ProjectAt(r, i).dbid = 0 THEN unsaved \cup {<<"tasks", t>>} ELSE unsaved
    \/ /\ Allowed("tasks.update")
       /\ \E t \in CM!Ids(ProjectAt(r, i).tasks), x \in Data :
            Change(r, CM!PatchTask(db, cache[r], i, t, x))
    \/ /\ Allowed("tasks.delete")
       /\ \E t \in CM!Ids(ProjectAt(r, i).tasks) :
            Request(r, CM!DeleteTask(db, cache[r], i, t), NoExcuse,
                    LAMBDA o : IF o.err \in {"ok", "lost"} THEN acked \ {<<"tasks", t>>} ELSE acked)
       /\ UNCHANGED unsaved
    BY DEF TaskRequests
<1>3. CM!Ids(ProjectAt(r, i).tasks) \subseteq Int
    <2>1. CM!Repo!IsList("items", cache[r].projects[i].tasks)
        <3>1. CM!IsBoard(cache[r].projects)
            BY <1>1 DEF CM!IsStore
        <3> QED
            BY <3>1, BoardParts DEF IsProject
    <2>2. "items" \in Kinds
        BY DEF Kinds
    <2>3. \A k \in DOMAIN cache[r].projects[i].tasks : cache[r].projects[i].tasks[k].id \in Int
        BY <2>1, <2>2, ListSeq, RowId
    <2> QED
        BY <2>3 DEF CM!Ids, ProjectAt
<1>4. CASE \E t \in TaskIds, x \in Data :
            /\ Request(r, CM!CreateTask(db, cache[r], i, t, x), NoExcuse,
                       LAMBDA o : IF o.err = "ok" THEN acked \cup {<<"tasks", t>>} ELSE acked)
            /\ unsaved' = IF ProjectAt(r, i).dbid = 0 THEN unsaved \cup {<<"tasks", t>>} ELSE unsaved
    <2>1. PICK t \in TaskIds, x \in Data :
            /\ Request(r, CM!CreateTask(db, cache[r], i, t, x), NoExcuse,
                       LAMBDA o : IF o.err = "ok" THEN acked \cup {<<"tasks", t>>} ELSE acked)
            /\ unsaved' = IF ProjectAt(r, i).dbid = 0 THEN unsaved \cup {<<"tasks", t>>} ELSE unsaved
        BY <1>4
    <2>2. PICK o \in CM!CreateTask(db, cache[r], i, t, x) :
             Did(r, o, {}) /\ acked' = IF o.err = "ok" THEN acked \cup {<<"tasks", t>>} ELSE acked
        BY <2>1 DEF Request, Did, NoExcuse
    <2>3. <<"tasks", t>> \in Tables \X Int
        BY ServiceAssumption DEF Tables, CM!Repo!Tables
    <2>4. acked' \subseteq Tables \X Int /\ unsaved' \subseteq Tables \X Int
        BY <2>1, <2>2, <2>3 DEF Bookkept
    <2>5. CommitOK(db, cache[r], o, {})
        BY <1>1, <2>2, TaskMethodsSound, SoundOK, ServiceAssumption
    <2> QED
        BY <2>2, <2>4, <2>5, OneStep
<1>5. CASE \E t \in CM!Ids(ProjectAt(r, i).tasks), x \in Data :
            Change(r, CM!PatchTask(db, cache[r], i, t, x))
    <2>1. PICK t \in CM!Ids(ProjectAt(r, i).tasks), x \in Data : Change(r, CM!PatchTask(db, cache[r], i, t, x))
        BY <1>5
    <2>2. \A o \in CM!PatchTask(db, cache[r], i, t, x) : CommitOK(db, cache[r], o, {})
        BY <1>1, <1>3, TaskMethodsSound, SoundOK
    <2> QED
        BY <2>1, <2>2, ChangeStep
<1>6. CASE /\ \E t \in CM!Ids(ProjectAt(r, i).tasks) :
                Request(r, CM!DeleteTask(db, cache[r], i, t), NoExcuse,
                        LAMBDA o : IF o.err \in {"ok", "lost"} THEN acked \ {<<"tasks", t>>} ELSE acked)
           /\ UNCHANGED unsaved
    <2>1. PICK t \in CM!Ids(ProjectAt(r, i).tasks) :
                Request(r, CM!DeleteTask(db, cache[r], i, t), NoExcuse,
                        LAMBDA o : IF o.err \in {"ok", "lost"} THEN acked \ {<<"tasks", t>>} ELSE acked)
        BY <1>6
    <2>2. PICK o \in CM!DeleteTask(db, cache[r], i, t) :
             Did(r, o, {}) /\ acked' = IF o.err \in {"ok", "lost"} THEN acked \ {<<"tasks", t>>} ELSE acked
        BY <2>1 DEF Request, Did, NoExcuse
    <2>4. acked' \subseteq Tables \X Int /\ unsaved' \subseteq Tables \X Int
        BY <1>6, <2>2 DEF Bookkept
    <2>5. CommitOK(db, cache[r], o, {})
        BY <1>1, <1>3, <2>2, TaskMethodsSound, SoundOK
    <2> QED
        BY <2>2, <2>4, <2>5, OneStep
<1> QED
    BY <1>2, <1>4, <1>5, <1>6

LEMMA AssistanceStep ==
    ASSUME Core, Bookkept, NEW r \in Replicas, PostAssistance(r)
    PROVE  Core' /\ Bookkept'
<1>1. PICK m \in Messages : Change(r, CM!PostAssistance(db, cache[r], m))
    BY DEF PostAssistance
<1>2. \A o \in CM!PostAssistance(db, cache[r], m) : CommitOK(db, cache[r], o, {})
    BY CoreParts, AssistanceSound, SoundOK
<1> QED
    BY <1>1, <1>2, ChangeStep

LEMMA ScanStep ==
    ASSUME Core, Bookkept, NEW r \in Replicas, PutAiScan(r)
    PROVE  Core' /\ Bookkept'
<1>1. PICK x \in Data :
       /\ Request(r, CM!SetAiScan(db, cache[r], x),
                  LAMBDA o : IF o.db.scan = o.store.scan THEN {} ELSE {"dropped"}, Keeps)
       /\ UNCHANGED unsaved
    BY DEF PutAiScan
<1>2. PICK o \in CM!SetAiScan(db, cache[r], x) :
         /\ Did(r, o, IF o.db.scan = o.store.scan THEN {} ELSE {"dropped"})
         /\ acked' = acked /\ unsaved' = unsaved
    BY <1>1 DEF Request, Did, Keeps
<1>3. CommitOK(db, cache[r], o, IF o.db.scan = o.store.scan THEN {} ELSE {"dropped"})
    BY CoreParts, ScanGood, GoodOK
<1>4. acked' \subseteq Tables \X Int /\ unsaved' \subseteq Tables \X Int
    BY <1>2 DEF Bookkept
<1> QED
    BY <1>2, <1>3, <1>4, OneStep

\* One handler moved.
LEMMA JobPut ==
    ASSUME Core, NEW h \in Handlers, job[h].at # "save", NEW j, JobOK(j), j.at \notin {"save", "seed"},
           job' = [job EXCEPT ![h] = j]
    PROVE  JobsGoOn
BY DEF Core, JobsGoOn

\* A handler at rest carries nothing.
LEMMA IdleOK == JobOK(Idle) /\ Idle.at = "idle"
BY DEF JobOK, Idle

\* The stored half of an audit entry.
LEMMA StoreEntryStep ==
    ASSUME Core, NEW h \in Handlers, job[h].at # "save", NEW r \in Replicas, StoreEntry(h, r)
    PROVE  Core'
<1> DEFINE j == [at |-> "ring", replica |-> r, entry |-> NextEntry]
<1>1. PICK o \in CM!auditStored(db, cache[r], NextEntry) :
        /\ Commit(r, o, IF NextEntry \in Range(o.db.audit) THEN {} ELSE {"dropped"})
        /\ job' = [job EXCEPT ![h] = j]
    BY DEF StoreEntry
<1>2. JobOK(j) /\ j.at = "ring"
    BY DEF JobOK
<1> HIDE DEF j
<1>3. JobsGoOn
    BY <1>1, <1>2, JobPut
<1>4. CommitOK(db, cache[r], o, IF NextEntry \in Range(o.db.audit) THEN {} ELSE {"dropped"})
    BY CoreParts, AuditGood, GoodOK
<1> QED
    BY <1>1, <1>3, <1>4, CommitStep

LEMMA AppendAuditStep ==
    ASSUME Core, Bookkept, NEW h \in Handlers, NEW r \in Replicas, AppendAudit(h, r)
    PROVE  Core' /\ Bookkept'
<1>1. job[h].at # "save" /\ StoreEntry(h, r) /\ Begin /\ UNCHANGED history
    BY IdleOK DEF AppendAudit
<1>2. Core'
    BY <1>1, StoreEntryStep
<1>3. Bookkept'
    BY <1>1, ServiceAssumption DEF Bookkept, Begin, history
<1> QED
    BY <1>2, <1>3

LEMMA RecordStep ==
    ASSUME Core, Bookkept, NEW h \in Handlers, RecordBulkReplace(h)
    PROVE  Core' /\ Bookkept'
<1>1. job[h].at = "record" /\ StoreEntry(h, job[h].replica) /\ UNCHANGED <<history, ops>>
    BY DEF RecordBulkReplace
<1>2. job[h].replica \in Replicas
    BY <1>1, IdleOK DEF Core, JobOK
<1>3. Core'
    BY <1>1, <1>2, StoreEntryStep
<1>4. Bookkept'
    BY <1>1 DEF Bookkept, history
<1> QED
    BY <1>3, <1>4

\* The ring is not among what a save shares with the cache.
LEMMA RingAlike ==
    ASSUME NEW copy, NEW s, Alike(copy, s), DOMAIN s = DOMAIN CM!seed, NEW entry
    PROVE  Alike(copy, CM!auditRing(s, entry))
BY DEF Alike, CM!auditRing, CM!seed

LEMMA RingStep ==
    ASSUME Core, Bookkept, NEW h \in Handlers, AuditRing(h)
    PROVE  Core' /\ Bookkept'
<1> DEFINE r == job[h].replica
           s2 == CM!auditRing(cache[r], job[h].entry)
<1>1. /\ job[h].at = "ring" /\ db' = db
      /\ cache' = [cache EXCEPT ![r] = s2]
      /\ upset' = upset \/ upset' = [upset EXCEPT ![r] = upset[r] \cup {"late"}]
      /\ job' = [job EXCEPT ![h] = Idle]
      /\ UNCHANGED <<history, ops>>
    BY DEF AuditRing
<1>2. r \in Replicas
    BY <1>1, IdleOK DEF Core, JobOK
<1>3. Good(db, cache[r], db, s2)
    BY <1>2, CoreParts, RingGood
<1>4. JobsGoOn
    BY <1>1, IdleOK, JobPut
<1>5. \A q \in Replicas : Saving(q)' <=> Saving(q)
    BY <1>4 DEF JobsGoOn, Saving
<1>6. /\ cache' = [q \in Replicas |-> cache'[q]] /\ cache'[r] = s2
      /\ \A q \in Replicas : q # r => cache'[q] = cache[q]
    <2> HIDE DEF s2, r
    <2> QED
        BY <1>1, <1>2 DEF Core
<1>7. /\ upset' = [q \in Replicas |-> upset'[q]]
      /\ \A q \in Replicas : upset[q] \subseteq upset'[q] /\ upset'[q] \subseteq upset[q] \cup {"late"}
    BY <1>1, <1>2 DEF Core
<1>8. \A q \in Replicas : Alike(cache[q], cache'[q])
    <2>1. \A q \in Replicas : Alike(cache[q], cache[q]) /\ DOMAIN cache[q] = DOMAIN CM!seed
        BY DEF Alike, Core, CM!IsStore
    <2>2. Alike(cache[r], s2)
        BY <1>2, <2>1, RingAlike
    <2> HIDE DEF s2, r
    <2> QED
        BY <1>6, <2>1, <2>2
<1> HIDE DEF s2
<1>9. Served'
    <2>1. ASSUME NEW q \in Replicas, Covered(q)'
          PROVE  BelowAll(db, cache[q])' /\ ("load" \notin upset'[q] => MirrorsAll(db, cache[q])')
        <3>1. Covered(q) /\ ("load" \in upset[q] => "load" \in upset'[q])
            BY <1>5, <1>7, <2>1 DEF Covered
        <3>2. BelowAll(db, cache[q]) /\ ("load" \notin upset[q] => MirrorsAll(db, cache[q]))
            BY <3>1 DEF Core, Served
        <3>3. CASE q # r
            <4>1. db' = db /\ cache'[q] = cache[q]
                BY <3>3, <1>1, <1>6
            <4> QED
                BY <3>1, <3>2, <4>1 DEF BelowAll, MirrorsAll, Messaged
        <3>4. CASE q = r
            <4>1. BelowAll(db, s2) /\ ("load" \notin upset[q] => MirrorsAll(db, s2))
                BY <1>3, <3>2, <3>4, GoodServed
            <4>2. db' = db /\ cache'[q] = s2
                BY <3>4, <1>1, <1>6
            <4> QED
                BY <3>1, <4>1, <4>2 DEF BelowAll, MirrorsAll, Messaged
        <3> QED
            BY <3>3, <3>4
    <2> QED
        BY <2>1 DEF Served
<1>10. SavesKept'
    <2>1. ASSUME NEW g \in Handlers, job'[g].at = "save", "overlap" \notin upset'[job'[g].replica]
          PROVE  Alike(job[g].copy, cache[job[g].replica])'
        <3> DEFINE q == job[g].replica
        <3>1. job'[g] = job[g]
            BY <2>1, <1>4 DEF JobsGoOn
        <3>2. q \in Replicas
            BY <2>1, <3>1, IdleOK DEF Core, JobOK
        <3>3. Alike(job[g].copy, cache[q])
            BY <2>1, <3>1, <3>2, <1>7 DEF Core, SavesKept
        <3>4. Alike(cache[q], cache'[q])
            BY <3>2, <1>8
        <3> QED
            BY <3>1, <3>3, <3>4 DEF Alike
    <2> QED
        BY <2>1 DEF SavesKept
<1>11. \A q \in Replicas : CM!IsStore(cache'[q]) /\ upset'[q] \subseteq Reasons
    <2>1. CM!IsStore(s2)
        BY <1>3 DEF Good
    <2> QED
        BY <2>1, <1>6, <1>7 DEF Core, Reasons
<1>12. CM!Repo!IsDb(db')
    BY <1>1 DEF Core
<1>13. Core'
    BY <1>4, <1>6, <1>7, <1>9, <1>10, <1>11, <1>12, StartingKept DEF Core, JobsGoOn
<1> QED
    BY <1>1, <1>13 DEF Bookkept, history

\* What a contract mutation goes on with.
LEMMA CountingOK ==
    ASSUME NEW r \in Replicas, NEW no, NEW s, NEW zones, NEW tell \in Told
    PROVE  LET j == Counting(r, no, s, zones, tell) IN JobOK(j) /\ j.at \in {"count", "publish"}
BY DEF Counting, JobOK

\* The steps of the contract mutations.
LEMMA ContractPostedStep ==
    ASSUME Core, Bookkept, NEW h \in Handlers, NEW r \in Replicas, ContractPosted(h, r)
    PROVE  Core' /\ Bookkept'
<1>1. PICK given \in ContractNos \cup {None}, z \in ZoneCodes, sup \in Supervisors, st \in Statuses \cup {None} :
       LET no == IF given = None THEN CM!nextContractNo(cache[r]) ELSE given
           in == [id |-> no, zone |-> z, sup |-> sup, status |-> st, report |-> 0]
       IN /\ no \in ContractNos
          /\ \E o \in CM!CreateContract(db, cache[r], in) :
               /\ Commit(r, o, {})
               /\ acked' = Adds("contracts", o)
               /\ miscounted' = Miscounts(r, o)
               /\ raced' = IF o.err # "ok" /\ o.db = db THEN raced
                           ELSE IF OnContract(no) \/ o.err = "lost" THEN raced \cup {no} ELSE raced
               /\ job' = IF o.err # "ok" THEN job
                         ELSE [job EXCEPT ![h] = Counting(r, no, o.store, <<z>>, CM!defaultStatus(st))]
    BY Zenon DEF ContractPosted
<1> DEFINE no == IF given = None THEN CM!nextContractNo(cache[r]) ELSE given
<1>2. PICK o \in CM!CreateContract(db, cache[r], [id |-> no, zone |-> z, sup |-> sup, status |-> st, report |-> 0]) :
           /\ Commit(r, o, {}) /\ acked' = Adds("contracts", o)
           /\ job' = IF o.err # "ok" THEN job
                     ELSE [job EXCEPT ![h] = Counting(r, no, o.store, <<z>>, CM!defaultStatus(st))]
    BY <1>1
<1>3. no \in Int
    BY <1>1, ServiceAssumption
<1> HIDE DEF no
<1>4. Sound(db, cache[r], o) /\ Made("contracts", o)
    BY <1>2, <1>3, CoreParts, CreateContractSound, CreateContractMade
<1>5. JobsGoOn
    <2>1. CM!defaultStatus(st) \in Told
        BY DEF CM!defaultStatus, Told
    <2>2. LET j == Counting(r, no, o.store, <<z>>, CM!defaultStatus(st)) IN JobOK(j) /\ j.at \in {"count", "publish"}
        BY <2>1, CountingOK
    <2>3. job[h].at # "save"
        BY IdleOK DEF ContractPosted
    <2> QED
        BY <1>2, <2>2, <2>3, JobPut, JobsSame
<1>6. Core'
    BY <1>2, <1>4, <1>5, SoundOK, CommitStep
<1>7. acked' \subseteq Tables \X Int
    <2>1. "contracts" \in Tables
        BY KeyedTables DEF CM!Repo!Keyed
    <2> QED
        BY <1>2, <1>4, <2>1 DEF Adds, Made, Bookkept
<1>8. unsaved' = unsaved /\ said' = said /\ ops' \in 0..MaxOps
    BY ServiceAssumption DEF ContractPosted, Begin, Bookkept
<1> QED
    BY <1>6, <1>7, <1>8 DEF Bookkept

LEMMA PatchBeginsStep ==
    ASSUME Core, Bookkept, NEW h \in Handlers, NEW r \in Replicas, PatchBegins(h, r)
    PROVE  Core' /\ Bookkept'
<1>1. PICK sess \in Sessions, c \in Range(cache[r].contracts), patch \in Patches :
        job' = [job EXCEPT ![h] = [at |-> "patch", replica |-> r, sess |-> sess, no |-> c.id,
                                   patch |-> patch, previous |-> c.status]]
    BY DEF PatchBegins
<1>2. JobsGoOn
    <2> DEFINE j == [at |-> "patch", replica |-> r, sess |-> sess, no |-> c.id,
                     patch |-> patch, previous |-> c.status]
    <2>1. JobOK(j) /\ j.at \notin {"save", "seed"}
        BY DEF JobOK
    <2>2. job[h].at # "save"
        BY IdleOK DEF PatchBegins
    <2> HIDE DEF j
    <2>3. job' = [job EXCEPT ![h] = j]
        BY <1>1 DEF j
    <2> QED
        BY <2>1, <2>2, <2>3, JobPut
<1>3. UNCHANGED <<db, cache, upset, acked, unsaved, said>> /\ ops' \in 0..MaxOps
    BY ServiceAssumption DEF PatchBegins, Begin, Bookkept
<1>4. Core'
    BY <1>2, <1>3, QuietStep
<1> QED
    BY <1>3, <1>4 DEF Bookkept

LEMMA PatchContractStep ==
    ASSUME Core, Bookkept, NEW h \in Handlers, PatchContract(h)
    PROVE  Core' /\ Bookkept'
<1> DEFINE j == job[h]
           r == j.replica
           i == CM!Find(cache[r].contracts, j.no)
           old == cache[r].contracts[i].zone
           new == IF "zone" \in DOMAIN j.patch THEN j.patch.zone ELSE old
           zones == IF i = 0 THEN <<>> ELSE IF new = old THEN <<new>> ELSE <<old, new>>
<1>1. j.at = "patch" /\ r \in Replicas /\ j.patch \in Patches
    BY IdleOK DEF PatchContract, Core, JobOK
<1>2. PICK o \in CM!updateContract(db, cache[r], j.no, j.patch) :
        /\ Commit(r, o, {})
        /\ job' = [job EXCEPT ![h] = IF o.err # "ok" THEN Idle
                                     ELSE Counting(r, j.no, o.store, zones, Tell(j.patch, j.previous))]
    BY DEF PatchContract
<1> HIDE DEF zones
<1>3. "id" \notin DOMAIN j.patch
    BY <1>1 DEF Patches
<1>4. Sound(db, cache[r], o)
    BY <1>1, <1>2, <1>3, CoreParts, UpdateContractSound
<1>5. JobsGoOn
    <2>1. Tell(j.patch, j.previous) \in Told
        BY <1>1 DEF Tell, Told, Patches
    <2>2. LET k == Counting(r, j.no, o.store, zones, Tell(j.patch, j.previous)) IN JobOK(k) /\ k.at \in {"count", "publish"}
        BY <1>1, <2>1, CountingOK
    <2> QED
        BY <1>1, <1>2, <2>2, IdleOK, JobPut
<1>6. Core'
    BY <1>1, <1>2, <1>4, <1>5, SoundOK, CommitStep
<1> QED
    BY <1>6 DEF Bookkept, PatchContract

LEMMA DeleteBeginsStep ==
    ASSUME Core, Bookkept, NEW h \in Handlers, NEW r \in Replicas, DeleteBegins(h, r)
    PROVE  Core' /\ Bookkept'
<1>1. PICK no \in ContractNos :
        job' = [job EXCEPT ![h] = [at |-> "drop", replica |-> r, no |-> no,
                                   existing |-> CM!Find(cache[r].contracts, no) # 0]]
    BY DEF DeleteBegins
<1>2. JobsGoOn
    <2> DEFINE j == [at |-> "drop", replica |-> r, no |-> no,
                     existing |-> CM!Find(cache[r].contracts, no) # 0]
    <2>1. JobOK(j) /\ j.at \notin {"save", "seed"}
        BY DEF JobOK
    <2>2. job[h].at # "save"
        BY IdleOK DEF DeleteBegins
    <2> HIDE DEF j
    <2>3. job' = [job EXCEPT ![h] = j]
        BY <1>1 DEF j
    <2> QED
        BY <2>1, <2>2, <2>3, JobPut
<1>3. UNCHANGED <<db, cache, upset, acked, unsaved, said>> /\ ops' \in 0..MaxOps
    BY ServiceAssumption DEF DeleteBegins, Begin, Bookkept
<1>4. Core'
    BY <1>2, <1>3, QuietStep
<1> QED
    BY <1>3, <1>4 DEF Bookkept

LEMMA DeleteContractStep ==
    ASSUME Core, Bookkept, NEW h \in Handlers, DeleteContract(h)
    PROVE  Core' /\ Bookkept'
<1> DEFINE j == job[h]
           r == j.replica
           i == CM!Find(cache[r].contracts, j.no)
           zones == IF i = 0 THEN <<>> ELSE <<cache[r].contracts[i].zone>>
           tell == IF j.existing THEN "gone" ELSE None
<1>1. j.at = "drop" /\ r \in Replicas
    BY IdleOK DEF DeleteContract, Core, JobOK
<1>2. PICK o \in CM!deleteContract(db, cache[r], j.no) :
        /\ Commit(r, o, {}) /\ acked' = Drops("contracts", j.no, o)
        /\ job' = [job EXCEPT ![h] = IF o.err # "ok" THEN Idle
                                     ELSE Counting(r, j.no, o.store, zones, tell)]
    BY DEF DeleteContract
<1>3. Sound(db, cache[r], o)
    BY <1>1, <1>2, CoreParts, DeleteContractSound
<1>4. JobsGoOn
    <2>1. tell \in Told
        BY DEF Told
    <2> HIDE DEF zones, tell
    <2>2. LET k == Counting(r, j.no, o.store, zones, tell) IN JobOK(k) /\ k.at \in {"count", "publish"}
        BY <1>1, <2>1, CountingOK
    <2> QED
        BY <1>1, <1>2, <2>2, IdleOK, JobPut
<1>5. Core'
    BY <1>1, <1>2, <1>3, <1>4, SoundOK, CommitStep
<1>6. acked' \subseteq Tables \X Int /\ unsaved' = unsaved /\ said' = said /\ ops' = ops
    BY <1>2 DEF DeleteContract, Bookkept, Drops
<1> QED
    BY <1>5, <1>6 DEF Bookkept

LEMMA CountZoneStep ==
    ASSUME Core, Bookkept, NEW h \in Handlers, CountZone(h)
    PROVE  Core' /\ Bookkept'
<1> DEFINE j == job[h]
           r == j.replica
           z == Head(j.zones)
           at == IF Len(j.zones) = 1 THEN "publish" ELSE "count"
<1>1. /\ j.at = "count" /\ r \in Replicas /\ j.tell \in Told
      /\ DOMAIN j = {"at", "replica", "no", "zones", "tell"}
    BY IdleOK DEF CountZone, Core, JobOK
<1>2. PICK o \in CM!persistZoneCount(db, cache[r], z) : Commit(r, o, {})
    BY DEF CountZone
<1>3. job' = [job EXCEPT ![h].zones = Tail(@), ![h].at = at]
    BY DEF CountZone
<1>4. Good(db, cache[r], o.db, o.store)
    BY <1>1, <1>2, CoreParts, CountSound
<1>5. JobsGoOn
    <2>1. PICK k : k = [j EXCEPT !.zones = Tail(@), !.at = at]
        OBVIOUS
    <2>2. job' = [job EXCEPT ![h] = k]
        BY <1>3, <2>1 DEF Core
    <2>3. k.at = at /\ k.replica = r /\ k.tell = j.tell /\ DOMAIN k = DOMAIN j
        BY <1>1, <2>1
    <2>4. JobOK(k) /\ k.at \notin {"save", "seed"}
        BY <1>1, <2>3 DEF JobOK
    <2>5. job[h].at # "save"
        BY <1>1
    <2> HIDE DEF at
    <2> QED
        BY <2>2, <2>4, <2>5, JobPut
<1>6. Core'
    BY <1>1, <1>2, <1>4, <1>5, GoodOK, CommitStep
<1> QED
    BY <1>6 DEF Bookkept, CountZone

LEMMA PublishStep ==
    ASSUME Core, Bookkept, NEW h \in Handlers, PublishContract(h)
    PROVE  Core' /\ Bookkept'
<1> DEFINE j == job[h]
<1>1. j.at = "publish" /\ j.tell \in Told
    BY IdleOK DEF PublishContract, Core, JobOK
<1>2. JobsGoOn
    BY <1>1, IdleOK, JobPut DEF PublishContract
<1>3. UNCHANGED <<db, cache, upset, acked, unsaved, ops>>
    BY DEF PublishContract
<1>4. Core'
    BY <1>2, <1>3, QuietStep
<1>5. said' \in [ContractNos -> Statuses \cup {"Planning", None}]
    <2>1. said' = said \/ (j.tell # None
             /\ said' = [said EXCEPT ![j.no] = IF j.tell = "gone" THEN None ELSE j.tell])
        BY DEF PublishContract
    <2>2. (IF j.tell = "gone" THEN None ELSE j.tell) \in Statuses \cup {"Planning", None}
        BY <1>1 DEF Told
    <2> QED
        BY <2>1, <2>2 DEF Bookkept
<1> QED
    BY <1>3, <1>4, <1>5 DEF Bookkept

\* What the other saves of r keep when the cache of r gets new lists.
LEMMA UnsharedOK ==
    ASSUME Core, NEW r \in Replicas, NEW tables, NEW g \in Handlers
    PROVE  /\ Unshared(r, tables)[g].at = job[g].at /\ JobOK(Unshared(r, tables)[g])
           /\ job[g].at = "save" => /\ Unshared(r, tables)[g].replica = job[g].replica
                                    /\ Unshared(r, tables)[g].copy = job[g].copy
<1> DEFINE u == Unshared(r, tables)[g]
<1>1. JobOK(job[g])
    BY DEF Core
<1>2. CASE ~(job[g].at = "save" /\ job[g].replica = r)
    <2>1. u = job[g]
        BY <1>2 DEF Unshared
    <2> QED
        BY <1>1, <2>1
<1>3. CASE job[g].at = "save" /\ job[g].replica = r
    <2>1. /\ CM!IsStore(job[g].copy) /\ job[g].shared \subseteq Shared
          /\ DOMAIN job[g] = {"at", "replica", "copy", "of", "shared"}
        BY <1>1, <1>3, IdleOK DEF JobOK
    <2>2. u = [job[g] EXCEPT !.shared = job[g].shared \ tables]
        BY <1>3 DEF Unshared
    <2> HIDE DEF u
    <2>3. /\ u.at = "save" /\ u.replica = r /\ u.copy = job[g].copy
          /\ u.shared \subseteq Shared /\ DOMAIN u = {"at", "replica", "copy", "of", "shared"}
        BY <1>3, <2>1, <2>2
    <2>4. JobOK(u)
        BY <2>1, <2>3 DEF JobOK
    <2> QED
        BY <1>3, <2>3, <2>4 DEF u
<1> QED
    BY <1>2, <1>3

\* A bulk PUT: the store of the replica is replaced, its save is to come.
LEMMA ReplacedStep ==
    ASSUME Core, Bookkept, NEW h \in Handlers, NEW r \in Replicas, NEW s, CM!IsStore(s), NEW tables,
           Replaced(h, r, s, tables)
    PROVE  Core' /\ Bookkept'
<1> DEFINE j == [at |-> "save", replica |-> r, copy |-> s, of |-> tables,
                 shared |-> Shared]
<1>1. /\ job[h] = Idle /\ Up(r) /\ db' = db
      /\ cache' = [cache EXCEPT ![r] = s]
      /\ job' = [Unshared(r, tables) EXCEPT ![h] = j]
      /\ upset' = IF Saving(r) THEN [upset EXCEPT ![r] = upset[r] \cup {"overlap"}] ELSE upset
      /\ acked' = {x \in acked : x[1] \notin tables} /\ unsaved' = unsaved /\ said' = said
      /\ ops' \in 0..MaxOps
    BY ServiceAssumption DEF Replaced, Begin, Bookkept, Free
<1>2. JobOK(j) /\ j.at = "save" /\ j.replica = r /\ j.copy = s
    BY DEF JobOK
<1> HIDE DEF j
<1>3. /\ job' = [g \in Handlers |-> job'[g]] /\ job'[h] = j
      /\ \A g \in Handlers : g # h => job'[g] = Unshared(r, tables)[g]
    BY <1>1 DEF Unshared
<1>4. \A g \in Handlers : JobOK(job'[g])
    BY <1>2, <1>3, UnsharedOK
<1>5. /\ cache' = [q \in Replicas |-> cache'[q]] /\ cache'[r] = s
      /\ \A q \in Replicas : q # r => cache'[q] = cache[q]
    BY <1>1 DEF Core
<1>6. /\ upset' = [q \in Replicas |-> upset'[q]]
      /\ \A q \in Replicas : q # r => upset'[q] = upset[q]
      /\ upset'[r] = IF Saving(r) THEN upset[r] \cup {"overlap"} ELSE upset[r]
    BY <1>1 DEF Core
<1>7. /\ Saving(r)'
      /\ \A q \in Replicas : q # r => (Saving(q)' <=> Saving(q))
    <2>1. Saving(r)'
        BY <1>2, <1>3 DEF Saving
    <2>2. ASSUME NEW q \in Replicas, q # r
          PROVE  Saving(q)' <=> Saving(q)
        <3>1. \A g \in Handlers : g # h => (job'[g].at = job[g].at /\ (job[g].at = "save" => job'[g].replica = job[g].replica))
            BY <1>3, UnsharedOK
        <3>2. ~(job'[h].at = "save" /\ job'[h].replica = q) /\ job[h].at # "save"
            BY <1>1, <1>2, <1>3, <2>2, IdleOK
        <3> QED
            BY <3>1, <3>2 DEF Saving
    <2> QED
        BY <2>1, <2>2
<1>8. Served'
    <2>1. ASSUME NEW q \in Replicas, Covered(q)'
          PROVE  BelowAll(db, cache[q])' /\ ("load" \notin upset'[q] => MirrorsAll(db, cache[q])')
        <3>1. q # r
            BY <1>7, <2>1 DEF Covered
        <3>2. Covered(q)
            BY <1>6, <1>7, <2>1, <3>1 DEF Covered
        <3>3. BelowAll(db, cache[q]) /\ ("load" \notin upset[q] => MirrorsAll(db, cache[q]))
            BY <3>2 DEF Core, Served
        <3>4. db' = db /\ cache'[q] = cache[q] /\ upset'[q] = upset[q]
            BY <3>1, <1>1, <1>5, <1>6
        <3> QED
            BY <3>3, <3>4 DEF BelowAll, MirrorsAll, Messaged
    <2> QED
        BY <2>1 DEF Served
<1>9. SavesKept'
    <2>1. ASSUME NEW g \in Handlers, job'[g].at = "save", "overlap" \notin upset'[job'[g].replica]
          PROVE  Alike(job'[g].copy, cache'[job'[g].replica])
        <3>1. CASE g = h
            BY <1>2, <1>3, <1>5, <3>1 DEF Alike
        <3>2. CASE g # h
            <4>1. job[g].at = "save" /\ job'[g].replica = job[g].replica /\ job'[g].copy = job[g].copy
                BY <1>3, <2>1, <3>2, UnsharedOK
            <4>2. job[g].replica \in Replicas
                BY <4>1, IdleOK DEF Core, JobOK
            <4>3. job[g].replica # r
                <5>1. Saving(r) => "overlap" \in upset'[r]
                    BY <1>6
                <5> QED
                    BY <5>1, <2>1, <4>1 DEF Saving
            <4>4. Alike(job[g].copy, cache[job[g].replica])
                BY <1>6, <2>1, <4>1, <4>2, <4>3 DEF Core, SavesKept
            <4> QED
                BY <1>5, <4>1, <4>2, <4>3, <4>4
        <3> QED
            BY <3>1, <3>2
    <2> QED
        BY <2>1 DEF SavesKept, Alike
<1>10. \A q \in Replicas : CM!IsStore(cache'[q]) /\ upset'[q] \subseteq Reasons
    BY <1>5, <1>6 DEF Core, Reasons
<1>11. CM!Repo!IsDb(db')
    BY <1>1 DEF Core
<1>12. Starting'
    <2>1. \A g \in Handlers : g # h => (job'[g].at = job[g].at /\ (job[g].at = "save" => job'[g].replica = job[g].replica))
        BY <1>3, UnsharedOK
    <2>2. \A g \in Handlers : job'[g].at = "seed" => job[g].at = "seed" /\ job'[g] = job[g] /\ job[g].replica # r
        <3>1. \A g \in Handlers : job[g].at # "save" => Unshared(r, tables)[g] = job[g]
            BY DEF Unshared
        <3> QED
            BY <1>1, <1>2, <1>3, <2>1, <3>1 DEF Up
    <2> QED
        BY <1>2, <1>3, <2>1, <2>2 DEF Core, Starting
<1>13. Core'
    BY <1>3, <1>4, <1>5, <1>6, <1>8, <1>9, <1>10, <1>11, <1>12 DEF Core
<1> QED
    BY <1>1, <1>13 DEF Bookkept

LEMMA PutStep ==
    ASSUME Core, Bookkept, NEW h \in Handlers, NEW r \in Replicas, PutWorkspace(h, r) \/ PutFrontend(h, r)
    PROVE  Core' /\ Bookkept'
BY CoreParts, ReplacedWorkspace, ReplacedFrontend, ReplacedStep DEF PutWorkspace, PutFrontend

\* A store that could be loaded or could not.
LEMMA HydratedStore ==
    ASSUME NEW d, CM!Repo!IsDb(d), NEW s, s \in CM!Hydrated(d) \/ s = CM!seed
    PROVE  /\ CM!IsStore(s) /\ BelowAll(d, s)
           /\ s = CM!Repo!LoadState(d) => MirrorsAll(d, s)
<1>1. s = CM!Repo!LoadState(d) \/ s = CM!seed
    BY DEF CM!Hydrated
<1> QED
    BY <1>1, LoadedStore, SeedStore

\* What a crash leaves of the handlers, and the one that goes on to seed the tables.
Revived(r) == /\ job' = [h \in Handlers |-> job'[h]]
              /\ \A h \in Handlers :
                   \/ job'[h] = job[h] /\ (job[h] = Idle \/ job[h].replica # r)
                   \/ job'[h] = Idle /\ job[h] # Idle /\ job[h].replica = r
                   \/ job'[h] = [at |-> "seed", replica |-> r] /\ (job[h] = Idle \/ job[h].replica = r)
LEMMA RestartJobs ==
    ASSUME NEW r \in Replicas, Restart(r), job = [h \in Handlers |-> job[h]]
    PROVE  Revived(r)
<1> DEFINE here == {h \in Handlers : job[h] # Idle /\ job[h].replica = r}
           down == [h \in Handlers |-> IF h \in here THEN Idle ELSE job[h]]
<1>1. \/ job' = down
      \/ \E h \in Handlers : down[h] = Idle /\ job' = [down EXCEPT ![h] = [at |-> "seed", replica |-> r]]
    BY DEF Restart
<1>2. /\ down = [h \in Handlers |-> down[h]]
      /\ \A h \in Handlers : \/ down[h] = job[h] /\ (job[h] = Idle \/ job[h].replica # r)
                             \/ down[h] = Idle /\ job[h] # Idle /\ job[h].replica = r
    OBVIOUS
<1> HIDE DEF down
<1>3. CASE job' = down
    BY <1>2, <1>3 DEF Revived
<1>4. CASE \E h \in Handlers : down[h] = Idle /\ job' = [down EXCEPT ![h] = [at |-> "seed", replica |-> r]]
    <2>1. PICK h \in Handlers : down[h] = Idle /\ job' = [down EXCEPT ![h] = [at |-> "seed", replica |-> r]]
        BY <1>4
    <2>2. job' = [g \in Handlers |-> job'[g]] /\ job'[h] = [at |-> "seed", replica |-> r]
          /\ \A g \in Handlers : g # h => job'[g] = down[g]
        BY <1>2, <2>1
    <2> QED
        BY <1>2, <2>1, <2>2 DEF Revived
<1> QED
    BY <1>1, <1>3, <1>4

\* A replica that starts again has what the tables have, or the seed.
LEMMA RestartStep ==
    ASSUME Core, Bookkept, NEW r \in Replicas, Restart(r)
    PROVE  Core' /\ Bookkept'
<1>1. PICK s : /\ s \in CM!Hydrated(db) \/ s = CM!seed
               /\ cache' = [cache EXCEPT ![r] = s]
               /\ \/ upset' = [upset EXCEPT ![r] = IF s = CM!Repo!LoadState(db) THEN {} ELSE {"load"}]
                  \/ upset' = [upset EXCEPT ![r] = {"load"}]
    <2>1. CASE \E s \in CM!NewStore(db) :
                 /\ cache' = [cache EXCEPT ![r] = s]
                 /\ upset' = [upset EXCEPT ![r] = IF s = CM!Repo!LoadState(db) THEN {} ELSE {"load"}]
        BY <2>1 DEF CM!NewStore
    <2>2. CASE cache' = [cache EXCEPT ![r] = CM!seed] /\ upset' = [upset EXCEPT ![r] = {"load"}]
        BY <2>2
    <2> QED
        BY Zenon, <2>1, <2>2 DEF Restart
<1>2. Revived(r) /\ db' = db /\ UNCHANGED <<acked, unsaved, said>> /\ ops' \in 0..MaxOps
    <2>1. Revived(r)
        BY RestartJobs DEF Core
    <2>2. db' = db /\ UNCHANGED <<acked, unsaved, said>> /\ Begin
        BY DEF Restart
    <2>3. ops' \in 0..MaxOps
        BY <2>2, ServiceAssumption DEF Bookkept, Begin
    <2> QED
        BY <2>1, <2>2, <2>3
<1>3. /\ CM!IsStore(s) /\ BelowAll(db, s)
      /\ s = CM!Repo!LoadState(db) => MirrorsAll(db, s)
    BY <1>1, HydratedStore DEF Core
<1>4. /\ cache' = [q \in Replicas |-> cache'[q]] /\ cache'[r] = s
      /\ \A q \in Replicas : q # r => cache'[q] = cache[q]
    BY <1>1 DEF Core
<1>5. /\ upset' = [q \in Replicas |-> upset'[q]]
      /\ \A q \in Replicas : q # r => upset'[q] = upset[q]
      /\ upset'[r] \in {{}, {"load"}} /\ (upset'[r] = {} => s = CM!Repo!LoadState(db))
    BY <1>1 DEF Core
<1>6. /\ job' = [h \in Handlers |-> job'[h]]
      /\ \A h \in Handlers : JobOK(job'[h])
      /\ \A h \in Handlers : job'[h].at = "save" => job'[h] = job[h] /\ job[h].replica # r
      /\ \A h \in Handlers : job[h].at = "save" /\ job[h].replica # r => job'[h] = job[h]
      /\ \A h \in Handlers : job'[h].at = "seed" => job'[h] = job[h] \/ job'[h].replica = r
    <2>1. \A h \in Handlers : JobOK(job[h])
        BY DEF Core
    <2>2. JobOK([at |-> "seed", replica |-> r])
        BY DEF JobOK
    <2> QED
        BY <1>2, <2>1, <2>2, IdleOK DEF Revived
<1>7. \A q \in Replicas : q # r => (Saving(q)' <=> Saving(q))
    BY <1>6 DEF Saving
<1>8. Served'
    <2>1. ASSUME NEW q \in Replicas, Covered(q)'
          PROVE  BelowAll(db, cache[q])' /\ ("load" \notin upset'[q] => MirrorsAll(db, cache[q])')
        <3>1. CASE q # r
            <4>1. Covered(q)
                BY <1>5, <1>7, <2>1, <3>1 DEF Covered
            <4>2. BelowAll(db, cache[q]) /\ ("load" \notin upset[q] => MirrorsAll(db, cache[q]))
                BY <4>1 DEF Core, Served
            <4>3. db' = db /\ cache'[q] = cache[q] /\ upset'[q] = upset[q]
                BY <3>1, <1>2, <1>4, <1>5
            <4> QED
                BY <4>2, <4>3 DEF BelowAll, MirrorsAll, Messaged
        <3>2. CASE q = r
            <4>1. db' = db /\ cache'[q] = s /\ ("load" \notin upset'[q] => s = CM!Repo!LoadState(db))
                BY <3>2, <1>2, <1>4, <1>5
            <4>2. BelowAll(db, s) /\ ("load" \notin upset'[q] => MirrorsAll(db, s))
                BY <4>1, <1>3
            <4> QED
                BY <4>1, <4>2 DEF BelowAll, MirrorsAll, Messaged
        <3> QED
            BY <3>1, <3>2
    <2> QED
        BY <2>1 DEF Served
<1>9. SavesKept'
    <2>1. ASSUME NEW g \in Handlers, job'[g].at = "save", "overlap" \notin upset'[job'[g].replica]
          PROVE  Alike(job'[g].copy, cache'[job'[g].replica])
        <3>1. job'[g] = job[g] /\ job[g].replica # r
            BY <1>6, <2>1
        <3>2. job[g].replica \in Replicas
            BY <2>1, <3>1, IdleOK DEF Core, JobOK
        <3>3. Alike(job[g].copy, cache[job[g].replica])
            BY <1>5, <2>1, <3>1, <3>2 DEF Core, SavesKept
        <3> QED
            BY <1>4, <3>1, <3>2, <3>3
    <2> QED
        BY <2>1 DEF SavesKept, Alike
<1>10. \A q \in Replicas : CM!IsStore(cache'[q]) /\ upset'[q] \subseteq Reasons
    BY <1>3, <1>4, <1>5 DEF Core, Reasons
<1>11. CM!Repo!IsDb(db')
    BY <1>2 DEF Core
<1>12. Starting'
    BY <1>6 DEF Core, Starting
<1>13. Core'
    BY <1>4, <1>5, <1>6, <1>8, <1>9, <1>10, <1>11, <1>12 DEF Core
<1> QED
    BY <1>2, <1>13 DEF Bookkept

\* The seed takes the place of the tables, of which no replica knows the rows any longer.
LEMMA SeedWorkspaceStep ==
    ASSUME Core, Bookkept, NEW h \in Handlers, SeedWorkspace(h)
    PROVE  Core' /\ Bookkept'
<1> DEFINE r == job[h].replica
<1>1. job[h].at = "seed" /\ r \in Replicas
    BY IdleOK DEF SeedWorkspace, Core, JobOK
<1>2. PICK o \in CM!Seeded(db) :
          /\ db' = o.db /\ cache' = [cache EXCEPT ![r] = o.store]
          /\ upset' = [q \in Replicas |->
                         IF q # r THEN (IF o.db # db THEN upset[q] \cup {"foreign"} ELSE upset[q])
                         ELSE IF o.store = CM!Repo!LoadState(o.db) THEN {} ELSE {"load"}]
          /\ acked' = IF o.db = db THEN acked ELSE {}
    BY DEF SeedWorkspace
<1>3. /\ job' = [job EXCEPT ![h] = Idle]
      /\ UNCHANGED <<unsaved, said, ops>>
    BY DEF SeedWorkspace
<1>4. /\ CM!Repo!IsDb(o.db) /\ (o.store \in CM!Hydrated(o.db) \/ o.store = CM!seed)
    <2>1. PICK e \in CM!Repo!SaveState(db, CM!seed) :
            \E s \in IF e.err = "ok" THEN CM!Hydrated(e.db) ELSE {CM!seed} : o = [db |-> e.db, store |-> s]
        BY DEF CM!Seeded
    <2>2. CM!Repo!IsDb(e.db)
        BY SeedStore, SaveSound DEF Core
    <2> QED
        BY <2>1, <2>2
<1>5. /\ CM!IsStore(o.store) /\ BelowAll(o.db, o.store)
      /\ o.store = CM!Repo!LoadState(o.db) => MirrorsAll(o.db, o.store)
    BY <1>4, HydratedStore
<1> HIDE DEF r
<1>6. /\ cache' = [q \in Replicas |-> cache'[q]] /\ cache'[r] = o.store
      /\ \A q \in Replicas : q # r => cache'[q] = cache[q]
    BY <1>1, <1>2 DEF Core
<1>7. /\ upset' = [q \in Replicas |-> upset'[q]]
      /\ \A q \in Replicas : q # r => upset'[q] = IF o.db # db THEN upset[q] \cup {"foreign"} ELSE upset[q]
      /\ upset'[r] = IF o.store = CM!Repo!LoadState(o.db) THEN {} ELSE {"load"}
    BY <1>1, <1>2
<1>8. /\ job' = [g \in Handlers |-> job'[g]] /\ job'[h] = Idle
      /\ \A g \in Handlers : g # h => job'[g] = job[g]
    BY <1>3 DEF Core
<1>9. \A q \in Replicas : Saving(q)' <=> Saving(q)
    BY <1>1, <1>8, IdleOK DEF Saving
<1>10. Served'
    <2>1. ASSUME NEW q \in Replicas, Covered(q)'
          PROVE  BelowAll(db, cache[q])' /\ ("load" \notin upset'[q] => MirrorsAll(db, cache[q])')
        <3>1. CASE q # r
            <4>1. db' = db /\ cache'[q] = cache[q] /\ upset'[q] = upset[q]
                BY <1>2, <1>6, <1>7, <2>1, <3>1 DEF Covered
            <4>2. Covered(q)
                BY <1>9, <2>1, <4>1 DEF Covered
            <4>3. BelowAll(db, cache[q]) /\ ("load" \notin upset[q] => MirrorsAll(db, cache[q]))
                BY <4>2 DEF Core, Served
            <4> QED
                BY <4>1, <4>3 DEF BelowAll, MirrorsAll, Messaged
        <3>2. CASE q = r
            <4>1. db' = o.db /\ cache'[q] = o.store /\ ("load" \notin upset'[q] => o.store = CM!Repo!LoadState(o.db))
                BY <3>2, <1>2, <1>6, <1>7
            <4> QED
                BY <1>5, <4>1 DEF BelowAll, MirrorsAll, Messaged
        <3> QED
            BY <3>1, <3>2
    <2> QED
        BY <2>1 DEF Served
<1>11. SavesKept'
    <2>1. ASSUME NEW g \in Handlers, job'[g].at = "save", "overlap" \notin upset'[job'[g].replica]
          PROVE  Alike(job'[g].copy, cache'[job'[g].replica])
        <3>1. job'[g] = job[g]
            BY <1>8, <2>1, IdleOK
        <3>2. job[g].replica \in Replicas /\ job[g].replica # r
            BY <1>1, <2>1, <3>1, IdleOK DEF Core, JobOK, Starting, r
        <3>3. Alike(job[g].copy, cache[job[g].replica])
            BY <1>7, <2>1, <3>1, <3>2 DEF Core, SavesKept
        <3> QED
            BY <1>6, <3>1, <3>2, <3>3
    <2> QED
        BY <2>1 DEF SavesKept, Alike
<1>12. \A q \in Replicas : CM!IsStore(cache'[q]) /\ upset'[q] \subseteq Reasons
    BY <1>5, <1>6, <1>7 DEF Core, Reasons
<1>13. (\A g \in Handlers : JobOK(job'[g])) /\ Starting'
    BY <1>8, IdleOK DEF Core, Starting
<1>14. CM!Repo!IsDb(db')
    BY <1>2, <1>4
<1>15. Core'
    BY <1>6, <1>7, <1>8, <1>10, <1>11, <1>12, <1>13, <1>14 DEF Core
<1> QED
    BY <1>2, <1>3, <1>15 DEF Bookkept

\* Stores that are alike promise the same.
LEMMA AlikeAll ==
    ASSUME NEW d, NEW s, NEW s2, Alike(s, s2), BelowAll(d, s), MirrorsAll(d, s)
    PROVE  BelowAll(d, s2) /\ MirrorsAll(d, s2)
<1>1. /\ \A t \in CM!Repo!Keyed : s[t] = s2[t]
      /\ s.assistance = s2.assistance /\ s.photos = s2.photos
    BY DEF Alike, CM!seed, CM!Repo!Keyed
<1> QED
    BY <1>1 DEF BelowAll, MirrorsAll, Messaged

\* The save of a bulk PUT: the tables become what the copy held, whatever they were.
LEMMA SaveStep ==
    ASSUME Core, Bookkept, NEW h \in Handlers, SaveSnapshot(h)
    PROVE  Core' /\ Bookkept'
<1> DEFINE r == job[h].replica
           copy == job[h].copy
           shared == job[h].shared
<1>1. /\ job[h].at = "save" /\ r \in Replicas
      /\ CM!IsStore(copy) /\ shared \subseteq Shared
    BY IdleOK DEF SaveSnapshot, Core, JobOK
<1>2. PICK o \in CM!bulkSaved(db, copy, cache[r], shared) :
          /\ db' = o.db
          /\ upset' = [q \in Replicas |->
                         IF q # r THEN (IF o.db # db THEN upset[q] \cup {"foreign"} ELSE upset[q])
                         ELSE IF o.err # "ok" THEN upset[r] \cup {"ahead"}
                         ELSE (upset[r] \cap {"overlap"}) \cup {"bulk"}]
          /\ acked' = IF o.db = db THEN acked ELSE {x \in acked : x[1] # "projects"}
          /\ job' = [job EXCEPT ![h] = IF o.err = "ok" THEN [at |-> "record", replica |-> r] ELSE Idle]
    BY DEF SaveSnapshot
<1>3. UNCHANGED <<cache, unsaved, said, ops>>
    BY DEF SaveSnapshot
<1>4. PICK st \in CM!TornStores(copy, cache[r], shared) : o \in CM!Repo!SaveState(db, st)
    BY <1>2 DEF CM!bulkSaved
<1>5. CM!IsStore(st) /\ (Alike(copy, cache[r]) => Alike(st, cache[r]))
    BY <1>1, <1>4, CoreParts, TornStore
<1>6. /\ CM!Repo!IsDb(o.db)
      /\ o.err # "failed" => BelowAll(o.db, st) /\ MirrorsAll(o.db, st)
    BY <1>1, <1>4, <1>5, CoreParts, SaveSound
<1>7. /\ job' = [g \in Handlers |-> job'[g]] /\ JobOK(job'[h]) /\ job'[h].at \notin {"save", "seed"}
      /\ \A g \in Handlers : g # h => job'[g] = job[g]
    <2> DEFINE j == IF o.err = "ok" THEN [at |-> "record", replica |-> r] ELSE Idle
    <2>1. JobOK(j) /\ j.at \notin {"save", "seed"}
        BY <1>1, IdleOK DEF JobOK
    <2> HIDE DEF j
    <2>2. job' = [job EXCEPT ![h] = j]
        BY <1>2 DEF j
    <2> QED
        BY <2>1, <2>2 DEF Core
<1>8. \A q \in Replicas : q # r => (Saving(q)' <=> Saving(q))
    BY <1>7 DEF Saving
<1>9. Served'
    <2>1. ASSUME NEW q \in Replicas, Covered(q)'
          PROVE  BelowAll(db, cache[q])' /\ ("load" \notin upset'[q] => MirrorsAll(db, cache[q])')
        <3>1. CASE q # r
            <4>1. upset'[q] = IF o.db # db THEN upset[q] \cup {"foreign"} ELSE upset[q]
                BY <1>2, <3>1
            <4>2. db' = db /\ cache'[q] = cache[q] /\ upset'[q] = upset[q]
                BY <1>2, <1>3, <2>1, <4>1 DEF Covered
            <4>3. Covered(q)
                BY <1>8, <2>1, <3>1, <4>2 DEF Covered
            <4>4. BelowAll(db, cache[q]) /\ ("load" \notin upset[q] => MirrorsAll(db, cache[q]))
                BY <4>3 DEF Core, Served
            <4> QED
                BY <4>2, <4>4 DEF BelowAll, MirrorsAll, Messaged
        <3>2. CASE q = r
            <4>1. upset'[r] = IF o.err # "ok" THEN upset[r] \cup {"ahead"} ELSE (upset[r] \cap {"overlap"}) \cup {"bulk"}
                BY <1>1, <1>2
            <4>2. o.err = "ok" /\ "overlap" \notin upset[r]
                BY <2>1, <3>2, <4>1 DEF Covered
            <4>3. Alike(st, cache[r])
                BY <1>1, <1>5, <4>2 DEF Core, SavesKept
            <4>4. BelowAll(o.db, cache[r]) /\ MirrorsAll(o.db, cache[r])
                BY <1>6, <4>2, <4>3, AlikeAll
            <4>5. db' = o.db /\ cache'[q] = cache[r]
                BY <1>2, <1>3, <3>2
            <4> QED
                BY <4>4, <4>5 DEF BelowAll, MirrorsAll, Messaged
        <3> QED
            BY <3>1, <3>2
    <2> QED
        BY <2>1 DEF Served
<1>10. SavesKept'
    <2>1. ASSUME NEW g \in Handlers, job'[g].at = "save", "overlap" \notin upset'[job'[g].replica]
          PROVE  Alike(job'[g].copy, cache'[job'[g].replica])
        <3>1. job'[g] = job[g]
            BY <1>7, <2>1
        <3>2. job[g].replica \in Replicas
            BY <2>1, <3>1, IdleOK DEF Core, JobOK
        <3>3. "overlap" \notin upset[job[g].replica]
            BY <1>2, <2>1, <3>1, <3>2
        <3>4. Alike(job[g].copy, cache[job[g].replica])
            BY <2>1, <3>1, <3>3 DEF Core, SavesKept
        <3> QED
            BY <1>3, <3>1, <3>4
    <2> QED
        BY <2>1 DEF SavesKept, Alike
<1>11. upset' = [q \in Replicas |-> upset'[q]] /\ \A q \in Replicas : upset'[q] \subseteq Reasons
    <2>1. \A q \in Replicas : upset[q] \subseteq Reasons
        BY DEF Core
    <2> QED
        BY <1>2, <2>1 DEF Reasons
<1>12. CM!Repo!IsDb(db')
    BY <1>2, <1>6
<1>13. (\A g \in Handlers : JobOK(job'[g])) /\ Starting'
    BY <1>7 DEF Core, Starting
<1>14. Core'
    BY <1>3, <1>7, <1>9, <1>10, <1>11, <1>12, <1>13 DEF Core
<1> QED
    BY <1>2, <1>3, <1>14 DEF Bookkept

\* The invariant holds at the start and is kept by every step.
LEMMA WorkspaceInit ==
    ASSUME Init
    PROVE  Core /\ Bookkept
<1>1. CM!Repo!IsDb(db)
    BY StartAssumption DEF Init
<1>2. CM!IsStore(CM!Repo!LoadState(db)) /\ BelowAll(db, CM!Repo!LoadState(db)) /\ MirrorsAll(db, CM!Repo!LoadState(db))
    BY <1>1, LoadedStore
<1>3. cache = [r \in Replicas |-> cache[r]] /\ \A r \in Replicas : cache[r] = CM!Repo!LoadState(db)
    BY DEF Init
<1>4. upset = [r \in Replicas |-> upset[r]] /\ \A r \in Replicas : upset[r] = {}
    BY DEF Init
<1>5. job = [h \in Handlers |-> job[h]] /\ \A h \in Handlers : job[h] = Idle
    BY DEF Init
<1>6. Served /\ SavesKept /\ Starting
    BY <1>2, <1>3, <1>5, IdleOK DEF Served, SavesKept, Starting
<1>7. Core
    BY <1>1, <1>2, <1>3, <1>4, <1>5, <1>6, IdleOK DEF Core
<1>8. Bookkept
    <2>1. said \in [ContractNos -> Statuses \cup {"Planning", None}]
        BY StartAssumption DEF Init
    <2> QED
        BY <2>1, ServiceAssumption DEF Init, Bookkept
<1> QED
    BY <1>7, <1>8

LEMMA WorkspaceStep ==
    ASSUME Core, Bookkept, [Next]_vars
    PROVE  Core' /\ Bookkept'
<1>1. CASE UNCHANGED vars
    <2>1. Core'
        BY <1>1, JobsSame, QuietStep DEF vars
    <2> QED
        BY <1>1, <2>1 DEF vars, Bookkept
<1>2. CASE ContractNext
    BY <1>2, ZoneStep, ContractPostedStep, PatchBeginsStep, DeleteBeginsStep,
       PatchContractStep, DeleteContractStep, CountZoneStep, PublishStep DEF ContractNext
<1>3. CASE PeopleNext
    BY <1>3, UserStep, ProfileStep, RoleStep DEF PeopleNext
<1>4. CASE RegisterNext
    BY <1>4, EngineerStep, MilestoneStep, MaterialStep DEF RegisterNext
<1>5. CASE TaskNext
    BY <1>5, ProjectStep, TaskStep DEF TaskNext
<1>6. CASE LogNext
    BY <1>6, AppendAuditStep, RingStep, AssistanceStep, ScanStep DEF LogNext
<1>7. CASE BulkNext
    BY <1>7, PutStep, SaveStep, RecordStep, RingStep, RestartStep, SeedWorkspaceStep DEF BulkNext
<1>8. CASE FrontendBulkNext
    BY <1>8, PutStep DEF FrontendBulkNext
<1> QED
    BY <1>1, <1>2, <1>3, <1>4, <1>5, <1>6, <1>7, <1>8 DEF Next

(***************************************************************************)
(* The inductive invariant of the workspace: a replica that nothing upset  *)
(* (Covered) lists rows of the tables and at most the two roles of the     *)
(* seed besides, each once, and all rows as they are stored, and no others *)
(* then, unless it failed to load; a bulk PUT whose save nothing           *)
(* overlapped still holds what its replica serves (store.go: write first,  *)
(* change the cache when the statement was answered).                      *)
(***************************************************************************)
THEOREM WorkspaceInvariant == Spec => [](Core /\ Bookkept)
<1>1. Init => Core /\ Bookkept
    BY WorkspaceInit
<1>2. Core /\ Bookkept /\ [Next]_vars => Core' /\ Bookkept'
    BY WorkspaceStep
<1> QED
    BY <1>1, <1>2, PTL DEF Spec

(***************************************************************************)
(* Every table and every cache holds rows of its kind under their ids,     *)
(* whatever fails, races, is lost or restarts (store.go, entity_repo.go).  *)
(***************************************************************************)
THEOREM WorkspaceTypes == Spec => []TypeOK
<1>1. Core /\ Bookkept => TypeOK
    <2>1. ASSUME Core, Bookkept
          PROVE  TypeOK
        <3>1. \A h \in Handlers : job[h].at \in {"idle", "patch", "drop", "count", "publish", "save", "record", "ring", "seed"}
            BY <2>1, IdleOK DEF Core, JobOK
        <3>2. DOMAIN cache = Replicas
            BY <2>1 DEF Core
        <3> QED
            BY <2>1, <3>1, <3>2 DEF Core, Bookkept, TypeOK, Reasons
    <2> QED
        BY <2>1
<1> QED
    BY <1>1, WorkspaceInvariant, PTL

(***************************************************************************)
(* No replica lists two rows under one id, although ids are the length of  *)
(* a list plus one and come back after a deletion (resources.go): as long  *)
(* as its cache knows of no row the tables lack, the primary key refuses   *)
(* the second one.                                                         *)
(***************************************************************************)
THEOREM IdsStayUnique == Spec => []IdsUnique
<1>1. Core => IdsUnique
    BY DEF Core, Served, BelowAll, Below, IdsUnique
<1> QED
    BY <1>1, WorkspaceInvariant, PTL

\* A list that mirrors a table has the same rows, counts aside.
LEMMA SameRows ==
    ASSUME NEW table, NEW rows, Mirrors(table, rows)
    PROVE  Uncounted(Range(rows)) = Uncounted(Range(table))
<1>1. \A S : Uncounted(S) = {Bare(x) : x \in S}
    BY DEF Uncounted, Bare
<1>2. /\ \A x : x \in Range(rows) <=> \E i \in DOMAIN rows : rows[i] = x
      /\ \A x : x \in Range(table) <=> \E k \in DOMAIN table : table[k] = x
    BY DEF Range
<1>3. ASSUME NEW i \in DOMAIN rows
      PROVE  rows[i].id \in DOMAIN table /\ Bare(rows[i]) = Bare(table[rows[i].id])
    BY DEF Mirrors, CM!Ids
<1>4. ASSUME NEW k \in DOMAIN table
      PROVE  \E i \in DOMAIN rows : Bare(rows[i]) = Bare(table[k])
    <2>1. PICK i \in DOMAIN rows : rows[i].id = k
        BY DEF Mirrors, CM!Ids
    <2> QED
        BY <2>1, <1>3
<1>5. {Bare(x) : x \in Range(rows)} \subseteq {Bare(x) : x \in Range(table)}
    BY <1>2, <1>3
<1>6. {Bare(x) : x \in Range(table)} \subseteq {Bare(x) : x \in Range(rows)}
    BY <1>2, <1>4
<1> QED
    BY <1>1, <1>5, <1>6

(***************************************************************************)
(* A replica that nothing upset answers from what the tables hold          *)
(* (store.go: "the cache never diverges from durable storage").            *)
(***************************************************************************)
THEOREM CachesAgree == Spec => []CacheAgrees
<1>1. Core => CacheAgrees
    <2>1. ASSUME Core, NEW r \in Replicas, InStep(r)
          PROVE  /\ \A t \in CM!Repo!Keyed : Uncounted(Range(cache[r][t])) = Uncounted(Range(db[t]))
                 /\ Range(cache[r].assistance) = Range(db.assistance)
                 /\ cache[r].photos = db.photos
        <3>1. BelowAll(db, cache[r]) /\ MirrorsAll(db, cache[r])
            BY <2>1 DEF InStep, Core, Served
        <3> QED
            BY <3>1, SameRows DEF BelowAll, MirrorsAll, Messaged
    <2> QED
        BY <2>1 DEF CacheAgrees
<1> QED
    BY <1>1, WorkspaceInvariant, PTL

-----------------------------------------------------------------------------
(* Requests of other tables leave the contracts alone. *)

\* An outcome that leaves the contracts alone.
Elsewhere(d, s, o) == o.db.contracts = d.contracts /\ o.store.contracts = s.contracts

\* A statement that leaves the contracts alone.
Away(d, stmts) == \A e \in stmts : e.db.contracts = d.contracts

\* Statements that do not touch the contracts.
LEMMA RanAway ==
    ASSUME NEW d, NEW after, after.contracts = d.contracts
    PROVE  /\ Away(d, CM!Repo!Ran(d, after)) /\ Away(d, CM!Repo!Refused(d)) /\ Away(d, CM!SkipRepo(d))
           /\ \A hit : Away(d, CM!Repo!errOrNotFound(d, hit, after))
BY DEF Away, CM!Repo!Ran, CM!Repo!Refused, CM!Repo!errOrNotFound, CM!Repo!Told, CM!SkipRepo

\* Methods of such statements.
LEMMA AfterAway ==
    ASSUME NEW d, NEW s, NEW stmts, Away(d, stmts), NEW s2, s2.contracts = s.contracts,
           NEW o \in CM!After(s, stmts, s2)
    PROVE  Elsewhere(d, s, o)
BY AfterShape DEF Away, Elsewhere

LEMMA EndsAway ==
    ASSUME NEW d, NEW s, NEW e, NEW o \in CM!Ends(d, s, e)
    PROVE  Elsewhere(d, s, o)
BY DEF CM!Ends, Elsewhere

\* INSERT, UPDATE and DELETE of another table.
LEMMA StatementsAway ==
    ASSUME NEW d, CM!Repo!IsDb(d), NEW t \in Tables \ {"contracts"}, NEW row, NEW id
    PROVE  /\ Away(d, CM!Repo!Insert(d, t, row)) /\ Away(d, CM!Repo!Update(d, t, row))
           /\ Away(d, CM!Repo!Delete(d, t, id))
<1>1. "contracts" \in DOMAIN d /\ t # "contracts"
    BY DbParts, KeyedTables DEF CM!Repo!Keyed
<1>2. \A x : [d EXCEPT ![t] = x].contracts = d.contracts
    BY <1>1
<1>3. [d EXCEPT ![t][row.id] = row].contracts = d.contracts
    BY <1>1
<1> QED
    BY <1>2, <1>3, RanAway DEF CM!Repo!Insert, CM!Repo!Update, CM!Repo!Delete

\* What methods of another table do to its list.
LEMMA GrownAway ==
    ASSUME NEW d, NEW s, CM!IsStore(s), NEW t \in CM!Repo!Keyed \ {"contracts"}, NEW row,
           NEW stmts, Away(d, stmts), NEW o \in CM!Grown(s, t, row, stmts)
    PROVE  Elsewhere(d, s, o)
<1>1. [s EXCEPT ![t] = Append(@, row)].contracts = s.contracts
    BY StoreParts DEF CM!Repo!Keyed
<1> QED
    BY <1>1, AfterAway DEF CM!Grown

LEMMA RewrittenAway ==
    ASSUME NEW d, NEW s, CM!IsStore(s), NEW t \in CM!Repo!Keyed \ {"contracts"}, NEW stmts, Away(d, stmts),
           NEW i, NEW row, NEW o,
           o \in CM!After(s, stmts, [s EXCEPT ![t][i] = row])
    PROVE  Elsewhere(d, s, o)
<1>1. [s EXCEPT ![t][i] = row].contracts = s.contracts
    BY StoreParts DEF CM!Repo!Keyed
<1> QED
    BY <1>1, AfterAway

LEMMA DroppedAway ==
    ASSUME NEW d, NEW s, CM!IsStore(s), NEW t \in CM!Repo!Keyed \ {"contracts"}, NEW stmts, Away(d, stmts),
           NEW i, NEW o,
           o \in CM!After(s, stmts, [s EXCEPT ![t] = CM!RemoveAt(@, i)])
    PROVE  Elsewhere(d, s, o)
<1>1. [s EXCEPT ![t] = CM!RemoveAt(@, i)].contracts = s.contracts
    BY StoreParts DEF CM!Repo!Keyed
<1> QED
    BY <1>1, AfterAway

\* The recount of the zones reads the contracts only.
LEMMA RecalcAway ==
    ASSUME NEW s, "zones" \in DOMAIN s, "contracts" \in DOMAIN s
    PROVE  CM!recalcZoneCounts(s).contracts = s.contracts
BY DEF CM!recalcZoneCounts

\* The methods, one group after another.
LEMMA ZoneAway ==
    ASSUME NEW d, NEW s, CM!Repo!IsDb(d), CM!IsStore(s), NEW z, NEW n, NEW o,
           \/ o \in CM!CreateZone(d, s, z, n)
           \/ o \in CM!PatchZone(d, s, z, n)
           \/ o \in CM!DeleteZone(d, s, z)
    PROVE  Elsewhere(d, s, o)
<1>0. "zones" \in Tables \ {"contracts"} /\ "zones" \in CM!Repo!Keyed \ {"contracts"}
    BY KeyedTables DEF CM!Repo!Keyed
<1>1. CASE o \in CM!CreateZone(d, s, z, n)
    <2> DEFINE row == [id |-> z, name |-> n, count |-> 0]
    <2>1. Away(d, CM!Repo!InsertZone(d, row))
        BY <1>0, StatementsAway DEF CM!Repo!InsertZone
    <2>2. o \in CM!Ends(d, s, "conflict") \/ o \in CM!Grown(s, "zones", row, CM!Repo!InsertZone(d, row))
        BY <1>1 DEF CM!CreateZone
    <2> QED
        BY <1>0, <2>1, <2>2, EndsAway, GrownAway
<1>2. CASE o \in CM!PatchZone(d, s, z, n)
    <2> DEFINE i == CM!Find(s.zones, z)
               named == [s EXCEPT !.zones[i].name = n]
               ahead == CM!recalcZoneCounts(named)
               row == ahead.zones[i]
    <2>1. "zones" \in DOMAIN s /\ "contracts" \in DOMAIN s
        BY StoreParts DEF CM!Repo!Keyed
    <2>2. ahead.contracts = s.contracts
        <3>1. DOMAIN named = DOMAIN s /\ named.contracts = s.contracts
            BY <2>1
        <3> HIDE DEF named
        <3> QED
            BY <2>1, <3>1, RecalcAway
    <2>3. o \in CM!Ends(d, s, "notfound") \/ o \in CM!After(ahead, CM!Repo!UpdateZone(d, row), ahead)
        BY <1>2 DEF CM!PatchZone
    <2> HIDE DEF ahead
    <2>4. Away(d, CM!Repo!UpdateZone(d, row))
        <3>1. [d EXCEPT !.zones[row.id].name = row.name].contracts = d.contracts
            BY <1>0, DbParts
        <3> QED
            BY <3>1, RanAway DEF CM!Repo!UpdateZone
    <2>5. CASE o \in CM!After(ahead, CM!Repo!UpdateZone(d, row), ahead)
        BY <2>2, <2>4, <2>5, AfterAway DEF Elsewhere
    <2> QED
        BY <2>3, <2>5, EndsAway
<1>3. CASE o \in CM!DeleteZone(d, s, z)
    <2> DEFINE i == CM!Find(s.zones, z)
               stmts == CM!Repo!DeleteZone(d, z)
    <2>1. Away(d, stmts)
        BY <1>0, StatementsAway, RanAway DEF CM!Repo!DeleteZone
    <2>2. o \in CM!Ends(d, s, "notfound") \/ o \in CM!After(s, stmts, [s EXCEPT !["zones"] = CM!RemoveAt(@, i)])
        BY <1>3 DEF CM!DeleteZone, CM!Dropped
    <2> HIDE DEF stmts, i
    <2> QED
        BY <1>0, <2>1, <2>2, EndsAway, DroppedAway
<1> QED
    BY <1>1, <1>2, <1>3

LEMMA EngineerAway ==
    ASSUME NEW d, NEW s, CM!Repo!IsDb(d), CM!IsStore(s), NEW id, NEW data, NEW o,
           \/ o \in CM!CreateEngineer(d, s, data)
           \/ o \in CM!PatchEngineer(d, s, id, data)
           \/ o \in CM!DeleteEngineer(d, s, id)
    PROVE  Elsewhere(d, s, o)
<1> DEFINE t == "engineers"
           i == CM!Find(s[t], id)
           row == [id |-> CM!NextId(s[t]), data |-> data]
           new == [s[t][i] EXCEPT !.data = data]
<1>0. t \in Tables \ {"contracts"} /\ t \in CM!Repo!Keyed \ {"contracts"}
    BY KeyedTables DEF CM!Repo!Keyed
<1>1. /\ Away(d, CM!Repo!Insert(d, t, row)) /\ Away(d, CM!Repo!Update(d, t, new))
      /\ Away(d, CM!Repo!Delete(d, t, id))
    BY <1>0, StatementsAway
<1>2. CASE o \in CM!CreateEngineer(d, s, data)
    <2>1. o \in CM!Grown(s, t, row, CM!Repo!Insert(d, t, row))
        BY <1>2 DEF CM!CreateEngineer, CM!Repo!InsertEngineer
    <2> HIDE DEF t, row
    <2> QED
        BY <1>0, <1>1, <2>1, GrownAway
<1>3. CASE o \in CM!PatchEngineer(d, s, id, data)
    <2>1. \/ o \in CM!Ends(d, s, "notfound")
          \/ o \in CM!After(s, CM!Repo!Update(d, t, new), [s EXCEPT ![t][i] = new])
        BY <1>3 DEF CM!PatchEngineer, CM!Rewritten, CM!Repo!UpdateEngineer
    <2> HIDE DEF t, new, i
    <2> QED
        BY <1>0, <1>1, <2>1, EndsAway, RewrittenAway
<1>4. CASE o \in CM!DeleteEngineer(d, s, id)
    <2>1. \/ o \in CM!Ends(d, s, "notfound")
          \/ o \in CM!After(s, CM!Repo!Delete(d, t, id), [s EXCEPT ![t] = CM!RemoveAt(@, i)])
        BY <1>4 DEF CM!DeleteEngineer, CM!Dropped, CM!Repo!DeleteEngineer
    <2> HIDE DEF t, i
    <2> QED
        BY <1>0, <1>1, <2>1, EndsAway, DroppedAway
<1> QED
    BY <1>2, <1>3, <1>4

LEMMA MilestoneAway ==
    ASSUME NEW d, NEW s, CM!Repo!IsDb(d), CM!IsStore(s), NEW id, NEW data, NEW o,
           \/ o \in CM!CreateMilestone(d, s, data)
           \/ o \in CM!PatchMilestone(d, s, id, data)
           \/ o \in CM!DeleteMilestone(d, s, id)
    PROVE  Elsewhere(d, s, o)
<1> DEFINE t == "milestones"
           i == CM!Find(s[t], id)
           row == [id |-> CM!NextId(s[t]), data |-> data]
           new == [s[t][i] EXCEPT !.data = data]
<1>0. t \in Tables \ {"contracts"} /\ t \in CM!Repo!Keyed \ {"contracts"}
    BY KeyedTables DEF CM!Repo!Keyed
<1>1. /\ Away(d, CM!Repo!Insert(d, t, row)) /\ Away(d, CM!Repo!Update(d, t, new))
      /\ Away(d, CM!Repo!Delete(d, t, id))
    BY <1>0, StatementsAway
<1>2. CASE o \in CM!CreateMilestone(d, s, data)
    <2>1. o \in CM!Grown(s, t, row, CM!Repo!Insert(d, t, row))
        BY <1>2 DEF CM!CreateMilestone, CM!Repo!InsertMilestone
    <2> HIDE DEF t, row
    <2> QED
        BY <1>0, <1>1, <2>1, GrownAway
<1>3. CASE o \in CM!PatchMilestone(d, s, id, data)
    <2>1. \/ o \in CM!Ends(d, s, "notfound")
          \/ o \in CM!After(s, CM!Repo!Update(d, t, new), [s EXCEPT ![t][i] = new])
        BY <1>3 DEF CM!PatchMilestone, CM!Rewritten, CM!Repo!UpdateMilestone
    <2> HIDE DEF t, new, i
    <2> QED
        BY <1>0, <1>1, <2>1, EndsAway, RewrittenAway
<1>4. CASE o \in CM!DeleteMilestone(d, s, id)
    <2>1. \/ o \in CM!Ends(d, s, "notfound")
          \/ o \in CM!After(s, CM!Repo!Delete(d, t, id), [s EXCEPT ![t] = CM!RemoveAt(@, i)])
        BY <1>4 DEF CM!DeleteMilestone, CM!Dropped, CM!Repo!DeleteMilestone
    <2> HIDE DEF t, i
    <2> QED
        BY <1>0, <1>1, <2>1, EndsAway, DroppedAway
<1> QED
    BY <1>2, <1>3, <1>4

LEMMA MaterialAway ==
    ASSUME NEW d, NEW s, CM!Repo!IsDb(d), CM!IsStore(s), NEW id, NEW data, NEW o,
           \/ o \in CM!CreateMaterial(d, s, data)
           \/ o \in CM!PatchMaterial(d, s, id, data)
           \/ o \in CM!DeleteMaterial(d, s, id)
    PROVE  Elsewhere(d, s, o)
<1> DEFINE t == "materials"
           i == CM!Find(s[t], id)
           row == [id |-> CM!NextId(s[t]), data |-> data]
           new == [s[t][i] EXCEPT !.data = data]
<1>0. t \in Tables \ {"contracts"} /\ t \in CM!Repo!Keyed \ {"contracts"}
    BY KeyedTables DEF CM!Repo!Keyed
<1>1. /\ Away(d, CM!Repo!Insert(d, t, row)) /\ Away(d, CM!Repo!Update(d, t, new))
      /\ Away(d, CM!Repo!Delete(d, t, id))
    BY <1>0, StatementsAway
<1>2. CASE o \in CM!CreateMaterial(d, s, data)
    <2>1. o \in CM!Grown(s, t, row, CM!Repo!Insert(d, t, row))
        BY <1>2 DEF CM!CreateMaterial, CM!Repo!InsertMaterial
    <2> HIDE DEF t, row
    <2> QED
        BY <1>0, <1>1, <2>1, GrownAway
<1>3. CASE o \in CM!PatchMaterial(d, s, id, data)
    <2>1. \/ o \in CM!Ends(d, s, "notfound")
          \/ o \in CM!After(s, CM!Repo!Update(d, t, new), [s EXCEPT ![t][i] = new])
        BY <1>3 DEF CM!PatchMaterial, CM!Rewritten, CM!Repo!UpdateMaterial
    <2> HIDE DEF t, new, i
    <2> QED
        BY <1>0, <1>1, <2>1, EndsAway, RewrittenAway
<1>4. CASE o \in CM!DeleteMaterial(d, s, id)
    <2>1. \/ o \in CM!Ends(d, s, "notfound")
          \/ o \in CM!After(s, CM!Repo!Delete(d, t, id), [s EXCEPT ![t] = CM!RemoveAt(@, i)])
        BY <1>4 DEF CM!DeleteMaterial, CM!Dropped, CM!Repo!DeleteMaterial
    <2> HIDE DEF t, i
    <2> QED
        BY <1>0, <1>1, <2>1, EndsAway, DroppedAway
<1> QED
    BY <1>2, <1>3, <1>4

LEMMA RoleAway ==
    ASSUME NEW d, NEW s, CM!Repo!IsDb(d), CM!IsStore(s), NEW id, NEW data, NEW o,
           \/ o \in CM!CreateRole(d, s, data)
           \/ o \in CM!PatchRole(d, s, id, data)
           \/ o \in CM!DeleteRole(d, s, id)
    PROVE  Elsewhere(d, s, o)
<1> DEFINE t == "roles"
           i == CM!Find(s[t], id)
           row == [id |-> CM!NextId(s[t]), data |-> data]
           new == [s[t][i] EXCEPT !.data = data]
<1>0. t \in Tables \ {"contracts"} /\ t \in CM!Repo!Keyed \ {"contracts"}
    BY KeyedTables DEF CM!Repo!Keyed
<1>1. /\ Away(d, CM!Repo!Insert(d, t, row)) /\ Away(d, CM!Repo!Update(d, t, new))
    BY <1>0, StatementsAway
<1>2. CASE o \in CM!CreateRole(d, s, data)
    <2>1. o \in CM!Grown(s, t, row, CM!Repo!Insert(d, t, row))
        BY <1>2 DEF CM!CreateRole, CM!Repo!InsertCustomRole
    <2> HIDE DEF t, row
    <2> QED
        BY <1>0, <1>1, <2>1, GrownAway
<1>3. CASE o \in CM!PatchRole(d, s, id, data)
    <2>1. \/ o \in CM!Ends(d, s, "notfound")
          \/ o \in CM!After(s, CM!Repo!Update(d, t, new), [s EXCEPT ![t][i] = new])
        BY <1>3 DEF CM!PatchRole, CM!Rewritten, CM!Repo!UpdateCustomRole
    <2> HIDE DEF t, new, i
    <2> QED
        BY <1>0, <1>1, <2>1, EndsAway, RewrittenAway
<1>4. CASE o \in CM!DeleteRole(d, s, id)
    <2> DEFINE s2 == [s EXCEPT !.roles = CM!RemoveAt(@, i),
                               !.users = [k \in DOMAIN @ |-> IF @[k].role = id THEN [@[k] EXCEPT !.role = None] ELSE @[k]]]
    <2>1. o \in CM!Ends(d, s, "notfound") \/ o \in CM!After(s, CM!Repo!DeleteCustomRole(d, id), s2)
        BY <1>4 DEF CM!DeleteRole
    <2>2. s2.contracts = s.contracts
        BY StoreParts DEF CM!Repo!Keyed
    <2>3. Away(d, CM!Repo!DeleteCustomRole(d, id))
        <3>1. \A x, y : [d EXCEPT !.roles = x, !.users = y].contracts = d.contracts
            BY <1>0, DbParts
        <3> QED
            BY <3>1, RanAway DEF CM!Repo!DeleteCustomRole
    <2> HIDE DEF s2
    <2> QED
        BY <2>1, <2>2, <2>3, EndsAway, AfterAway
<1> QED
    BY <1>2, <1>3, <1>4

LEMMA UserAway ==
    ASSUME NEW d, NEW s, CM!Repo!IsDb(d), CM!IsStore(s), NEW id, NEW email, NEW role, NEW patch, NEW o,
           \/ o \in CM!CreateUser(d, s, email, role)
           \/ o \in CM!PatchUser(d, s, id, patch)
    PROVE  Elsewhere(d, s, o)
<1> DEFINE t == "users"
           i == CM!Find(s[t], id)
           row == [id |-> CM!NextId(s.users), email |-> email, name |-> "given", status |-> "active", role |-> role]
           new == CM!Patched(s[t][i], patch)
<1>0. t \in Tables \ {"contracts"} /\ t \in CM!Repo!Keyed \ {"contracts"}
    BY KeyedTables DEF CM!Repo!Keyed
<1>1. Away(d, CM!Repo!InsertWorkspaceUser(d, row)) /\ Away(d, CM!Repo!UpdateWorkspaceUser(d, new))
    BY <1>0, StatementsAway, RanAway DEF CM!Repo!InsertWorkspaceUser, CM!Repo!UpdateWorkspaceUser
<1>2. CASE o \in CM!CreateUser(d, s, email, role)
    <2>1. \/ o \in CM!Ends(d, s, "conflict")
          \/ o \in CM!Grown(s, t, row, CM!Repo!InsertWorkspaceUser(d, row))
        BY <1>2 DEF CM!CreateUser
    <2> HIDE DEF t, row
    <2> QED
        BY <1>0, <1>1, <2>1, EndsAway, GrownAway
<1>3. CASE o \in CM!PatchUser(d, s, id, patch)
    <2>1. \/ o \in CM!Ends(d, s, "notfound")
          \/ o \in CM!After(s, CM!Repo!UpdateWorkspaceUser(d, new), [s EXCEPT ![t][i] = new])
        BY <1>3 DEF CM!PatchUser, CM!Rewritten
    <2> HIDE DEF t, new, i
    <2> QED
        BY <1>0, <1>1, <2>1, EndsAway, RewrittenAway
<1> QED
    BY <1>2, <1>3

LEMMA ProfileAway ==
    ASSUME NEW d, NEW s, CM!Repo!IsDb(d), CM!IsStore(s), NEW email, NEW name, NEW photo, NEW o,
           \/ o \in CM!PatchProfileForSession(d, s, email, name)
           \/ o \in CM!SetProfilePhoto(d, s, email, photo)
    PROVE  Elsewhere(d, s, o)
<1>1. CASE o \in CM!PatchProfileForSession(d, s, email, name)
    BY <1>1, EndsAway, UserAway DEF CM!PatchProfileForSession
<1>2. CASE o \in CM!SetProfilePhoto(d, s, email, photo)
    <2>1. \A x : [s EXCEPT !.photos = x].contracts = s.contracts
        BY StoreParts DEF CM!Repo!Keyed
    <2>2. \A x : [d EXCEPT !.photos = x].contracts = d.contracts
        BY DbParts, KeyedTables DEF CM!Repo!Keyed
    <2>3. Away(d, CM!Repo!DeleteProfilePhoto(d, email)) /\ Away(d, CM!Repo!UpsertProfilePhoto(d, email, photo))
        BY <2>2, RanAway DEF CM!Repo!DeleteProfilePhoto, CM!Repo!UpsertProfilePhoto
    <2>4. \/ o \in CM!After(s, CM!Repo!DeleteProfilePhoto(d, email), [s EXCEPT !.photos = CM!Repo!Without(@, email)])
          \/ o \in CM!After(s, CM!Repo!UpsertProfilePhoto(d, email, photo), [s EXCEPT !.photos = CM!Repo!With(@, email, photo)])
        BY <1>2 DEF CM!SetProfilePhoto
    <2> QED
        BY <2>1, <2>3, <2>4, AfterAway
<1> QED
    BY <1>1, <1>2

LEMMA ErrAway ==
    ASSUME NEW d, NEW s, NEW outcomes, \A x \in outcomes : Elsewhere(d, s, x),
           NEW o \in {[x EXCEPT !.err = "ok"] : x \in outcomes},
           \A x \in outcomes : DOMAIN x = {"db", "store", "err"}
    PROVE  Elsewhere(d, s, o)
BY DEF Elsewhere

LEMMA LogAway ==
    ASSUME NEW d, NEW s, CM!Repo!IsDb(d), CM!IsStore(s), NEW m, NEW o,
           \/ o \in CM!auditStored(d, s, m)
           \/ o \in CM!PostAssistance(d, s, m)
           \/ o \in CM!SetAiScan(d, s, m)
           \/ o \in CM!persistZoneCount(d, s, m)
    PROVE  Elsewhere(d, s, o)
<1>1. /\ \A x : [d EXCEPT !.audit = x].contracts = d.contracts
      /\ \A x : [d EXCEPT !.assistance = x].contracts = d.contracts
      /\ \A x : [d EXCEPT !.scan = x].contracts = d.contracts
      /\ \A x : [d EXCEPT !.zones[m].count = x].contracts = d.contracts
    BY DbParts, KeyedTables DEF CM!Repo!Keyed
<1>2. /\ \A x : [s EXCEPT !.assistance = x].contracts = s.contracts
      /\ \A x : [s EXCEPT !.scan = x].contracts = s.contracts
    BY StoreParts DEF CM!Repo!Keyed
<1>3. /\ Away(d, CM!Repo!InsertAuditAndTrim(d, m, AuditKeep)) /\ Away(d, CM!Repo!InsertAssistance(d, m))
      /\ Away(d, CM!Repo!UpsertAiScan(d, m)) /\ \A n : Away(d, CM!Repo!UpdateZoneCount(d, m, n))
    BY <1>1, RanAway DEF CM!Repo!InsertAuditAndTrim, CM!Repo!InsertAssistance, CM!Repo!UpsertAiScan,
       CM!Repo!UpdateZoneCount
<1>4. \A stmts, s2 : \A x \in CM!After(s, stmts, s2) : DOMAIN x = {"db", "store", "err"}
    BY DEF CM!After
<1>5. CASE o \in CM!auditStored(d, s, m)
    <2> DEFINE stmts == CM!Repo!InsertAuditAndTrim(d, m, AuditKeep)
    <2>1. o \in {[x EXCEPT !.err = "ok"] : x \in CM!After(s, stmts, s)}
        BY <1>5 DEF CM!auditStored
    <2>2. \A x \in CM!After(s, stmts, s) : Elsewhere(d, s, x)
        BY <1>3, AfterAway
    <2> HIDE DEF stmts
    <2> QED
        BY <1>4, <2>1, <2>2, ErrAway
<1>6. CASE o \in CM!PostAssistance(d, s, m)
    BY <1>2, <1>3, <1>6, AfterAway DEF CM!PostAssistance
<1>7. CASE o \in CM!SetAiScan(d, s, m)
    <2> DEFINE stmts == CM!Repo!UpsertAiScan(d, m)
               s2 == [s EXCEPT !.scan = m]
    <2>1. o \in {[x EXCEPT !.err = "ok"] : x \in CM!After(s, stmts, s2)}
        BY <1>7 DEF CM!SetAiScan
    <2>2. \A x \in CM!After(s, stmts, s2) : Elsewhere(d, s, x)
        BY <1>2, <1>3, AfterAway
    <2> HIDE DEF stmts, s2
    <2> QED
        BY <1>4, <2>1, <2>2, ErrAway
<1>8. CASE o \in CM!persistZoneCount(d, s, m)
    <2> DEFINE stmts == CM!Repo!UpdateZoneCount(d, m, s.zones[CM!Find(s.zones, m)].count)
    <2>1. o \in {[x EXCEPT !.err = "ok"] : x \in CM!After(s, stmts, s)}
        BY <1>8 DEF CM!persistZoneCount
    <2>2. \A x \in CM!After(s, stmts, s) : Elsewhere(d, s, x)
        BY <1>3, AfterAway
    <2> HIDE DEF stmts
    <2> QED
        BY <1>4, <2>1, <2>2, ErrAway
<1> QED
    BY <1>5, <1>6, <1>7, <1>8

LEMMA BoardAway ==
    ASSUME NEW d, NEW s, CM!Repo!IsDb(d), CM!IsStore(s), NEW i, NEW name, NEW o,
           \/ o \in CM!CreateProject(d, s, name)
           \/ o \in CM!PatchProject(d, s, i, name)
           \/ o \in CM!DeleteProject(d, s, i)
    PROVE  Elsewhere(d, s, o)
<1> DEFINE id == s.projects[i].dbid
<1>1. /\ \A x, y : [d EXCEPT !.projects = x, !.serial = y].contracts = d.contracts
      /\ \A x, y : [d EXCEPT !.projects = x, !.tasks = y].contracts = d.contracts
      /\ \A k, x : [d EXCEPT !.projects[k].name = x].contracts = d.contracts
    BY DbParts, KeyedTables DEF CM!Repo!Keyed
<1>2. /\ \A x : [s EXCEPT !.projects = x].contracts = s.contracts
      /\ \A x : [s EXCEPT !.projects[i].name = x].contracts = s.contracts
    BY StoreParts DEF CM!Repo!Keyed
<1>3. /\ Away(d, CM!Repo!InsertTaskProject(d, name)) /\ Away(d, CM!SkipRepo(d))
      /\ Away(d, CM!Repo!UpdateTaskProject(d, id, name)) /\ Away(d, CM!Repo!DeleteTaskProject(d, id))
    BY <1>1, RanAway DEF CM!Repo!InsertTaskProject, CM!Repo!UpdateTaskProject, CM!Repo!DeleteTaskProject
<1>4. CASE o \in CM!CreateProject(d, s, name)
    BY <1>2, <1>3, <1>4, AfterAway DEF CM!CreateProject
<1>5. CASE o \in CM!PatchProject(d, s, i, name)
    BY <1>2, <1>3, <1>5, EndsAway, AfterAway DEF CM!PatchProject, CM!Stored
<1>6. CASE o \in CM!DeleteProject(d, s, i)
    BY <1>2, <1>3, <1>6, EndsAway, AfterAway DEF CM!DeleteProject, CM!Stored
<1> QED
    BY <1>4, <1>5, <1>6

LEMMA ItemAway ==
    ASSUME NEW d, NEW s, CM!Repo!IsDb(d), CM!IsStore(s), NEW i, NEW id, NEW title, NEW o,
           \/ o \in CM!CreateTask(d, s, i, id, title)
           \/ o \in CM!PatchTask(d, s, i, id, title)
           \/ o \in CM!DeleteTask(d, s, i, id)
    PROVE  Elsewhere(d, s, o)
<1> DEFINE p == s.projects[i].dbid
           t == [id |-> id, title |-> title]
           k == CM!Find(s.projects[i].tasks, id)
<1>1. /\ \A x : [d EXCEPT !.tasks = x].contracts = d.contracts
      /\ \A x, y : [d EXCEPT !.tasks[y].title = x].contracts = d.contracts
    BY DbParts, KeyedTables DEF CM!Repo!Keyed
<1>2. /\ \A x : [s EXCEPT !.projects[i].tasks = x].contracts = s.contracts
      /\ \A x, y : [s EXCEPT !.projects[i].tasks[y].title = x].contracts = s.contracts
    BY StoreParts DEF CM!Repo!Keyed
<1>3. /\ Away(d, CM!Repo!InsertTaskItem(d, p, t)) /\ Away(d, CM!SkipRepo(d))
      /\ Away(d, CM!Repo!UpdateTaskItem(d, p, t)) /\ Away(d, CM!Repo!DeleteTaskItem(d, p, id))
    BY <1>1, RanAway DEF CM!Repo!InsertTaskItem, CM!Repo!UpdateTaskItem, CM!Repo!DeleteTaskItem
<1>4. CASE o \in CM!CreateTask(d, s, i, id, title)
    BY <1>2, <1>3, <1>4, EndsAway, AfterAway DEF CM!CreateTask, CM!Stored
<1>5. CASE o \in CM!PatchTask(d, s, i, id, title)
    BY <1>2, <1>3, <1>5, EndsAway, AfterAway DEF CM!PatchTask, CM!Stored
<1>6. CASE o \in CM!DeleteTask(d, s, i, id)
    BY <1>2, <1>3, <1>6, EndsAway, AfterAway DEF CM!DeleteTask, CM!Stored
<1> QED
    BY <1>4, <1>5, <1>6

-----------------------------------------------------------------------------
(* What the status events of a contract are worth.  A contract whose       *)
(* requests raced is left out.  Of the others at most one request is under *)
(* way: until it has written, the consumer believes the status the request *)
(* started from; from its write to its events, the consumer is going to be *)
(* told the stored status.                                                 *)

\* The stored status, None for a contract that is not there.
StatusOf(d, no) == IF no \in DOMAIN d.contracts THEN d.contracts[no].status ELSE None

\* A request about a contract is under way, or about this one.
Engaged(j) == j.at \in {"patch", "drop", "count", "publish"}
Engages(j, no) == Engaged(j) /\ j.no = no

\* What is believed of the contract once tell is out.
Heard(no, tell) == IF tell = None THEN said[no] ELSE IF tell = "gone" THEN None ELSE tell

\* What a request has read and is going to tell fits what is stored.
Fits(j, no) ==
    /\ j.at = "patch" =>
         /\ no \in DOMAIN db.contracts
         /\ db.contracts[no].status = j.previous /\ said[no] = j.previous
         /\ ~CM!sessionCanMutate(j.sess) =>
               ~TouchesPrivilegedFields(j.patch) /\ db.contracts[no].sup = j.sess.sup
    /\ j.at = "drop" => (j.existing <=> no \in DOMAIN db.contracts) /\ said[no] = StatusOf(db, no)
    /\ j.at \in {"count", "publish"} => Heard(no, j.tell) = StatusOf(db, no)

\* What is promised of a contract that nothing raced.
Believed(no) ==
    /\ \A g, h \in Handlers : Engages(job[g], no) /\ Engages(job[h], no) => g = h
    /\ \A h \in Handlers : Engages(job[h], no) => Fits(job[h], no)
    /\ (\A h \in Handlers : ~Engages(job[h], no)) => said[no] = StatusOf(db, no)

\* Contracts that are stored, served, saved or worked on are in ContractNos.
Listed ==
    /\ DOMAIN db.contracts \subseteq ContractNos
    /\ \A r \in Replicas : CM!Ids(cache[r].contracts) \subseteq ContractNos
    /\ \A h \in Handlers : job[h].at = "save" => CM!Ids(job[h].copy.contracts) \subseteq ContractNos
    /\ \A h \in Handlers : Engaged(job[h]) => job[h].no \in ContractNos

\* A save in progress may change any contract.
Followed ==
    /\ (\E h \in Handlers : job[h].at = "save") => ContractNos \subseteq raced
    /\ \A no \in ContractNos \ raced : Believed(no)

\* What is proved invariant with Core.
FollowInv == Listed /\ Followed

\* A handler that is still where it was with the contract.
GoesOn(j, k) ==
    \/ k = j
    \/ ~Engaged(j) /\ ~Engaged(k) /\ k.at # "save"
    \/ {j.at, k.at} \subseteq {"count", "publish"} /\ k.no = j.no /\ k.tell = j.tell

\* A step that has nothing to do with contracts keeps it.
Aside ==
    /\ UNCHANGED <<raced, said>> /\ db'.contracts = db.contracts
    /\ \A q \in Replicas : cache'[q].contracts = cache[q].contracts
    /\ \A h \in Handlers : GoesOn(job[h], job'[h])

LEMMA GoesOnEngages ==
    ASSUME NEW j, NEW k, GoesOn(j, k), NEW no
    PROVE  /\ Engages(k, no) <=> Engages(j, no)
           /\ Engages(j, no) => \/ k = j
                                \/ j.at \in {"count", "publish"} /\ k.at \in {"count", "publish"} /\ k.tell = j.tell
           /\ k.at = "save" => k = j
BY DEF GoesOn, Engages, Engaged

LEMMA AsideStep ==
    ASSUME FollowInv, Aside
    PROVE  FollowInv'
<1>1. Listed'
    <2>1. DOMAIN db'.contracts \subseteq ContractNos
        BY DEF FollowInv, Listed, Aside
    <2>2. \A r \in Replicas : CM!Ids(cache'[r].contracts) \subseteq ContractNos
        BY DEF FollowInv, Listed, Aside
    <2>3. \A h \in Handlers : job'[h].at = "save" => CM!Ids(job'[h].copy.contracts) \subseteq ContractNos
        BY GoesOnEngages DEF FollowInv, Listed, Aside
    <2>4. \A h \in Handlers : Engaged(job'[h]) => job'[h].no \in ContractNos
        BY DEF FollowInv, Listed, Aside, GoesOn, Engaged
    <2> QED
        BY <2>1, <2>2, <2>3, <2>4 DEF Listed
<1>2. (\E h \in Handlers : job'[h].at = "save") => ContractNos \subseteq raced'
    BY GoesOnEngages DEF FollowInv, Followed, Aside
<1>3. ASSUME NEW no \in ContractNos \ raced'
      PROVE  Believed(no)'
    <2>1. Believed(no) /\ said'[no] = said[no] /\ db'.contracts = db.contracts
        BY DEF FollowInv, Followed, Aside
    <2>2. \A h \in Handlers : Engages(job'[h], no) <=> Engages(job[h], no)
        BY GoesOnEngages DEF Aside
    <2>3. ASSUME NEW h \in Handlers, Engages(job'[h], no)
          PROVE  Fits(job[h], no)'
        <3>1. Fits(job[h], no)
            BY <2>1, <2>2, <2>3 DEF Believed
        <3>2. job'[h] = job[h] \/ (/\ job[h].at \in {"count", "publish"} /\ job'[h].at \in {"count", "publish"}
                                   /\ job'[h].tell = job[h].tell)
            BY <2>2, <2>3, GoesOnEngages DEF Aside
        <3> QED
            BY <2>1, <3>1, <3>2 DEF Fits, Heard, StatusOf
    <2>4. \A g, h \in Handlers : Engages(job'[g], no) /\ Engages(job'[h], no) => g = h
        BY <2>1, <2>2 DEF Believed
    <2>5. (\A h \in Handlers : ~Engages(job'[h], no)) => said'[no] = StatusOf(db', no)
        <3>1. StatusOf(db', no) = StatusOf(db, no)
            BY <2>1 DEF StatusOf
        <3> QED
            BY <2>1, <2>2, <3>1 DEF Believed
    <2> QED
        BY <2>3, <2>4, <2>5 DEF Believed
<1> QED
    BY <1>1, <1>2, <1>3 DEF FollowInv, Followed

\* Requests of other tables are such steps.
LEMMA CommitAside ==
    ASSUME Core, NEW r \in Replicas, NEW o, NEW excuse, Elsewhere(db, cache[r], o), Commit(r, o, excuse)
    PROVE  /\ db'.contracts = db.contracts
           /\ \A q \in Replicas : cache'[q].contracts = cache[q].contracts
BY DEF Core, Commit, Elsewhere

LEMMA DidAside ==
    ASSUME Core, NEW r \in Replicas, NEW o, NEW excuse, Elsewhere(db, cache[r], o), Did(r, o, excuse)
    PROVE  Aside
<1>1. Commit(r, o, excuse) /\ UNCHANGED <<job, raced, said>>
    BY DEF Did
<1> QED
    BY <1>1, CommitAside DEF Aside, GoesOn

LEMMA RequestsAside ==
    ASSUME Core, NEW r \in Replicas, NEW outcomes, \A o \in outcomes : Elsewhere(db, cache[r], o), NEW t, NEW id,
           Create(r, t, outcomes) \/ Change(r, outcomes) \/ Destroy(r, t, id, outcomes)
    PROVE  Aside
<1>1. PICK o \in outcomes : Did(r, o, {})
    BY DEF Create, Change, Destroy, Request, Did, NoExcuse
<1> QED
    BY <1>1, DidAside

LEMMA ZoneAsideStep ==
    ASSUME Core, NEW r \in Replicas, ZoneRequests(r)
    PROVE  Aside
<1>1. CM!Repo!IsDb(db) /\ CM!IsStore(cache[r])
    BY CoreParts
<1>2. ASSUME NEW z \in ZoneCodes, NEW n \in Data, Create(r, "zones", CM!CreateZone(db, cache[r], z, n))
      PROVE  Aside
    <2>1. \A o \in CM!CreateZone(db, cache[r], z, n) : Elsewhere(db, cache[r], o)
        BY <1>1, ZoneAway
    <2> QED
        BY <1>2, <2>1, RequestsAside
<1>3. ASSUME NEW z \in ZoneCodes, NEW n \in Data,
             Request(r, CM!PatchZone(db, cache[r], z, n),
                     LAMBDA o : IF o.err = "ok" THEN {} ELSE {"ahead"}, Keeps)
      PROVE  Aside
    <2>1. PICK o \in CM!PatchZone(db, cache[r], z, n) : Did(r, o, IF o.err = "ok" THEN {} ELSE {"ahead"})
        BY <1>3 DEF Request, Did
    <2>2. Elsewhere(db, cache[r], o)
        BY <1>1, <2>1, ZoneAway
    <2> QED
        BY <2>1, <2>2, DidAside
<1>4. ASSUME NEW z \in ZoneCodes, Destroy(r, "zones", z, CM!DeleteZone(db, cache[r], z))
      PROVE  Aside
    <2>1. \A o \in CM!DeleteZone(db, cache[r], z) : Elsewhere(db, cache[r], o)
        BY <1>1, ZoneAway
    <2> QED
        BY <1>4, <2>1, RequestsAside
<1> QED
    BY <1>2, <1>3, <1>4 DEF ZoneRequests

LEMMA EngineerAsideStep ==
    ASSUME Core, NEW r \in Replicas, EngineerRequests(r)
    PROVE  Aside
<1>1. CM!Repo!IsDb(db) /\ CM!IsStore(cache[r])
    BY CoreParts
<1>2. ASSUME NEW x \in Data, Create(r, "engineers", CM!CreateEngineer(db, cache[r], x))
      PROVE  Aside
    <2>1. \A o \in CM!CreateEngineer(db, cache[r], x) : Elsewhere(db, cache[r], o)
        BY <1>1, EngineerAway
    <2> QED
        BY <1>2, <2>1, RequestsAside
<1>3. ASSUME NEW i \in CM!Ids(cache[r].engineers), NEW x \in Data, Change(r, CM!PatchEngineer(db, cache[r], i, x))
      PROVE  Aside
    <2>1. \A o \in CM!PatchEngineer(db, cache[r], i, x) : Elsewhere(db, cache[r], o)
        BY <1>1, EngineerAway
    <2> QED
        BY <1>3, <2>1, RequestsAside
<1>4. ASSUME NEW i \in CM!Ids(cache[r].engineers), Destroy(r, "engineers", i, CM!DeleteEngineer(db, cache[r], i))
      PROVE  Aside
    <2>1. \A o \in CM!DeleteEngineer(db, cache[r], i) : Elsewhere(db, cache[r], o)
        BY <1>1, EngineerAway
    <2> QED
        BY <1>4, <2>1, RequestsAside
<1> QED
    BY <1>2, <1>3, <1>4 DEF EngineerRequests

LEMMA MilestoneAsideStep ==
    ASSUME Core, NEW r \in Replicas, MilestoneRequests(r)
    PROVE  Aside
<1>1. CM!Repo!IsDb(db) /\ CM!IsStore(cache[r])
    BY CoreParts
<1>2. ASSUME NEW x \in Data, Create(r, "milestones", CM!CreateMilestone(db, cache[r], x))
      PROVE  Aside
    <2>1. \A o \in CM!CreateMilestone(db, cache[r], x) : Elsewhere(db, cache[r], o)
        BY <1>1, MilestoneAway
    <2> QED
        BY <1>2, <2>1, RequestsAside
<1>3. ASSUME NEW i \in CM!Ids(cache[r].milestones), NEW x \in Data, Change(r, CM!PatchMilestone(db, cache[r], i, x))
      PROVE  Aside
    <2>1. \A o \in CM!PatchMilestone(db, cache[r], i, x) : Elsewhere(db, cache[r], o)
        BY <1>1, MilestoneAway
    <2> QED
        BY <1>3, <2>1, RequestsAside
<1>4. ASSUME NEW i \in CM!Ids(cache[r].milestones), Destroy(r, "milestones", i, CM!DeleteMilestone(db, cache[r], i))
      PROVE  Aside
    <2>1. \A o \in CM!DeleteMilestone(db, cache[r], i) : Elsewhere(db, cache[r], o)
        BY <1>1, MilestoneAway
    <2> QED
        BY <1>4, <2>1, RequestsAside
<1> QED
    BY <1>2, <1>3, <1>4 DEF MilestoneRequests

LEMMA MaterialAsideStep ==
    ASSUME Core, NEW r \in Replicas, MaterialRequests(r)
    PROVE  Aside
<1>1. CM!Repo!IsDb(db) /\ CM!IsStore(cache[r])
    BY CoreParts
<1>2. ASSUME NEW x \in Data, Create(r, "materials", CM!CreateMaterial(db, cache[r], x))
      PROVE  Aside
    <2>1. \A o \in CM!CreateMaterial(db, cache[r], x) : Elsewhere(db, cache[r], o)
        BY <1>1, MaterialAway
    <2> QED
        BY <1>2, <2>1, RequestsAside
<1>3. ASSUME NEW i \in CM!Ids(cache[r].materials), NEW x \in Data, Change(r, CM!PatchMaterial(db, cache[r], i, x))
      PROVE  Aside
    <2>1. \A o \in CM!PatchMaterial(db, cache[r], i, x) : Elsewhere(db, cache[r], o)
        BY <1>1, MaterialAway
    <2> QED
        BY <1>3, <2>1, RequestsAside
<1>4. ASSUME NEW i \in CM!Ids(cache[r].materials), Destroy(r, "materials", i, CM!DeleteMaterial(db, cache[r], i))
      PROVE  Aside
    <2>1. \A o \in CM!DeleteMaterial(db, cache[r], i) : Elsewhere(db, cache[r], o)
        BY <1>1, MaterialAway
    <2> QED
        BY <1>4, <2>1, RequestsAside
<1> QED
    BY <1>2, <1>3, <1>4 DEF MaterialRequests

LEMMA RoleAsideStep ==
    ASSUME Core, NEW r \in Replicas, RoleRequests(r)
    PROVE  Aside
<1>1. CM!Repo!IsDb(db) /\ CM!IsStore(cache[r])
    BY CoreParts
<1>2. ASSUME NEW x \in Data, Create(r, "roles", CM!CreateRole(db, cache[r], x))
      PROVE  Aside
    <2>1. \A o \in CM!CreateRole(db, cache[r], x) : Elsewhere(db, cache[r], o)
        BY <1>1, RoleAway
    <2> QED
        BY <1>2, <2>1, RequestsAside
<1>3. ASSUME NEW i \in CM!Ids(cache[r].roles), NEW x \in Data, Change(r, CM!PatchRole(db, cache[r], i, x))
      PROVE  Aside
    <2>1. \A o \in CM!PatchRole(db, cache[r], i, x) : Elsewhere(db, cache[r], o)
        BY <1>1, RoleAway
    <2> QED
        BY <1>3, <2>1, RequestsAside
<1>4. ASSUME NEW i \in CM!Ids(cache[r].roles), Destroy(r, "roles", i, CM!DeleteRole(db, cache[r], i))
      PROVE  Aside
    <2>1. \A o \in CM!DeleteRole(db, cache[r], i) : Elsewhere(db, cache[r], o)
        BY <1>1, RoleAway
    <2> QED
        BY <1>4, <2>1, RequestsAside
<1> QED
    BY <1>2, <1>3, <1>4 DEF RoleRequests

LEMMA UserAsideStep ==
    ASSUME Core, NEW r \in Replicas, UserRequests(r)
    PROVE  Aside
<1>1. CM!Repo!IsDb(db) /\ CM!IsStore(cache[r])
    BY CoreParts
<1>2. ASSUME NEW e \in Emails, NEW ro \in RoleIds \cup {None}, Create(r, "users", CM!CreateUser(db, cache[r], e, ro))
      PROVE  Aside
    <2>1. \A o \in CM!CreateUser(db, cache[r], e, ro) : Elsewhere(db, cache[r], o)
        BY <1>1, UserAway
    <2> QED
        BY <1>2, <2>1, RequestsAside
<1>3. ASSUME NEW i, NEW patch, Change(r, CM!PatchUser(db, cache[r], i, patch))
      PROVE  Aside
    <2>1. \A o \in CM!PatchUser(db, cache[r], i, patch) : Elsewhere(db, cache[r], o)
        BY <1>1, UserAway
    <2> QED
        BY <1>3, <2>1, RequestsAside
<1> QED
    BY <1>2, <1>3 DEF UserRequests, CM!DeactivateUser

LEMMA ProfileAsideStep ==
    ASSUME Core, NEW r \in Replicas, ProfileRequests(r)
    PROVE  Aside
<1>1. CM!Repo!IsDb(db) /\ CM!IsStore(cache[r])
    BY CoreParts
<1>2. ASSUME NEW e \in Emails, Change(r, CM!PatchProfileForSession(db, cache[r], e, "own"))
      PROVE  Aside
    <2>1. \A o \in CM!PatchProfileForSession(db, cache[r], e, "own") : Elsewhere(db, cache[r], o)
        BY <1>1, ProfileAway
    <2> QED
        BY <1>2, <2>1, RequestsAside
<1>3. ASSUME NEW e \in Emails, NEW p \in Data \cup {None}, Change(r, CM!SetProfilePhoto(db, cache[r], e, p))
      PROVE  Aside
    <2>1. \A o \in CM!SetProfilePhoto(db, cache[r], e, p) : Elsewhere(db, cache[r], o)
        BY <1>1, ProfileAway
    <2> QED
        BY <1>3, <2>1, RequestsAside
<1> QED
    BY <1>2, <1>3 DEF ProfileRequests

LEMMA ProjectAsideStep ==
    ASSUME Core, NEW r \in Replicas, ProjectRequests(r)
    PROVE  Aside
<1>1. CM!Repo!IsDb(db) /\ CM!IsStore(cache[r])
    BY CoreParts
<1>2. CASE \E x \in Data : \E o \in CM!CreateProject(db, cache[r], x) : Did(r, o, {})
    BY <1>1, <1>2, BoardAway, DidAside
<1>3. CASE \E i \in DOMAIN cache[r].projects : \E x \in Data :
             Change(r, CM!PatchProject(db, cache[r], i, x))
    <2>1. PICK i \in DOMAIN cache[r].projects, x \in Data : Change(r, CM!PatchProject(db, cache[r], i, x))
        BY <1>3
    <2>2. \A o \in CM!PatchProject(db, cache[r], i, x) : Elsewhere(db, cache[r], o)
        BY <1>1, BoardAway
    <2> QED
        BY <2>1, <2>2, RequestsAside
<1>4. CASE \E i \in DOMAIN cache[r].projects : \E o \in CM!DeleteProject(db, cache[r], i) : Did(r, o, {})
    BY <1>1, <1>4, BoardAway, DidAside
<1> QED
    BY <1>2, <1>3, <1>4 DEF ProjectRequests, Request, Did, NoExcuse

LEMMA TaskAsideStep ==
    ASSUME Core, NEW r \in Replicas, TaskRequests(r)
    PROVE  Aside
<1>1. CM!Repo!IsDb(db) /\ CM!IsStore(cache[r])
    BY CoreParts
<1>2. CASE \E i \in DOMAIN cache[r].projects : \E t \in TaskIds, x \in Data :
             \E o \in CM!CreateTask(db, cache[r], i, t, x) : Did(r, o, {})
    BY <1>1, <1>2, ItemAway, DidAside
<1>3. CASE \E i \in DOMAIN cache[r].projects : \E t \in CM!Ids(ProjectAt(r, i).tasks), x \in Data :
             Change(r, CM!PatchTask(db, cache[r], i, t, x))
    <2>1. PICK i, t, x : Change(r, CM!PatchTask(db, cache[r], i, t, x))
        BY <1>3
    <2>2. \A o \in CM!PatchTask(db, cache[r], i, t, x) : Elsewhere(db, cache[r], o)
        BY <1>1, ItemAway
    <2> QED
        BY <2>1, <2>2, RequestsAside
<1>4. CASE \E i \in DOMAIN cache[r].projects : \E t \in CM!Ids(ProjectAt(r, i).tasks) :
             \E o \in CM!DeleteTask(db, cache[r], i, t) : Did(r, o, {})
    BY <1>1, <1>4, ItemAway, DidAside
<1> QED
    BY <1>2, <1>3, <1>4 DEF TaskRequests, Request, Did, NoExcuse

LEMMA MessageAsideStep ==
    ASSUME Core, NEW r \in Replicas, PostAssistance(r) \/ PutAiScan(r)
    PROVE  Aside
<1>1. CM!Repo!IsDb(db) /\ CM!IsStore(cache[r])
    BY CoreParts
<1>2. CASE PostAssistance(r)
    <2>1. PICK m \in Messages : Change(r, CM!PostAssistance(db, cache[r], m))
        BY <1>2 DEF PostAssistance
    <2>2. \A o \in CM!PostAssistance(db, cache[r], m) : Elsewhere(db, cache[r], o)
        BY <1>1, LogAway
    <2> QED
        BY <2>1, <2>2, RequestsAside
<1>3. CASE PutAiScan(r)
    <2>1. PICK x \in Data :
            Request(r, CM!SetAiScan(db, cache[r], x),
                    LAMBDA o : IF o.db.scan = o.store.scan THEN {} ELSE {"dropped"}, Keeps)
        BY <1>3 DEF PutAiScan
    <2>2. PICK o \in CM!SetAiScan(db, cache[r], x) :
            Did(r, o, IF o.db.scan = o.store.scan THEN {} ELSE {"dropped"})
        BY <2>1 DEF Request, Did
    <2> QED
        BY <1>1, <2>2, LogAway, DidAside
<1> QED
    BY <1>2, <1>3

\* So are audit entries.
LEMMA EntryAside ==
    ASSUME Core, NEW h \in Handlers, NEW r \in Replicas, ~Engaged(job[h]), StoreEntry(h, r),
           UNCHANGED <<raced, said>>
    PROVE  Aside
<1> DEFINE j == [at |-> "ring", replica |-> r, entry |-> NextEntry]
<1>1. PICK o \in CM!auditStored(db, cache[r], NextEntry) :
        /\ Commit(r, o, IF NextEntry \in Range(o.db.audit) THEN {} ELSE {"dropped"})
        /\ job' = [job EXCEPT ![h] = j]
    BY DEF StoreEntry
<1>2. ~Engaged(j) /\ j.at # "save"
    BY DEF Engaged
<1> HIDE DEF j
<1>3. \A g \in Handlers : GoesOn(job[g], job'[g])
    BY <1>1, <1>2 DEF Core, GoesOn
<1>4. Elsewhere(db, cache[r], o)
    BY <1>1, CoreParts, LogAway
<1> QED
    BY <1>1, <1>3, <1>4, CommitAside DEF Aside

LEMMA AuditAsideStep ==
    ASSUME Core, NEW h \in Handlers,
           (\E r \in Replicas : AppendAudit(h, r)) \/ RecordBulkReplace(h) \/ AuditRing(h)
    PROVE  Aside
<1>1. CASE \E r \in Replicas : AppendAudit(h, r)
    <2>1. PICK r \in Replicas : AppendAudit(h, r)
        BY <1>1
    <2>2. StoreEntry(h, r) /\ UNCHANGED <<raced, said>> /\ ~Engaged(job[h])
        BY <2>1, IdleOK DEF AppendAudit, history, Engaged
    <2> QED
        BY <2>2, EntryAside
<1>2. CASE RecordBulkReplace(h)
    <2>1. StoreEntry(h, job[h].replica) /\ UNCHANGED <<raced, said>> /\ ~Engaged(job[h])
        BY <1>2 DEF RecordBulkReplace, history, Engaged
    <2>2. job[h].replica \in Replicas
        BY <1>2, IdleOK DEF RecordBulkReplace, Core, JobOK
    <2> QED
        BY <2>1, <2>2, EntryAside
<1>3. CASE AuditRing(h)
    <2> DEFINE r == job[h].replica
               s2 == CM!auditRing(cache[r], job[h].entry)
    <2>1. /\ cache' = [cache EXCEPT ![r] = s2]
          /\ job[h].at = "ring" /\ job' = [job EXCEPT ![h] = Idle]
          /\ UNCHANGED <<db, raced, said>>
        BY <1>3 DEF AuditRing, history
    <2>2. r \in Replicas
        BY <2>1, IdleOK DEF Core, JobOK
    <2>3. s2.contracts = cache[r].contracts
        BY <2>2, CoreParts, StoreParts DEF CM!auditRing, CM!Repo!Keyed
    <2>4. ~Engaged(job[h]) /\ ~Engaged(Idle) /\ Idle.at # "save"
        BY <2>1, IdleOK DEF Engaged
    <2> HIDE DEF s2, r
    <2>5. \A q \in Replicas : cache'[q].contracts = cache[q].contracts
        BY <2>1, <2>2, <2>3 DEF Core
    <2>6. \A g \in Handlers : GoesOn(job[g], job'[g])
        BY <2>1, <2>4 DEF Core, GoesOn
    <2> QED
        BY <2>1, <2>5, <2>6 DEF Aside
<1> QED
    BY <1>1, <1>2, <1>3

\* And the zone counts of a contract mutation.
LEMMA CountAsideStep ==
    ASSUME Core, NEW h \in Handlers, CountZone(h)
    PROVE  Aside
<1> DEFINE j == job[h]
           r == j.replica
           z == Head(j.zones)
           at == IF Len(j.zones) = 1 THEN "publish" ELSE "count"
<1>1. /\ j.at = "count" /\ r \in Replicas
      /\ DOMAIN j = {"at", "replica", "no", "zones", "tell"}
    BY IdleOK DEF CountZone, Core, JobOK
<1>2. PICK o \in CM!persistZoneCount(db, cache[r], z) : Commit(r, o, {})
    BY DEF CountZone
<1>3. job' = [job EXCEPT ![h].zones = Tail(@), ![h].at = at] /\ UNCHANGED <<raced, said>>
    BY DEF CountZone
<1>4. \A g \in Handlers : GoesOn(job[g], job'[g])
    <2>1. PICK k : k = [j EXCEPT !.zones = Tail(@), !.at = at]
        OBVIOUS
    <2>2. job' = [job EXCEPT ![h] = k]
        BY <1>3, <2>1 DEF Core
    <2>3. k.at \in {"count", "publish"} /\ k.no = j.no /\ k.tell = j.tell
        BY <1>1, <2>1
    <2>4. GoesOn(j, k)
        BY <1>1, <2>3 DEF GoesOn
    <2> HIDE DEF at
    <2> QED
        BY <2>2, <2>4 DEF Core, GoesOn
<1>5. Elsewhere(db, cache[r], o)
    BY <1>1, <1>2, CoreParts, LogAway
<1> QED
    BY <1>1, <1>2, <1>3, <1>4, <1>5, CommitAside DEF Aside

-----------------------------------------------------------------------------
(* What the contract methods write. *)

\* An outcome that wrote nothing, or these contracts.
Unwritten(d, o) == o.db = d /\ o.err \notin {"ok", "lost"}
Written(o, after) == o.db.contracts = after /\ o.err \in {"ok", "lost"}

\* A method whose statement ran has written, whether or not it was answered.
LEMMA AfterWritten ==
    ASSUME NEW d, NEW s, NEW d2, NEW s2, NEW stmts, Statement(d, d2, stmts), NEW o \in CM!After(s, stmts, s2)
    PROVE  /\ Unwritten(d, o) \/ (o.db = d2 /\ o.err \in {"ok", "lost"})
           /\ o.store \in {s, s2}
BY DEF Statement, CM!After, CM!wrapPersist, Unwritten

\* A method whose statement missed has not.
LEMMA AfterUnwritten ==
    ASSUME NEW d, NEW s, NEW s2, NEW stmts, Missed(d, stmts), NEW o \in CM!After(s, stmts, s2)
    PROVE  Unwritten(d, o) /\ o.store \in {s, s2}
BY DEF Missed, CM!After, CM!wrapPersist, Unwritten

LEMMA EndsUnwritten ==
    ASSUME NEW d, NEW s, NEW e \in {"conflict", "notfound"}, NEW o \in CM!Ends(d, s, e)
    PROVE  Unwritten(d, o) /\ o.store = s
BY DEF CM!Ends, Unwritten

\* The ids of a list with a row more, or less.
LEMMA AppendIds ==
    ASSUME NEW t \in Kinds, NEW rows, CM!Repo!IsList(t, rows), NEW x, CM!Repo!IsRow(t, x)
    PROVE  CM!Ids(Append(rows, x)) \subseteq CM!Ids(rows) \cup {x.id}
<1>1. /\ DOMAIN Append(rows, x) = 1..(Len(rows) + 1)
      /\ \A i \in 1..Len(rows) : Append(rows, x)[i] = rows[i]
      /\ Append(rows, x)[Len(rows) + 1] = x
    BY ListAppend
<1>2. DOMAIN rows = 1..Len(rows) /\ Len(rows) \in Nat
    BY ListSeq
<1> QED
    BY <1>1, <1>2 DEF CM!Ids

LEMMA RemoveAtIds ==
    ASSUME NEW t \in Kinds, NEW rows, CM!Repo!IsList(t, rows), NEW i \in DOMAIN rows
    PROVE  CM!Ids(CM!RemoveAt(rows, i)) \subseteq CM!Ids(rows)
<1>1. /\ DOMAIN CM!RemoveAt(rows, i) = 1..(Len(rows) - 1)
      /\ \A k \in 1..(Len(rows) - 1) :
                CM!RemoveAt(rows, i)[k] = IF k < i THEN rows[k] ELSE rows[k + 1]
    BY ListRemoveAt
<1>2. DOMAIN rows = 1..Len(rows) /\ Len(rows) \in Nat
    BY ListSeq
<1> QED
    BY <1>1, <1>2 DEF CM!Ids

\* What the methods of contracts write and list.
LEMMA CreateContractWrites ==
    ASSUME NEW d, NEW s, CM!Repo!IsDb(d), CM!IsStore(s),
           NEW no \in Int, NEW z, NEW sup, NEW st, NEW rep, NEW o,
           o \in CM!CreateContract(d, s, [id |-> no, zone |-> z, sup |-> sup, status |-> st, report |-> rep])
    PROVE  /\ \/ Unwritten(d, o)
              \/ \E c : /\ c.status = CM!defaultStatus(st)
                        /\ Written(o, CM!Repo!With(d.contracts, no, c))
           /\ CM!Ids(o.store.contracts) \subseteq CM!Ids(s.contracts) \cup {no}
<1> DEFINE c == [id |-> no, zone |-> z, sup |-> sup, status |-> CM!defaultStatus(st), report |-> rep]
           rows == Append(s.contracts, c)
           s1 == [s EXCEPT !.contracts = rows]
           s2 == CM!recalcZoneCounts(s1)
           stmts == CM!Repo!InsertContract(d, c)
           table == CM!Repo!With(d.contracts, no, c)
           d2 == [d EXCEPT !.contracts = table]
<1>0. /\ "contracts" \in CM!Repo!Keyed /\ CM!Repo!IsRow("contracts", c) /\ c.id = no
      /\ c.status = CM!defaultStatus(st)
    BY ContractRow
<1>1. o \in CM!insertContract(d, s, c)
    <2>1. [[id |-> no, zone |-> z, sup |-> sup, status |-> st, report |-> rep]
             EXCEPT !.status = CM!defaultStatus(@)] = c
        OBVIOUS
    <2> QED
        BY <2>1 DEF CM!CreateContract
<1>2. CASE CM!Find(s.contracts, no) # 0
    BY <1>1, <1>2, EndsUnwritten DEF CM!insertContract
<1>3. CASE CM!Find(s.contracts, no) = 0
    <2>1. o \in CM!After(s, stmts, s2)
        BY <1>1, <1>3 DEF CM!insertContract
    <2>2. Missed(d, stmts) \/ Statement(d, d2, stmts)
        <3>1. stmts = CM!Repo!Refused(d) \/ stmts = CM!Repo!Ran(d, d2)
            BY <1>0 DEF CM!Repo!InsertContract, CM!Repo!Insert
        <3> HIDE DEF stmts, d2
        <3> QED
            BY <3>1, RanStatement, RefusedMissed
    <2>3. d2.contracts = table
        BY DbParts, KeyedTables DEF CM!Repo!Keyed
    <2>4. s2.contracts = rows
        <3>1. DOMAIN s1 = DOMAIN s /\ s1.contracts = rows /\ "zones" \in DOMAIN s1 /\ "contracts" \in DOMAIN s1
            BY StoreParts DEF CM!Repo!Keyed
        <3> HIDE DEF s1
        <3> QED
            BY <3>1, RecalcAway
    <2> HIDE DEF d2, s1, s2, stmts
    <2>5. CM!Ids(rows) \subseteq CM!Ids(s.contracts) \cup {no}
        <3>1. CM!Repo!IsList("contracts", s.contracts) /\ "contracts" \in Kinds
            BY <1>0, StoreParts, KeyedTables
        <3> HIDE DEF c
        <3> QED
            BY <1>0, <3>1, AppendIds
    <2> HIDE DEF rows, c, table
    <2>6. Unwritten(d, o) \/ (o.db = d2 /\ o.err \in {"ok", "lost"})
        BY <2>1, <2>2, AfterWritten, AfterUnwritten
    <2>7. o.store \in {s, s2}
        BY <2>1, <2>2, AfterWritten, AfterUnwritten
    <2>8. CM!Ids(o.store.contracts) \subseteq CM!Ids(s.contracts) \cup {no}
        BY <2>4, <2>5, <2>7
    <2>9. Unwritten(d, o) \/ Written(o, table)
        BY <2>3, <2>6 DEF Written
    <2> QED
        BY <1>0, <2>8, <2>9 DEF table
<1> QED
    BY <1>2, <1>3

LEMMA UpdateContractWrites ==
    ASSUME NEW d, NEW s, CM!Repo!IsDb(d), CM!IsStore(s), NEW no, NEW patch, "id" \notin DOMAIN patch,
           NEW o \in CM!updateContract(d, s, no, patch)
    PROVE  /\ \/ Unwritten(d, o)
              \/ \E i \in DOMAIN s.contracts :
                   /\ s.contracts[i].id = no /\ no \in DOMAIN d.contracts
                   /\ Written(o, [d.contracts EXCEPT ![no] = CM!Patched(s.contracts[i], patch)])
           /\ CM!Ids(o.store.contracts) \subseteq CM!Ids(s.contracts)
<1> DEFINE i == CM!Find(s.contracts, no)
           c == CM!Patched(s.contracts[i], patch)
           rows == [s.contracts EXCEPT ![i] = c]
           s1 == [s EXCEPT !.contracts = rows]
           s2 == CM!recalcZoneCounts(s1)
           stmts == CM!Repo!UpdateContract(d, c)
           table == [d.contracts EXCEPT ![c.id] = c]
           d2 == [d EXCEPT !.contracts = table]
<1>0. "contracts" \in CM!Repo!Keyed /\ "contracts" \in Kinds
    BY ContractRow, KeyedTables
<1>2. CASE i = 0
    BY <1>2, EndsUnwritten DEF CM!updateContract
<1>3. CASE i # 0
    <2>0. i \in DOMAIN s.contracts /\ CM!Repo!IsRow("contracts", c) /\ c.id = s.contracts[i].id /\ s.contracts[i].id = no
        BY <1>0, <1>3, FoundRow, PatchedRow, RowId
    <2>1. o \in CM!After(s, stmts, s2)
        BY <1>3 DEF CM!updateContract
    <2>2. Missed(d, stmts) \/ (no \in DOMAIN d.contracts /\ Statement(d, d2, stmts))
        <3>1. stmts = CM!Repo!Refused(d) \/ stmts = CM!Repo!Update(d, "contracts", c)
            BY DEF CM!Repo!UpdateContract
        <3> HIDE DEF stmts, c, i
        <3> QED
            BY <2>0, <3>1, UpdateStatement, RefusedMissed
    <2>3. d2.contracts = table
        BY DbParts, KeyedTables DEF CM!Repo!Keyed
    <2>4. s2.contracts = rows
        <3>1. DOMAIN s1 = DOMAIN s /\ s1.contracts = rows /\ "zones" \in DOMAIN s1 /\ "contracts" \in DOMAIN s1
            BY StoreParts DEF CM!Repo!Keyed
        <3> HIDE DEF s1
        <3> QED
            BY <3>1, RecalcAway
    <2>5. CM!Ids(rows) \subseteq CM!Ids(s.contracts)
        BY <2>0 DEF CM!Ids
    <2> HIDE DEF d2, s1, s2, stmts, rows
    <2>6. Unwritten(d, o) \/ (no \in DOMAIN d.contracts /\ o.db = d2 /\ o.err \in {"ok", "lost"})
        BY <2>1, <2>2, AfterWritten, AfterUnwritten
    <2>7. o.store \in {s, s2}
        BY <2>1, <2>2, AfterWritten, AfterUnwritten
    <2>8. CM!Ids(o.store.contracts) \subseteq CM!Ids(s.contracts)
        BY <2>4, <2>5, <2>7
    <2>9. Unwritten(d, o) \/ (no \in DOMAIN d.contracts /\ Written(o, table))
        BY <2>3, <2>6 DEF Written
    <2>10. table = [d.contracts EXCEPT ![no] = CM!Patched(s.contracts[i], patch)]
        BY <2>0
    <2> HIDE DEF table, c, i
    <2> QED
        BY <2>0, <2>8, <2>9, <2>10
<1> QED
    BY <1>2, <1>3

LEMMA DeleteContractWrites ==
    ASSUME NEW d, NEW s, CM!Repo!IsDb(d), CM!IsStore(s), NEW no, NEW o \in CM!deleteContract(d, s, no)
    PROVE  /\ Unwritten(d, o) \/ Written(o, CM!Repo!Without(d.contracts, no))
           /\ CM!Ids(o.store.contracts) \subseteq CM!Ids(s.contracts)
<1> DEFINE i == CM!Find(s.contracts, no)
           rows == CM!RemoveAt(s.contracts, i)
           s1 == [s EXCEPT !.contracts = rows]
           s2 == CM!recalcZoneCounts(s1)
           stmts == CM!Repo!Delete(d, "contracts", no)
           table == CM!Repo!Without(d.contracts, no)
           d2 == [d EXCEPT !.contracts = table]
<1>0. "contracts" \in CM!Repo!Keyed /\ "contracts" \in Kinds
    BY ContractRow, KeyedTables
<1>2. CASE i = 0
    BY <1>2, EndsUnwritten DEF CM!deleteContract
<1>3. CASE i # 0
    <2>0. i \in DOMAIN s.contracts
        BY <1>0, <1>3, FoundRow
    <2>1. o \in CM!After(s, stmts, s2)
        BY <1>3 DEF CM!deleteContract, CM!Repo!DeleteContract
    <2>2. Missed(d, stmts) \/ Statement(d, d2, stmts)
        BY DeleteStatement
    <2>3. d2.contracts = table
        BY DbParts, KeyedTables DEF CM!Repo!Keyed
    <2>4. s2.contracts = rows
        <3>1. DOMAIN s1 = DOMAIN s /\ s1.contracts = rows /\ "zones" \in DOMAIN s1 /\ "contracts" \in DOMAIN s1
            BY StoreParts DEF CM!Repo!Keyed
        <3> HIDE DEF s1
        <3> QED
            BY <3>1, RecalcAway
    <2>5. CM!Ids(rows) \subseteq CM!Ids(s.contracts)
        <3>1. CM!Repo!IsList("contracts", s.contracts)
            BY <1>0, StoreParts
        <3> HIDE DEF i
        <3> QED
            BY <1>0, <2>0, <3>1, RemoveAtIds
    <2> HIDE DEF d2, s1, s2, stmts, rows, table
    <2>6. Unwritten(d, o) \/ (o.db = d2 /\ o.err \in {"ok", "lost"})
        BY <2>1, <2>2, AfterWritten, AfterUnwritten
    <2>7. o.store \in {s, s2}
        BY <2>1, <2>2, AfterWritten, AfterUnwritten
    <2>8. CM!Ids(o.store.contracts) \subseteq CM!Ids(s.contracts)
        BY <2>4, <2>5, <2>7
    <2>9. Unwritten(d, o) \/ Written(o, table)
        BY <2>3, <2>6 DEF Written
    <2> QED
        BY <2>8, <2>9 DEF table
<1> QED
    BY <1>2, <1>3

-----------------------------------------------------------------------------
(* Requests about a contract. *)

\* A replica nothing upset lists the contracts as they are stored.
LEMMA SeenRow ==
    ASSUME Core, NEW r \in Replicas, upset[r] = {}, \A h \in Handlers : job[h].at # "save",
           NEW c \in Range(cache[r].contracts)
    PROVE  /\ c.id \in DOMAIN db.contracts /\ db.contracts[c.id] = c
           /\ {"status", "sup", "report"} \subseteq DOMAIN c
<1>1. BelowAll(db, cache[r]) /\ MirrorsAll(db, cache[r])
    BY DEF Core, Served, Covered, Saving
<1>2. PICK i \in DOMAIN cache[r].contracts : c = cache[r].contracts[i]
    BY DEF Range
<1>3. "contracts" \in CM!Repo!Keyed /\ "contracts" \in Kinds /\ "contracts" \in Tables
    BY ContractRow, KeyedTables
<1>4. c.id \in DOMAIN db.contracts /\ Bare(c) = Bare(db.contracts[c.id])
    BY <1>1, <1>2, <1>3 DEF MirrorsAll, Mirrors, CM!Ids
<1>5. CM!Repo!IsList("contracts", cache[r].contracts) /\ CM!Repo!IsTable("contracts", db.contracts)
    BY <1>3, CoreParts, StoreParts, DbParts
<1>6. CM!Repo!IsRow("contracts", c) /\ CM!Repo!IsRow("contracts", db.contracts[c.id])
    BY <1>2, <1>3, <1>4, <1>5, ListSeq, TableRow
<1>7. \A x : CM!Repo!IsRow("contracts", x) =>
        /\ x = [f \in {"id", "zone", "sup", "status", "report"} |-> x[f]]
        /\ Bare(x) = [f \in {"id", "zone", "sup", "status", "report"} |-> x[f]]
    BY DEF CM!Repo!IsRow, CM!Repo!Columns, Bare
<1>8. \A x : CM!Repo!IsRow("contracts", x) => x = Bare(x)
    BY <1>7, Zenon
<1>9. c = db.contracts[c.id]
    BY <1>4, <1>6, <1>8
<1> QED
    BY <1>4, <1>6, <1>7, <1>9

\* While a contract is followed, no bulk PUT is being saved.
LEMMA NoSaves ==
    ASSUME FollowInv, NEW no \in ContractNos \ raced
    PROVE  \A h \in Handlers : job[h].at # "save"
BY DEF FollowInv, Followed

\* What is believed of a contract nothing touched.
LEMMA StillBelieved ==
    ASSUME NEW no, Believed(no), said'[no] = said[no],
           no \in DOMAIN db'.contracts <=> no \in DOMAIN db.contracts,
           no \in DOMAIN db.contracts => db'.contracts[no] = db.contracts[no],
           \A g \in Handlers : Engages(job'[g], no) <=> Engages(job[g], no),
           \A g \in Handlers : Engages(job'[g], no) => job'[g] = job[g]
    PROVE  Believed(no)'
<1>1. StatusOf(db', no) = StatusOf(db, no)
    BY DEF StatusOf
<1>2. ASSUME NEW g \in Handlers, Engages(job'[g], no)
      PROVE  Fits(job[g], no)'
    <2>1. Fits(job[g], no) /\ job'[g] = job[g]
        BY <1>2 DEF Believed
    <2> QED
        BY <1>1, <2>1 DEF Fits, Heard, StatusOf
<1> QED
    BY <1>1, <1>2 DEF Believed

\* A step of one handler about one contract.
LEMMA Focus ==
    ASSUME FollowInv, NEW h \in Handlers, NEW no \in ContractNos,
           job[h].at # "save" /\ job'[h].at # "save",
           Engaged(job[h]) => job[h].no = no, Engaged(job'[h]) => job'[h].no = no,
           \A g \in Handlers : g # h => job'[g] = job[g],
           raced \subseteq raced',
           \A m : m # no => /\ said'[m] = said[m]
                            /\ m \in DOMAIN db'.contracts <=> m \in DOMAIN db.contracts
                            /\ m \in DOMAIN db.contracts => db'.contracts[m] = db.contracts[m],
           \A r \in Replicas : CM!Ids(cache'[r].contracts) \subseteq ContractNos,
           no \notin raced' => Believed(no)'
    PROVE  FollowInv'
<1>1. Listed'
    <2>1. DOMAIN db'.contracts \subseteq ContractNos
        BY DEF FollowInv, Listed
    <2>2. \A g \in Handlers : job'[g].at = "save" => CM!Ids(job'[g].copy.contracts) \subseteq ContractNos
        BY DEF FollowInv, Listed
    <2>3. \A g \in Handlers : Engaged(job'[g]) => job'[g].no \in ContractNos
        BY DEF FollowInv, Listed
    <2> QED
        BY <2>1, <2>2, <2>3 DEF Listed
<1>2. (\E g \in Handlers : job'[g].at = "save") => ContractNos \subseteq raced'
    BY DEF FollowInv, Followed
<1>3. ASSUME NEW m \in ContractNos \ raced', m # no
      PROVE  Believed(m)'
    <2>1. Believed(m)
        BY <1>3 DEF FollowInv, Followed
    <2>2. ~Engages(job[h], m) /\ ~Engages(job'[h], m)
        BY <1>3 DEF Engages
    <2>3. /\ \A g \in Handlers : Engages(job'[g], m) <=> Engages(job[g], m)
          /\ \A g \in Handlers : Engages(job'[g], m) => job'[g] = job[g]
        BY <2>2
    <2> QED
        BY <1>3, <2>1, <2>3, StillBelieved
<1> QED
    BY <1>1, <1>2, <1>3 DEF FollowInv, Followed

\* The only request about a contract has written; its events are to come.
LEMMA ToldBelieved ==
    ASSUME NEW h \in Handlers, NEW no, Engages(job'[h], no), job'[h].at \in {"count", "publish"},
           \A g \in Handlers : g # h => ~Engages(job'[g], no),
           (IF job'[h].tell = None THEN said'[no] ELSE IF job'[h].tell = "gone" THEN None ELSE job'[h].tell)
              = StatusOf(db', no)
    PROVE  Believed(no)'
BY DEF Believed, Fits, Heard

\* Nobody is about it any more.
LEMMA LeftBelieved ==
    ASSUME NEW no, \A g \in Handlers : ~Engages(job'[g], no), said'[no] = StatusOf(db', no)
    PROVE  Believed(no)'
BY DEF Believed

\* A mutation that goes on with its zone counts is still about its contract.
LEMMA CountingFacts ==
    ASSUME NEW r, NEW no, NEW s, NEW zones, NEW tell
    PROVE  LET j == Counting(r, no, s, zones, tell) IN
           j.at \in {"count", "publish"} /\ j.no = no /\ j.tell = tell /\ Engages(j, no)
BY DEF Counting, Engages, Engaged

LEMMA OnContractEngages ==
    ASSUME NEW no
    PROVE  OnContract(no) <=> \E h \in Handlers : Engages(job[h], no)
BY DEF OnContract, Engages, Engaged

\* The replicas still list known contracts only.
LEMMA CommitIds ==
    ASSUME Core, FollowInv, NEW r \in Replicas, NEW o, NEW excuse, Commit(r, o, excuse), NEW no \in ContractNos,
           CM!Ids(o.store.contracts) \subseteq CM!Ids(cache[r].contracts) \cup {no}
    PROVE  \A q \in Replicas : CM!Ids(cache'[q].contracts) \subseteq ContractNos
<1>1. cache' = [cache EXCEPT ![r] = o.store] /\ cache = [q \in Replicas |-> cache[q]]
    BY DEF Commit, Core
<1>2. \A q \in Replicas : CM!Ids(cache[q].contracts) \subseteq ContractNos
    BY DEF FollowInv, Listed
<1>3. ASSUME NEW q \in Replicas
      PROVE  CM!Ids(cache'[q].contracts) \subseteq ContractNos
    <2>1. CASE q = r
        <3>1. cache'[q] = o.store
            BY <1>1, <2>1
        <3> QED
            BY <1>2, <3>1
    <2>2. CASE q # r
        <3>1. cache'[q] = cache[q]
            BY <1>1, <2>2
        <3> QED
            BY <1>2, <3>1
    <2> QED
        BY <2>1, <2>2
<1> QED
    BY <1>3

\* The first steps of the contract mutations.
LEMMA ContractPostedFollowed ==
    ASSUME Core, Bookkept, FollowInv, NEW h \in Handlers, NEW r \in Replicas, ContractPosted(h, r)
    PROVE  FollowInv'
<1>1. PICK given \in ContractNos \cup {None}, z \in ZoneCodes, sup \in Supervisors, st \in Statuses \cup {None} :
        LET no == IF given = None THEN CM!nextContractNo(cache[r]) ELSE given
            in == [id |-> no, zone |-> z, sup |-> sup, status |-> st, report |-> 0]
        IN /\ no \in ContractNos
           /\ \E o \in CM!CreateContract(db, cache[r], in) :
                /\ Commit(r, o, {})
                /\ acked' = Adds("contracts", o)
                /\ miscounted' = Miscounts(r, o)
                /\ raced' = IF o.err # "ok" /\ o.db = db THEN raced
                            ELSE IF OnContract(no) \/ o.err = "lost" THEN raced \cup {no} ELSE raced
                /\ job' = IF o.err # "ok" THEN job
                          ELSE [job EXCEPT ![h] = Counting(r, no, o.store, <<z>>, CM!defaultStatus(st))]
    BY Zenon DEF ContractPosted
<1> DEFINE ds == CM!defaultStatus(st)
<1>0. PICK no : no = IF given = None THEN CM!nextContractNo(cache[r]) ELSE given
    OBVIOUS
<1>2. no \in ContractNos /\ no \in Int
    BY <1>0, <1>1, ServiceAssumption
<1>3. PICK o \in CM!CreateContract(db, cache[r], [id |-> no, zone |-> z, sup |-> sup, status |-> st, report |-> 0]) :
        /\ Commit(r, o, {})
        /\ raced' = IF o.err # "ok" /\ o.db = db THEN raced
                    ELSE IF OnContract(no) \/ o.err = "lost" THEN raced \cup {no} ELSE raced
        /\ job' = IF o.err # "ok" THEN job ELSE [job EXCEPT ![h] = Counting(r, no, o.store, <<z>>, ds)]
    BY <1>0, <1>1
<1>4. job[h] = Idle /\ job[h].at = "idle" /\ said' = said /\ db' = o.db
    BY <1>3, IdleAt DEF ContractPosted, Commit
<1>5. /\ \/ Unwritten(db, o)
         \/ \E c : c.status = ds /\ Written(o, CM!Repo!With(db.contracts, no, c))
      /\ CM!Ids(o.store.contracts) \subseteq CM!Ids(cache[r].contracts) \cup {no}
    BY <1>2, <1>3, CoreParts, CreateContractWrites
<1>6. ds \in Statuses \cup {"Planning"} /\ ds # None /\ ds # "gone"
    BY ServiceAssumption DEF CM!defaultStatus
<1>7. PICK k : k = Counting(r, no, o.store, <<z>>, ds)
    OBVIOUS
<1>14. /\ k.at \in {"count", "publish"} /\ k.no = no /\ k.tell = ds /\ Engages(k, no)
       /\ job' = IF o.err # "ok" THEN job ELSE [job EXCEPT ![h] = k]
    <2> HIDE DEF ds
    <2> QED
        BY <1>3, <1>7, CountingFacts
<1> HIDE DEF ds
<1>8. \A q \in Replicas : CM!Ids(cache'[q].contracts) \subseteq ContractNos
    BY <1>2, <1>3, <1>5, CommitIds
<1>9. raced \subseteq raced'
    BY <1>3
<1>10. \A m : m # no => /\ m \in DOMAIN db'.contracts <=> m \in DOMAIN db.contracts
                        /\ m \in DOMAIN db.contracts => db'.contracts[m] = db.contracts[m]
    BY <1>4, <1>5 DEF Unwritten, Written, CM!Repo!With
<1>11. job = [g \in Handlers |-> job[g]]
    BY DEF Core
<1>12. CASE o.err # "ok"
    <2>1. job' = job
        BY <1>3, <1>12
    <2>2. ASSUME no \notin raced'
          PROVE  Believed(no)'
        <3>1. o.db = db /\ no \notin raced
            BY <1>3, <1>5, <1>12, <2>2 DEF Written, Unwritten
        <3>2. Believed(no)
            BY <1>2, <3>1 DEF FollowInv, Followed
        <3> QED
            BY <1>4, <2>1, <3>1, <3>2, StillBelieved
    <2> QED
        BY <1>2, <1>4, <1>8, <1>9, <1>10, <2>1, <2>2, Focus DEF Engaged
<1>13. CASE o.err = "ok"
    <2>1. job'[h] = k /\ \A g \in Handlers : g # h => job'[g] = job[g]
        BY <1>11, <1>13, <1>14
    <2>2. ASSUME no \notin raced'
          PROVE  Believed(no)'
        <3>1. ~OnContract(no)
            BY <1>3, <1>13, <2>2
        <3>2. \A g \in Handlers : g # h => ~Engages(job'[g], no)
            BY <2>1, <3>1, OnContractEngages
        <3>3. StatusOf(db', no) = ds
            BY <1>4, <1>5, <1>13 DEF Unwritten, Written, StatusOf, CM!Repo!With
        <3> QED
            BY <1>6, <1>14, <2>1, <3>2, <3>3, ToldBelieved
    <2> QED
        BY <1>2, <1>4, <1>14, <1>8, <1>9, <1>10, <2>1, <2>2, Focus DEF Engaged
<1> QED
    BY <1>12, <1>13

\* A replica nothing upset knows which contracts are stored.
LEMMA SeenNo ==
    ASSUME Core, NEW r \in Replicas, upset[r] = {}, \A h \in Handlers : job[h].at # "save", NEW no
    PROVE  CM!Find(cache[r].contracts, no) # 0 <=> no \in DOMAIN db.contracts
<1>1. MirrorsAll(db, cache[r])
    BY DEF Core, Served, Covered, Saving
<1>2. CM!Ids(cache[r].contracts) = DOMAIN db.contracts
    BY <1>1, ContractRow DEF MirrorsAll, Mirrors
<1>3. CM!Repo!IsList("contracts", cache[r].contracts) /\ "contracts" \in Kinds
    BY ContractRow, KeyedTables, CoreParts, StoreParts
<1>4. CM!Find(cache[r].contracts, no) # 0 <=> no \in CM!Ids(cache[r].contracts)
    BY <1>3, ListSeq, FindRow DEF CM!Ids
<1> QED
    BY <1>2, <1>4

LEMMA DeleteBeginsFollowed ==
    ASSUME Core, Bookkept, FollowInv, NEW h \in Handlers, NEW r \in Replicas, DeleteBegins(h, r)
    PROVE  FollowInv'
<1>1. PICK no \in ContractNos :
        /\ job' = [job EXCEPT ![h] = [at |-> "drop", replica |-> r, no |-> no,
                                      existing |-> CM!Find(cache[r].contracts, no) # 0]]
        /\ raced' = IF OnContract(no) \/ upset[r] # {} THEN raced \cup {no} ELSE raced
    BY DEF DeleteBegins
<1> DEFINE j == [at |-> "drop", replica |-> r, no |-> no, existing |-> CM!Find(cache[r].contracts, no) # 0]
<1>2. /\ j.at = "drop" /\ j.no = no /\ (j.existing <=> CM!Find(cache[r].contracts, no) # 0)
      /\ Engages(j, no)
    BY DEF Engages, Engaged
<1>3. job[h].at = "idle" /\ db' = db /\ cache' = cache /\ said' = said
    BY IdleAt DEF DeleteBegins
<1>4. job'[h] = j /\ \A g \in Handlers : g # h => job'[g] = job[g]
    BY <1>1 DEF Core
<1> HIDE DEF j
<1>5. ASSUME no \notin raced'
      PROVE  Believed(no)'
    <2>1. ~OnContract(no) /\ upset[r] = {} /\ no \notin raced
        BY <1>1, <1>5
    <2>2. CM!Find(cache[r].contracts, no) # 0 <=> no \in DOMAIN db.contracts
        BY <2>1, NoSaves, SeenNo
    <2>3. said[no] = StatusOf(db, no)
        <3>1. Believed(no)
            BY <2>1 DEF FollowInv, Followed
        <3> QED
            BY <2>1, <3>1, OnContractEngages DEF Believed
    <2>4. \A g \in Handlers : g # h => ~Engages(job'[g], no)
        BY <1>4, <2>1, OnContractEngages
    <2>5. StatusOf(db', no) = StatusOf(db, no) /\ said'[no] = said[no]
        BY <1>3
    <2>6. /\ job'[h].at = "drop" /\ Engages(job'[h], no)
          /\ job'[h].existing <=> no \in DOMAIN db'.contracts
        BY <1>2, <1>3, <1>4, <2>2
    <2> QED
        BY <2>3, <2>4, <2>5, <2>6 DEF Believed, Fits
<1>6. \A q \in Replicas : CM!Ids(cache'[q].contracts) \subseteq ContractNos
    BY <1>3 DEF FollowInv, Listed
<1>7. raced \subseteq raced'
    BY <1>1
<1> QED
    BY <1>2, <1>3, <1>4, <1>5, <1>6, <1>7, Focus DEF Engaged

LEMMA DeleteContractFollowed ==
    ASSUME Core, Bookkept, FollowInv, NEW h \in Handlers, DeleteContract(h)
    PROVE  FollowInv'
<1> DEFINE r == job[h].replica
           i == CM!Find(cache[r].contracts, job[h].no)
           zones == IF i = 0 THEN <<>> ELSE <<cache[r].contracts[i].zone>>
<1>1. PICK no, rr, zs, tell :
        no = job[h].no /\ rr = r /\ zs = zones /\ tell = IF job[h].existing THEN "gone" ELSE None
    OBVIOUS
<1>2. job[h].at = "drop" /\ rr \in Replicas /\ said' = said
    BY <1>1, IdleAt DEF DeleteContract, Core, JobOK
<1>3. PICK o \in CM!deleteContract(db, cache[rr], no) :
        /\ Commit(rr, o, {})
        /\ raced' = IF o.err = "lost" \/ upset[rr] # {} THEN raced \cup {no} ELSE raced
        /\ job' = [job EXCEPT ![h] = IF o.err # "ok" THEN Idle ELSE Counting(rr, no, o.store, zs, tell)]
    BY <1>1 DEF DeleteContract
<1> HIDE DEF zones
<1>4. Engages(job[h], no) /\ no \in ContractNos
    BY <1>1, <1>2 DEF Engages, Engaged, FollowInv, Listed
<1>5. PICK k : k = Counting(rr, no, o.store, zs, tell)
    OBVIOUS
<1>6. k.at \in {"count", "publish"} /\ k.no = no /\ k.tell = tell /\ Engages(k, no)
    BY <1>5, CountingFacts
<1>7. /\ job'[h] = IF o.err # "ok" THEN Idle ELSE k
      /\ \A g \in Handlers : g # h => job'[g] = job[g]
    BY <1>3, <1>5 DEF Core
<1>8. /\ Unwritten(db, o) \/ Written(o, CM!Repo!Without(db.contracts, no))
      /\ CM!Ids(o.store.contracts) \subseteq CM!Ids(cache[rr].contracts) \cup {no}
    BY <1>2, <1>3, CoreParts, DeleteContractWrites
<1>9. db' = o.db
    BY <1>3 DEF Commit
<1>10. \A m : m # no => /\ m \in DOMAIN db'.contracts <=> m \in DOMAIN db.contracts
                        /\ m \in DOMAIN db.contracts => db'.contracts[m] = db.contracts[m]
    BY <1>8, <1>9 DEF Unwritten, Written, CM!Repo!Without, CM!Repo!Restrict
<1>11. \A q \in Replicas : CM!Ids(cache'[q].contracts) \subseteq ContractNos
    BY <1>2, <1>3, <1>4, <1>8, CommitIds
<1>12. ASSUME no \notin raced'
       PROVE  Believed(no)'
    <2>1. o.err # "lost" /\ upset[rr] = {} /\ no \notin raced
        BY <1>3, <1>12
    <2>2. Fits(job[h], no) /\ \A g \in Handlers : g # h => ~Engages(job[g], no)
        BY <1>4, <2>1 DEF FollowInv, Followed, Believed
    <2>3. (job[h].existing <=> no \in DOMAIN db.contracts) /\ said[no] = StatusOf(db, no)
        BY <1>2, <2>2 DEF Fits
    <2>4. \A g \in Handlers : g # h => ~Engages(job'[g], no)
        BY <1>7, <2>2
    <2>5. CASE o.err # "ok"
        <3>1. db' = db
            BY <1>8, <1>9, <2>1, <2>5 DEF Unwritten, Written
        <3>2. ~Engages(job'[h], no)
            BY <1>7, <2>5, IdleAt DEF Engages, Engaged
        <3> QED
            BY <1>2, <2>3, <2>4, <3>1, <3>2, LeftBelieved
    <2>6. CASE o.err = "ok"
        <3>1. StatusOf(db', no) = None
            BY <1>8, <1>9, <2>6 DEF Unwritten, Written, StatusOf, CM!Repo!Without, CM!Repo!Restrict
        <3>2. tell = "gone" \/ (tell = None /\ said'[no] = None)
            BY <1>1, <1>2, <2>3 DEF StatusOf
        <3>3. (IF tell = None THEN said'[no] ELSE IF tell = "gone" THEN None ELSE tell) = StatusOf(db', no)
            BY <3>1, <3>2, ServiceAssumption
        <3> QED
            BY <1>6, <1>7, <2>4, <2>6, <3>3, ToldBelieved
    <2> QED
        BY <2>5, <2>6
<1>13. Engaged(job'[h]) => job'[h].no = no
    BY <1>6, <1>7, IdleAt DEF Engaged
<1>14. job'[h].at # "save"
    BY <1>6, <1>7, IdleAt
<1>15. raced \subseteq raced'
    BY <1>3
<1> QED
    BY <1>1, <1>2, <1>4, <1>7, <1>10, <1>11, <1>12, <1>13, <1>14, <1>15, Focus

LEMMA PatchBeginsFollowed ==
    ASSUME Core, Bookkept, FollowInv, NEW h \in Handlers, NEW r \in Replicas, PatchBegins(h, r)
    PROVE  FollowInv'
<1>1. PICK sess \in Sessions, c \in Range(cache[r].contracts), patch \in Patches :
        /\ CM!CanEditContractCtx(cache[r], sess, c.id)
        /\ TouchesPrivilegedFields(patch) => CM!sessionCanMutate(sess)
        /\ job' = [job EXCEPT ![h] = [at |-> "patch", replica |-> r, sess |-> sess, no |-> c.id,
                                      patch |-> patch, previous |-> c.status]]
        /\ raced' = IF OnContract(c.id) \/ upset[r] # {} THEN raced \cup {c.id} ELSE raced
    BY DEF PatchBegins
<1> DEFINE no == c.id
           j == [at |-> "patch", replica |-> r, sess |-> sess, no |-> no, patch |-> patch, previous |-> c.status]
<1>2. no \in ContractNos
    <2>1. no \in CM!Ids(cache[r].contracts)
        BY DEF CM!Ids, Range
    <2> QED
        BY <2>1 DEF FollowInv, Listed
<1>3. /\ j.at = "patch" /\ j.sess = sess /\ j.no = no /\ j.patch = patch /\ j.previous = c.status
      /\ Engages(j, no)
    BY DEF Engages, Engaged
<1>4. job[h].at = "idle" /\ db' = db /\ cache' = cache /\ said' = said
    BY IdleAt DEF PatchBegins
<1>5. job'[h] = j /\ \A g \in Handlers : g # h => job'[g] = job[g]
    BY <1>1 DEF Core
<1>6. /\ CM!CanEditContractCtx(cache[r], sess, no)
      /\ TouchesPrivilegedFields(patch) => CM!sessionCanMutate(sess)
      /\ raced' = IF OnContract(no) \/ upset[r] # {} THEN raced \cup {no} ELSE raced
    BY <1>1
<1>7. ASSUME no \notin raced'
      PROVE  Believed(no)'
    <2>1. ~OnContract(no) /\ upset[r] = {} /\ no \notin raced
        BY <1>6, <1>7
    <2>2. no \in DOMAIN db.contracts /\ db.contracts[no] = c
        BY <1>2, <2>1, NoSaves, SeenRow
    <2>3. said[no] = StatusOf(db, no)
        <3>1. Believed(no)
            BY <1>2, <2>1 DEF FollowInv, Followed
        <3> QED
            BY <2>1, <3>1, OnContractEngages DEF Believed
    <2>4. said[no] = c.status
        BY <2>2, <2>3 DEF StatusOf
    <2>5. ASSUME ~CM!sessionCanMutate(sess)
          PROVE  ~TouchesPrivilegedFields(patch) /\ c.sup = sess.sup
        <3>1. PICK c2 \in CM!Range(cache[r].contracts) : c2.id = no /\ c2.sup = sess.sup
            BY <1>6, <2>5 DEF CM!CanEditContractCtx
        <3>2. c2 \in Range(cache[r].contracts)
            BY <3>1 DEF CM!Range, Range
        <3>3. db.contracts[no] = c2
            BY <1>2, <2>1, <3>1, <3>2, NoSaves, SeenRow
        <3> QED
            BY <1>6, <2>2, <2>5, <3>1, <3>3
    <2> HIDE DEF j, no
    <2>6. Fits(j, no)'
        BY <1>3, <1>4, <2>2, <2>4, <2>5 DEF Fits
    <2>7. \A g \in Handlers : g # h => ~Engages(job'[g], no)
        BY <1>5, <2>1, OnContractEngages
    <2> QED
        BY <1>3, <1>5, <2>6, <2>7 DEF Believed
<1>8. \A q \in Replicas : CM!Ids(cache'[q].contracts) \subseteq ContractNos
    BY <1>4 DEF FollowInv, Listed
<1>9. raced \subseteq raced'
    BY <1>6
<1> HIDE DEF j, no
<1> QED
    BY <1>2, <1>3, <1>4, <1>5, <1>7, <1>8, <1>9, Focus DEF Engaged

\* What PatchContract finds and leaves of a contract that nothing races.
LEMMA PatchedFollowed ==
    ASSUME Core, FollowInv, NEW h \in Handlers, job[h].at = "patch", job[h].no \in ContractNos \ raced,
           NEW r \in Replicas, upset[r] = {},
           NEW o, o \in CM!updateContract(db, cache[r], job[h].no, job[h].patch)
    PROVE  LET no == job[h].no  patch == job[h].patch IN
           /\ no \in DOMAIN db.contracts /\ {"status", "sup", "report"} \subseteq DOMAIN db.contracts[no]
           /\ Fits(job[h], no) /\ \A g \in Handlers : g # h => ~Engages(job[g], no)
           /\ \/ Unwritten(db, o)
              \/ Written(o, [db.contracts EXCEPT ![no] = CM!Patched(db.contracts[no], patch)])
<1> DEFINE no == job[h].no
           patch == job[h].patch
<1>1. Engages(job[h], no)
    BY DEF Engages, Engaged
<1>2. Fits(job[h], no) /\ \A g \in Handlers : g # h => ~Engages(job[g], no)
    BY <1>1 DEF FollowInv, Followed, Believed
<1>3. no \in DOMAIN db.contracts
    BY <1>2 DEF Fits
<1>4. "id" \notin DOMAIN patch
    <2>1. JobOK(job[h])
        BY DEF Core
    <2>2. patch \in Patches
        BY <2>1, IdleAt DEF JobOK
    <2> QED
        BY <2>2 DEF Patches
<1>5. \A g \in Handlers : job[g].at # "save"
    BY NoSaves
<1>6. CM!Repo!IsDb(db) /\ CM!IsStore(cache[r])
    BY CoreParts
<1>7. {"status", "sup", "report"} \subseteq DOMAIN db.contracts[no]
    <2>1. "contracts" \in Kinds /\ "contracts" \in Tables
        BY ContractRow, KeyedTables
    <2>2. CM!Repo!IsRow("contracts", db.contracts[no])
        BY <1>3, <1>6, <2>1, DbParts, TableRow
    <2> QED
        BY <2>2 DEF CM!Repo!IsRow, CM!Repo!Columns
<1> HIDE DEF no, patch
<1>8. \/ Unwritten(db, o)
      \/ \E i \in DOMAIN cache[r].contracts :
           /\ cache[r].contracts[i].id = no
           /\ Written(o, [db.contracts EXCEPT ![no] = CM!Patched(cache[r].contracts[i], patch)])
    BY <1>4, <1>6, UpdateContractWrites DEF no, patch
<1>9. ASSUME NEW i \in DOMAIN cache[r].contracts, cache[r].contracts[i].id = no
      PROVE  cache[r].contracts[i] = db.contracts[no]
    <2>1. cache[r].contracts[i] \in Range(cache[r].contracts)
        BY DEF Range
    <2> QED
        BY <1>5, <1>9, <2>1, SeenRow
<1> QED
    BY <1>2, <1>3, <1>7, <1>8, <1>9 DEF no, patch

\* The second step of a patch, and the events.
LEMMA PatchContractFollowed ==
    ASSUME Core, Bookkept, FollowInv, NEW h \in Handlers, PatchContract(h)
    PROVE  FollowInv'
<1> DEFINE r == job[h].replica
           i == CM!Find(cache[r].contracts, job[h].no)
           old == cache[r].contracts[i].zone
           new == IF "zone" \in DOMAIN job[h].patch THEN job[h].patch.zone ELSE old
           zones == IF i = 0 THEN <<>> ELSE IF new = old THEN <<new>> ELSE <<old, new>>
<1>1. PICK no, rr, patch, zs, tell :
        /\ no = job[h].no /\ rr = r /\ patch = job[h].patch /\ zs = zones
        /\ tell = Tell(job[h].patch, job[h].previous)
    OBVIOUS
<1>2. /\ job[h].at = "patch" /\ rr \in Replicas /\ patch \in Patches /\ said' = said
    BY <1>1, IdleAt DEF PatchContract, Core, JobOK
<1>3. PICK o \in CM!updateContract(db, cache[rr], no, patch) :
        /\ Commit(rr, o, {})
        /\ raced' = IF o.err = "lost" \/ upset[rr] # {} THEN raced \cup {no} ELSE raced
        /\ job' = [job EXCEPT ![h] = IF o.err # "ok" THEN Idle ELSE Counting(rr, no, o.store, zs, tell)]
    BY <1>1 DEF PatchContract
<1> HIDE DEF zones
<1>4. Engages(job[h], no) /\ no \in ContractNos
    BY <1>1, <1>2 DEF Engages, Engaged, FollowInv, Listed
<1>5. PICK k : k = Counting(rr, no, o.store, zs, tell)
    OBVIOUS
<1>6. k.at \in {"count", "publish"} /\ k.no = no /\ k.tell = tell /\ Engages(k, no)
    BY <1>5, CountingFacts
<1>7. /\ job'[h] = IF o.err # "ok" THEN Idle ELSE k
      /\ \A g \in Handlers : g # h => job'[g] = job[g]
    BY <1>3, <1>5 DEF Core
<1>8. "id" \notin DOMAIN patch
    BY <1>2 DEF Patches
<1>9. CM!Repo!IsDb(db) /\ CM!IsStore(cache[rr])
    BY <1>2, CoreParts
<1>10. db' = o.db
    BY <1>3 DEF Commit
<1>11. \A m : m # no => /\ m \in DOMAIN db'.contracts <=> m \in DOMAIN db.contracts
                        /\ m \in DOMAIN db.contracts => db'.contracts[m] = db.contracts[m]
    <2>1. \/ Unwritten(db, o)
          \/ \E x : Written(o, [db.contracts EXCEPT ![no] = x])
        BY <1>3, <1>8, <1>9, UpdateContractWrites
    <2> QED
        BY <1>10, <2>1 DEF Unwritten, Written
<1>12. \A q \in Replicas : CM!Ids(cache'[q].contracts) \subseteq ContractNos
    <2>1. CM!Ids(o.store.contracts) \subseteq CM!Ids(cache[rr].contracts) \cup {no}
        BY <1>3, <1>8, <1>9, UpdateContractWrites
    <2> QED
        BY <1>2, <1>3, <1>4, <2>1, CommitIds
<1>13. ASSUME no \notin raced'
       PROVE  Believed(no)'
    <2>1. o.err # "lost" /\ upset[rr] = {} /\ no \notin raced
        BY <1>3, <1>13
    <2>2. /\ no \in DOMAIN db.contracts /\ {"status", "sup", "report"} \subseteq DOMAIN db.contracts[no]
          /\ Fits(job[h], no) /\ \A g \in Handlers : g # h => ~Engages(job[g], no)
          /\ \/ Unwritten(db, o)
             \/ Written(o, [db.contracts EXCEPT ![no] = CM!Patched(db.contracts[no], patch)])
        BY <1>1, <1>2, <1>3, <1>4, <2>1, PatchedFollowed
    <2>3. db.contracts[no].status = job[h].previous /\ said[no] = job[h].previous
        BY <1>2, <2>2 DEF Fits
    <2>4. \A g \in Handlers : g # h => ~Engages(job'[g], no)
        BY <1>7, <2>2
    <2>5. CASE o.err # "ok"
        <3>1. db' = db
            BY <1>10, <2>1, <2>2, <2>5 DEF Unwritten, Written
        <3>2. ~Engages(job'[h], no)
            BY <1>7, <2>5, IdleAt DEF Engages, Engaged
        <3>3. said'[no] = StatusOf(db', no)
            BY <1>2, <2>2, <2>3, <3>1 DEF StatusOf
        <3> QED
            BY <2>4, <3>2, <3>3, LeftBelieved
    <2>6. CASE o.err = "ok"
        <3>1. db'.contracts = [db.contracts EXCEPT ![no] = CM!Patched(db.contracts[no], patch)]
            BY <1>10, <2>2, <2>6 DEF Unwritten, Written
        <3>2. db'.contracts[no].status
                = IF "status" \in DOMAIN patch THEN patch.status ELSE db.contracts[no].status
            BY <2>2, <3>1 DEF CM!Patched
        <3>3. no \in DOMAIN db'.contracts
            BY <2>2, <3>1
        <3>4. tell = IF "status" \in DOMAIN patch /\ patch.status # job[h].previous THEN patch.status ELSE None
            BY <1>1 DEF Tell
        <3>5. "status" \in DOMAIN patch => patch.status # None /\ patch.status # "gone"
            BY <1>2, ServiceAssumption DEF Patches
        <3>6. (IF tell = None THEN said'[no] ELSE IF tell = "gone" THEN None ELSE tell) = StatusOf(db', no)
            <4>1. StatusOf(db', no) = IF "status" \in DOMAIN patch THEN patch.status ELSE job[h].previous
                BY <2>3, <3>2, <3>3 DEF StatusOf
            <4>2. said'[no] = job[h].previous
                BY <1>2, <2>3
            <4> QED
                BY <3>4, <3>5, <4>1, <4>2
        <3> QED
            BY <1>6, <1>7, <2>4, <2>6, <3>6, ToldBelieved
    <2> QED
        BY <2>5, <2>6
<1>14. Engaged(job'[h]) => job'[h].no = no
    BY <1>6, <1>7, IdleAt DEF Engaged
<1>15. job'[h].at # "save"
    BY <1>6, <1>7, IdleAt
<1> QED
    BY <1>1, <1>2, <1>3, <1>4, <1>7, <1>11, <1>12, <1>13, <1>14, <1>15, Focus

LEMMA PublishFollowed ==
    ASSUME Core, Bookkept, FollowInv, NEW h \in Handlers, PublishContract(h)
    PROVE  FollowInv'
<1>1. PICK no, tell : no = job[h].no /\ tell = job[h].tell
    OBVIOUS
<1>2. job[h].at = "publish" /\ db' = db /\ cache' = cache
    BY DEF PublishContract
<1>3. Engages(job[h], no) /\ no \in ContractNos
    BY <1>1, <1>2 DEF Engages, Engaged, FollowInv, Listed
<1>4. \/ said' = said /\ raced' = raced \cup {no}
      \/ /\ said' = IF tell = None THEN said ELSE [said EXCEPT ![no] = IF tell = "gone" THEN None ELSE tell]
         /\ raced' = raced
    BY <1>1 DEF PublishContract
<1>5. /\ said'[no] = Heard(no, tell) \/ no \in raced'
      /\ raced \subseteq raced' /\ \A m : m # no => said'[m] = said[m]
    <2>1. said = [m \in ContractNos |-> said[m]]
        BY DEF Bookkept
    <2>2. CASE said' = said /\ raced' = raced \cup {no}
        BY <2>2
    <2>3. CASE /\ said' = IF tell = None THEN said ELSE [said EXCEPT ![no] = IF tell = "gone" THEN None ELSE tell]
               /\ raced' = raced
        <3>1. said'[no] = IF tell = None THEN said[no] ELSE IF tell = "gone" THEN None ELSE tell
            BY <2>1, <2>3, <1>3
        <3>2. \A m : m # no => said'[m] = said[m]
            BY <2>1, <2>3, <1>3
        <3> QED
            BY <2>3, <3>1, <3>2 DEF Heard
    <2> QED
        BY <1>4, <2>2, <2>3
<1>6. job'[h] = Idle /\ \A g \in Handlers : g # h => job'[g] = job[g]
    BY DEF PublishContract, Core
<1>7. ASSUME no \notin raced'
      PROVE  Believed(no)'
    <2>1. Believed(no)
        BY <1>3, <1>5, <1>7 DEF FollowInv, Followed
    <2>2. Heard(no, tell) = StatusOf(db, no) /\ \A g \in Handlers : g # h => ~Engages(job[g], no)
        BY <1>1, <1>2, <1>3, <2>1 DEF Believed, Fits
    <2>3. \A g \in Handlers : ~Engages(job'[g], no)
        BY <1>6, <2>2, IdleAt DEF Engages, Engaged
    <2> QED
        BY <1>2, <1>5, <1>7, <2>2, <2>3, LeftBelieved
<1>8. \A q \in Replicas : CM!Ids(cache'[q].contracts) \subseteq ContractNos
    BY <1>2 DEF FollowInv, Listed
<1>9. Engaged(job'[h]) => job'[h].no = no
    BY <1>6, IdleAt DEF Engaged
<1>10. job'[h].at # "save"
    BY <1>6, IdleAt
<1> QED
    BY <1>1, <1>2, <1>3, <1>5, <1>6, <1>7, <1>8, <1>9, <1>10, Focus

-----------------------------------------------------------------------------
(* Bulk PUTs, their saves, restarts. *)

\* A bulk PUT ends what is promised of every contract.
LEMMA ReplacedFollowed ==
    ASSUME Core, FollowInv, NEW h \in Handlers, NEW r \in Replicas, NEW s, NEW tables,
           CM!Ids(s.contracts) \subseteq ContractNos, Replaced(h, r, s, tables)
    PROVE  FollowInv'
<1> DEFINE j == [at |-> "save", replica |-> r, copy |-> s, of |-> tables,
                 shared |-> Shared]
<1>1. /\ db' = db /\ raced' = ContractNos
      /\ cache' = [cache EXCEPT ![r] = s]
      /\ job' = [Unshared(r, tables) EXCEPT ![h] = j]
    BY DEF Replaced
<1>2. j.at = "save" /\ j.copy = s
    OBVIOUS
<1> HIDE DEF j
<1>3. job'[h] = j /\ \A g \in Handlers : g # h => job'[g] = Unshared(r, tables)[g]
    BY <1>1 DEF Unshared
<1>4. \A g \in Handlers : /\ job[g].at = "save" => /\ Unshared(r, tables)[g].at = "save"
                                                  /\ Unshared(r, tables)[g].copy = job[g].copy
                          /\ job[g].at # "save" => Unshared(r, tables)[g] = job[g]
    BY UnsharedOK DEF Unshared
<1>5. \A q \in Replicas : CM!Ids(cache'[q].contracts) \subseteq ContractNos
    BY <1>1 DEF Core, FollowInv, Listed
<1>6. \A g \in Handlers : job'[g].at = "save" => CM!Ids(job'[g].copy.contracts) \subseteq ContractNos
    <2>1. ASSUME NEW g \in Handlers, job'[g].at = "save"
          PROVE  CM!Ids(job'[g].copy.contracts) \subseteq ContractNos
        <3>1. CASE g = h
            BY <1>2, <1>3, <3>1
        <3>2. CASE g # h
            <4>1. job[g].at = "save" /\ job'[g].copy = job[g].copy
                BY <1>3, <1>4, <2>1, <3>2
            <4> QED
                BY <4>1 DEF FollowInv, Listed
        <3> QED
            BY <3>1, <3>2
    <2> QED
        BY <2>1
<1>7. \A g \in Handlers : Engaged(job'[g]) => job'[g].no \in ContractNos
    <2>1. ASSUME NEW g \in Handlers, Engaged(job'[g])
          PROVE  job'[g] = job[g]
        BY <1>2, <1>3, <1>4, <2>1 DEF Engaged
    <2> QED
        BY <2>1 DEF FollowInv, Listed
<1>8. Listed'
    BY <1>1, <1>5, <1>6, <1>7 DEF FollowInv, Listed
<1> QED
    BY <1>1, <1>8 DEF FollowInv, Followed

LEMMA PutFollowed ==
    ASSUME Core, FollowInv, NEW h \in Handlers, NEW r \in Replicas, PutWorkspace(h, r) \/ PutFrontend(h, r)
    PROVE  FollowInv'
<1>1. CM!IsStore(cache[r]) /\ CM!Ids(cache[r].contracts) \subseteq ContractNos
    BY CoreParts DEF FollowInv, Listed
<1>2. ASSUME NEW ws \in Workspaces, Replaced(h, r, CM!ReplaceWorkspace(cache[r], ws), WorkspaceHalf)
      PROVE  FollowInv'
    <2>1. CM!Ids(CM!ReplaceWorkspace(cache[r], ws).contracts) \subseteq ContractNos
        BY <1>1, ReplacedWorkspace, BodiesAssumption
    <2> QED
        BY <1>2, <2>1, ReplacedFollowed
<1>3. ASSUME NEW fe \in Frontends,
             Replaced(h, r, CM!ReplaceFrontend(cache[r], fe), FrontendHalf \cup {"projects", "tasks", "photos"})
      PROVE  FollowInv'
    <2>1. CM!Ids(CM!ReplaceFrontend(cache[r], fe).contracts) \subseteq ContractNos
        BY <1>1, ReplacedFrontend
    <2> QED
        BY <1>3, <2>1, ReplacedFollowed
<1> QED
    BY <1>2, <1>3 DEF PutWorkspace, PutFrontend

\* A snapshot names no contract that neither the copy nor the cache does.
LEMMA TornNames ==
    ASSUME NEW copy, NEW now, CM!IsStore(copy), CM!IsStore(now), NEW shared,
           NEW st \in CM!TornStores(copy, now, shared)
    PROVE  CM!Ids(st.contracts) \subseteq CM!Ids(copy.contracts) \cup CM!Ids(now.contracts)
<1> DEFINE moved == {t \in shared \ {"photos"} : copy[t] # now[t]}
           reads == {rows \in [moved -> UNION {CM!Torn(copy[t], now[t]) : t \in moved}] :
                       \A t \in moved : rows[t] \in CM!Torn(copy[t], now[t])}
           photos == {copy.photos} \cup (IF "photos" \in shared THEN {now.photos} ELSE {})
<1>1. PICK rows \in reads, map \in photos :
        st = [t \in DOMAIN copy |-> IF t \in moved THEN rows[t] ELSE IF t = "photos" THEN map ELSE copy[t]]
    <2>1. \E map \in photos :
             st \in {[t \in DOMAIN copy |-> IF t \in moved THEN rows[t] ELSE IF t = "photos" THEN map ELSE copy[t]] :
                     rows \in reads}
        BY Zenon DEF CM!TornStores
    <2> HIDE DEF moved, reads, photos
    <2> QED
        BY <2>1
<1>2. \A t \in moved : rows[t] \in CM!Torn(copy[t], now[t])
    OBVIOUS
<1> HIDE DEF moved, reads, photos
<1>3. "contracts" \in DOMAIN copy
    BY StoreParts DEF CM!Repo!Keyed
<1>4. st.contracts = copy.contracts \/ st.contracts \in CM!Torn(copy.contracts, now.contracts)
    BY <1>1, <1>2, <1>3
<1> QED
    BY <1>4 DEF CM!Torn, CM!Ids

\* Its save, and a restart.
LEMMA SaveFollowed ==
    ASSUME Core, FollowInv, NEW h \in Handlers, SaveSnapshot(h)
    PROVE  FollowInv'
<1> DEFINE r == job[h].replica
           copy == job[h].copy
           shared == job[h].shared
<1>1. /\ job[h].at = "save" /\ r \in Replicas
      /\ CM!IsStore(copy) /\ shared \subseteq Shared
    BY IdleOK DEF SaveSnapshot, Core, JobOK
<1>2. PICK o \in CM!bulkSaved(db, copy, cache[r], shared) :
          /\ db' = o.db
          /\ job' = [job EXCEPT ![h] = IF o.err = "ok" THEN [at |-> "record", replica |-> r] ELSE Idle]
    BY DEF SaveSnapshot
<1>3. cache' = cache /\ raced' = raced
    BY DEF SaveSnapshot
<1>4. PICK st \in CM!TornStores(copy, cache[r], shared) : o \in CM!Repo!SaveState(db, st)
    BY <1>2 DEF CM!bulkSaved
<1>5. CM!IsStore(st) /\ CM!Ids(st.contracts) \subseteq ContractNos
    <2>1. CM!Ids(copy.contracts) \subseteq ContractNos /\ CM!Ids(cache[r].contracts) \subseteq ContractNos
        BY <1>1 DEF FollowInv, Listed
    <2>2. CM!IsStore(cache[r])
        BY <1>1, CoreParts
    <2> HIDE DEF r, copy, shared
    <2> QED
        BY <1>1, <1>4, <2>1, <2>2, TornStore, TornNames
<1>6. DOMAIN o.db.contracts \subseteq ContractNos
    <2>1. o.db = db \/ o.db = Snapshot(db, st)
        BY <1>1, <1>4, <1>5, CoreParts, SaveSound
    <2>2. Snapshot(db, st).contracts = CM!Repo!AsTable(st.contracts)
        BY SnapshotFields, ContractRow
    <2>3. DOMAIN CM!Repo!AsTable(st.contracts) = CM!Ids(st.contracts)
        BY DEF CM!Repo!AsTable, CM!Ids
    <2> QED
        BY <1>5, <2>1, <2>2, <2>3 DEF FollowInv, Listed
<1>7. /\ job'[h].at \notin {"save", "patch", "drop", "count", "publish"}
      /\ \A g \in Handlers : g # h => job'[g] = job[g]
    BY <1>2, IdleAt DEF Core
<1>8. Listed'
    BY <1>2, <1>3, <1>6, <1>7 DEF FollowInv, Listed, Engaged
<1>9. ContractNos \subseteq raced'
    BY <1>1, <1>3 DEF FollowInv, Followed
<1> QED
    BY <1>8, <1>9 DEF FollowInv, Followed

\* A store lists known contracts, loaded or not.
LEMMA HydratedNames ==
    ASSUME NEW d, CM!Repo!IsDb(d), NEW s, s \in CM!Hydrated(d) \/ s = CM!seed
    PROVE  CM!Ids(s.contracts) \subseteq DOMAIN d.contracts
BY HydratedStore, ContractRow DEF BelowAll, Below, Unstored

LEMMA RestartFollowed ==
    ASSUME Core, FollowInv, NEW r \in Replicas, Restart(r)
    PROVE  FollowInv'
<1> DEFINE here == {h \in Handlers : job[h] # Idle /\ job[h].replica = r}
<1>1. PICK s : (s \in CM!Hydrated(db) \/ s = CM!seed) /\ cache' = [cache EXCEPT ![r] = s]
    <2>1. CASE \E s \in CM!NewStore(db) : cache' = [cache EXCEPT ![r] = s]
        BY <2>1 DEF CM!NewStore
    <2>2. CASE cache' = [cache EXCEPT ![r] = CM!seed]
        BY <2>2
    <2> QED
        BY Zenon, <2>1, <2>2 DEF Restart
<1>2. /\ db' = db /\ said' = said
      /\ raced' = raced \cup {job[h].no : h \in {g \in here : job[g].at \in {"patch", "drop", "count", "publish"}}}
    BY DEF Restart
<1>3. CM!Ids(s.contracts) \subseteq ContractNos
    BY <1>1, HydratedNames DEF Core, FollowInv, Listed
<1>4. \A q \in Replicas : CM!Ids(cache'[q].contracts) \subseteq ContractNos
    BY <1>1, <1>3 DEF Core, FollowInv, Listed
<1>5. \A g \in Handlers : \/ job'[g] = job[g]
                          \/ job'[g].at \in {"idle", "seed"} /\ (job[g] = Idle \/ g \in here)
    <2>1. Revived(r)
        BY RestartJobs DEF Core
    <2> QED
        BY <2>1, IdleAt DEF Revived
<1>6. Listed'
    BY <1>2, <1>4, <1>5 DEF FollowInv, Listed, Engaged
<1>7. ASSUME NEW no \in ContractNos \ raced'
      PROVE  Believed(no)'
    <2>1. Believed(no)
        BY <1>2, <1>7 DEF FollowInv, Followed
    <2>2. \A g \in Handlers : Engages(job[g], no) => job'[g] = job[g]
        BY <1>2, <1>5, <1>7, IdleAt DEF Engages, Engaged
    <2>3. \A g \in Handlers : Engages(job'[g], no) => job'[g] = job[g]
        BY <1>5 DEF Engages, Engaged
    <2>4. \A g \in Handlers : Engages(job'[g], no) <=> Engages(job[g], no)
        BY <2>2, <2>3
    <2> QED
        BY <1>2, <2>1, <2>3, <2>4, StillBelieved
<1>8. (\E h \in Handlers : job'[h].at = "save") => ContractNos \subseteq raced'
    BY <1>2, <1>5 DEF FollowInv, Followed
<1> QED
    BY <1>6, <1>7, <1>8 DEF FollowInv, Followed

\* The seed stores no contract; those it replaces are not followed any longer.
LEMMA SeedWorkspaceFollowed ==
    ASSUME Core, FollowInv, NEW h \in Handlers, SeedWorkspace(h)
    PROVE  FollowInv'
<1> DEFINE r == job[h].replica
<1>1. job[h].at = "seed" /\ r \in Replicas
    BY IdleOK DEF SeedWorkspace, Core, JobOK
<1>2. PICK o \in CM!Seeded(db) :
          /\ db' = o.db /\ cache' = [cache EXCEPT ![r] = o.store]
          /\ raced' = IF o.db = db THEN raced ELSE raced \cup DOMAIN db.contracts
    BY DEF SeedWorkspace
<1>3. job' = [job EXCEPT ![h] = Idle] /\ said' = said
    BY DEF SeedWorkspace
<1>4. /\ CM!Repo!IsDb(o.db) /\ (o.store \in CM!Hydrated(o.db) \/ o.store = CM!seed)
      /\ o.db = db \/ o.db = Snapshot(db, CM!seed)
    <2>1. PICK e \in CM!Repo!SaveState(db, CM!seed) :
            \E s \in IF e.err = "ok" THEN CM!Hydrated(e.db) ELSE {CM!seed} : o = [db |-> e.db, store |-> s]
        BY DEF CM!Seeded
    <2>2. CM!Repo!IsDb(e.db) /\ (e.db = db \/ e.db = Snapshot(db, CM!seed))
        BY SeedStore, SaveSound DEF Core
    <2> QED
        BY <2>1, <2>2
<1>5. o.db = db \/ DOMAIN o.db.contracts = {}
    <2>1. Snapshot(db, CM!seed).contracts = CM!Repo!AsTable(CM!seed.contracts)
        BY SnapshotFields, ContractRow
    <2>2. DOMAIN CM!Repo!AsTable(<< >>) = {}
        BY DEF CM!Repo!AsTable
    <2> QED
        BY <1>4, <2>1, <2>2, SeedStore
<1>6. /\ job'[h].at = "idle" /\ \A g \in Handlers : g # h => job'[g] = job[g]
    BY <1>3, IdleAt DEF Core
<1>7. Listed'
    <2>1. DOMAIN o.db.contracts \subseteq ContractNos
        BY <1>5 DEF FollowInv, Listed
    <2>2. CM!Ids(o.store.contracts) \subseteq ContractNos
        BY <1>4, <2>1, HydratedNames
    <2>3. \A q \in Replicas : CM!Ids(cache'[q].contracts) \subseteq ContractNos
        BY <1>1, <1>2, <2>2 DEF Core, FollowInv, Listed
    <2> QED
        BY <1>2, <1>6, <2>1, <2>3 DEF FollowInv, Listed, Engaged
<1>8. ASSUME NEW no \in ContractNos \ raced'
      PROVE  Believed(no)'
    <2>1. Believed(no)
        BY <1>2, <1>8 DEF FollowInv, Followed
    <2>2. \A g \in Handlers : Engages(job'[g], no) => job'[g] = job[g]
        BY <1>6 DEF Engages, Engaged
    <2>3. \A g \in Handlers : Engages(job'[g], no) <=> Engages(job[g], no)
        BY <1>1, <1>6 DEF Engages, Engaged
    <2>4. /\ no \in DOMAIN db'.contracts <=> no \in DOMAIN db.contracts
          /\ no \in DOMAIN db.contracts => db'.contracts[no] = db.contracts[no]
        BY <1>2, <1>5, <1>8
    <2> QED
        BY <1>3, <2>1, <2>2, <2>3, <2>4, StillBelieved
<1>9. (\E g \in Handlers : job'[g].at = "save") => ContractNos \subseteq raced'
    BY <1>2, <1>6 DEF FollowInv, Followed
<1> QED
    BY <1>7, <1>8, <1>9 DEF FollowInv, Followed

\* The promise holds at the start and is kept by every step.
LEMMA FollowInit ==
    ASSUME Init
    PROVE  FollowInv
<1>1. CM!Repo!IsDb(db) /\ DOMAIN db.contracts \subseteq ContractNos
    BY StartAssumption DEF Init
<1>2. \A r \in Replicas : CM!Ids(cache[r].contracts) \subseteq DOMAIN db.contracts
    <2>1. BelowAll(db, CM!Repo!LoadState(db))
        BY <1>1, LoadedStore
    <2>2. \A r \in Replicas : cache[r] = CM!Repo!LoadState(db)
        BY DEF Init
    <2> QED
        BY <2>1, <2>2, ContractRow DEF BelowAll, Below, Unstored
<1>3. \A h \in Handlers : job[h].at = "idle"
    BY IdleAt DEF Init
<1>4. \A no \in ContractNos : said[no] = StatusOf(db, no)
    BY DEF Init, StatusOf
<1> QED
    BY <1>1, <1>2, <1>3, <1>4 DEF FollowInv, Listed, Followed, Believed, Engages, Engaged

LEMMA FollowStep ==
    ASSUME Core, Bookkept, FollowInv, [Next]_vars
    PROVE  FollowInv'
<1>1. CASE UNCHANGED vars
    <2>1. Aside
        BY <1>1 DEF vars, Aside, GoesOn
    <2> QED
        BY <2>1, AsideStep
<1>2. CASE ContractNext
    BY <1>2, ZoneAsideStep, ContractPostedFollowed, PatchBeginsFollowed, DeleteBeginsFollowed,
       PatchContractFollowed, DeleteContractFollowed, CountAsideStep, PublishFollowed, AsideStep DEF ContractNext
<1>3. CASE PeopleNext
    BY <1>3, UserAsideStep, ProfileAsideStep, RoleAsideStep, AsideStep DEF PeopleNext
<1>4. CASE RegisterNext
    BY <1>4, EngineerAsideStep, MilestoneAsideStep, MaterialAsideStep, AsideStep DEF RegisterNext
<1>5. CASE TaskNext
    BY <1>5, ProjectAsideStep, TaskAsideStep, AsideStep DEF TaskNext
<1>6. CASE LogNext
    BY <1>6, AuditAsideStep, MessageAsideStep, AsideStep DEF LogNext
<1>7. CASE BulkNext
    BY <1>7, PutFollowed, SaveFollowed, AuditAsideStep, RestartFollowed, SeedWorkspaceFollowed,
       AsideStep DEF BulkNext
<1>8. CASE FrontendBulkNext
    BY <1>8, PutFollowed DEF FrontendBulkNext
<1> QED
    BY <1>1, <1>2, <1>3, <1>4, <1>5, <1>6, <1>7, <1>8 DEF Next

(***************************************************************************)
(* What the consumer of the status events believes, at every step of every *)
(* request about a contract that nothing raced (contract_controller.go).   *)
(***************************************************************************)
THEOREM FollowInvariant == Spec => []FollowInv
<1>1. Init => FollowInv
    BY FollowInit
<1>2. (Core /\ Bookkept) /\ FollowInv /\ [Next]_vars => FollowInv'
    BY FollowStep
<1> QED
    BY <1>1, <1>2, WorkspaceInvariant, PTL DEF Spec

(***************************************************************************)
(* A consumer of the status events ends with the stored status of every    *)
(* contract whose requests did not race (contract_controller.go, Create,   *)
(* Patch and Delete: the events go out after the lock is gone).            *)
(***************************************************************************)
THEOREM StatusesFollowed == Spec => []StatusFollowed
<1>1. FollowInv => StatusFollowed
    <2>1. ASSUME FollowInv, NEW no \in ContractNos, no \notin raced, ~OnContract(no)
          PROVE  said[no] = (IF no \in DOMAIN db.contracts THEN db.contracts[no].status ELSE None)
        <3>1. Believed(no) /\ \A h \in Handlers : ~Engages(job[h], no)
            BY <2>1, OnContractEngages DEF FollowInv, Followed
        <3> QED
            BY <3>1 DEF Believed, StatusOf
    <2> QED
        BY <2>1 DEF StatusFollowed
<1> QED
    BY <1>1, FollowInvariant, PTL

\* A request that is one step moves no handler.
LEMMA RequestsKeepJobs ==
    ASSUME NEW r \in Replicas,
           \/ ZoneRequests(r) \/ UserRequests(r) \/ ProfileRequests(r) \/ RoleRequests(r)
           \/ EngineerRequests(r) \/ MilestoneRequests(r) \/ MaterialRequests(r)
           \/ ProjectRequests(r) \/ TaskRequests(r) \/ PostAssistance(r) \/ PutAiScan(r)
    PROVE  job' = job
<1>1. CASE ZoneRequests(r)
    BY <1>1 DEF ZoneRequests, Create, Change, Destroy, Request
<1>2. CASE UserRequests(r) \/ ProfileRequests(r) \/ RoleRequests(r)
    BY <1>2 DEF UserRequests, ProfileRequests, RoleRequests, Create, Change, Destroy, Request
<1>3. CASE EngineerRequests(r) \/ MilestoneRequests(r) \/ MaterialRequests(r)
    BY <1>3 DEF EngineerRequests, MilestoneRequests, MaterialRequests, Create, Change, Destroy, Request
<1>4. CASE ProjectRequests(r) \/ TaskRequests(r)
    BY <1>4 DEF ProjectRequests, TaskRequests, Create, Change, Destroy, Request
<1>5. CASE PostAssistance(r) \/ PutAiScan(r)
    BY <1>5 DEF PostAssistance, PutAiScan, Create, Change, Destroy, Request
<1> QED
    BY <1>1, <1>2, <1>3, <1>4, <1>5

\* A patch that is under way ends, with something written, in its own second step only.
LEMMA PatchEnds ==
    ASSUME Core, [Next]_vars, NEW h \in Handlers, job[h].at = "patch", job'[h] # job[h], db' # db
    PROVE  PatchContract(h)
<1>1. job = [g \in Handlers |-> job[g]] /\ job[h] # Idle
    BY IdleOK DEF Core
<1>2. ASSUME NEW g \in Handlers, g # h,
             \E k : job' = [job EXCEPT ![g] = k]
      PROVE  FALSE
    BY <1>1, <1>2
<1>3. ASSUME NEW g \in Handlers, (\E r \in Replicas : ContractPosted(g, r)) \/ DeleteContract(g) \/ SeedWorkspace(g)
      PROVE  FALSE
    <2>1. g # h
        BY <1>1, <1>3 DEF ContractPosted, DeleteContract, SeedWorkspace
    <2>2. job' = job \/ \E k : job' = [job EXCEPT ![g] = k]
        <3>1. CASE \E r \in Replicas : ContractPosted(g, r)
            BY <3>1 DEF ContractPosted
        <3>2. CASE DeleteContract(g)
            BY <3>2 DEF DeleteContract
        <3>3. CASE SeedWorkspace(g)
            BY <3>3 DEF SeedWorkspace
        <3> QED
            BY <1>3, <3>1, <3>2, <3>3
    <2> QED
        BY <1>2, <2>1, <2>2
<1>4. ASSUME NEW g \in Handlers, CountZone(g)
      PROVE  FALSE
    <2>1. g # h /\ job'[h] = job[h]
        BY <1>1, <1>4 DEF CountZone
    <2> QED
        BY <2>1
<1>5. ASSUME NEW g \in Handlers, PatchContract(g)
      PROVE  PatchContract(h)
    <2>1. \E k : job' = [job EXCEPT ![g] = k]
        BY <1>5 DEF PatchContract
    <2> QED
        BY <1>2, <1>5, <2>1
<1>6. ASSUME NEW g \in Handlers, NEW r \in Replicas, g # h, StoreEntry(g, r)
      PROVE  FALSE
    BY <1>2, <1>6 DEF StoreEntry
<1>7. ASSUME NEW g \in Handlers, SaveSnapshot(g)
      PROVE  FALSE
    <2>1. g # h /\ \E k : job' = [job EXCEPT ![g] = k]
        BY <1>7 DEF SaveSnapshot
    <2> QED
        BY <1>2, <2>1
<1>8. CASE ContractNext
    BY <1>3, <1>4, <1>5, <1>8, RequestsKeepJobs DEF ContractNext, PatchBegins, DeleteBegins, PublishContract
<1>9. CASE PeopleNext \/ RegisterNext \/ TaskNext
    BY <1>9, RequestsKeepJobs DEF PeopleNext, RegisterNext, TaskNext
<1>10. CASE LogNext
    BY <1>1, <1>6, <1>10, RequestsKeepJobs DEF LogNext, AppendAudit, AuditRing
<1>11. CASE BulkNext
    BY <1>3, <1>6, <1>7, <1>11, IdleOK DEF BulkNext, PutWorkspace, Replaced, RecordBulkReplace, AuditRing, Restart, Core, JobOK
<1>12. CASE FrontendBulkNext
    BY <1>12 DEF FrontendBulkNext, PutFrontend, Replaced
<1> QED
    BY <1>8, <1>9, <1>10, <1>11, <1>12 DEF Next, vars

\* A contractor's patch, at its second step.
LEMMA ContractorStep ==
    ASSUME Core, FollowInv, [Next]_vars, NEW h \in Handlers
    PROVE  ReportsOnly(h)
<1> DEFINE j == job[h]
<1> SUFFICES ASSUME j.at = "patch", job'[h] # j, db' # db,
                    ~CM!sessionCanMutate(j.sess), upset[j.replica] = {}, j.no \notin raced
             PROVE  /\ db.contracts[j.no].sup = j.sess.sup
                    /\ \E p \in Reports : db'.contracts = [db.contracts EXCEPT ![j.no].report = p]
    BY DEF ReportsOnly
<1>1. PatchContract(h)
    BY PatchEnds
<1>2. j.no \in ContractNos /\ j.replica \in Replicas /\ j.patch \in Patches
    BY IdleAt DEF FollowInv, Listed, Engaged, Core, JobOK
<1>3. PICK o \in CM!updateContract(db, cache[j.replica], j.no, j.patch) : db' = o.db
    BY <1>1 DEF PatchContract, Commit
<1>4. /\ j.no \in DOMAIN db.contracts /\ {"status", "sup", "report"} \subseteq DOMAIN db.contracts[j.no]
      /\ Fits(j, j.no)
      /\ \/ Unwritten(db, o)
         \/ Written(o, [db.contracts EXCEPT ![j.no] = CM!Patched(db.contracts[j.no], j.patch)])
    BY <1>2, <1>3, PatchedFollowed
<1>5. ~TouchesPrivilegedFields(j.patch) /\ db.contracts[j.no].sup = j.sess.sup
    BY <1>4 DEF Fits
<1>6. PICK p \in Reports : j.patch = [report |-> p]
    BY <1>2, <1>5 DEF Patches, TouchesPrivilegedFields
<1>7. CM!Patched(db.contracts[j.no], j.patch) = [db.contracts[j.no] EXCEPT !.report = p]
    BY <1>4, <1>6 DEF CM!Patched
<1>8. db'.contracts = [db.contracts EXCEPT ![j.no].report = p]
    BY <1>3, <1>4, <1>7 DEF Unwritten, Written
<1> QED
    BY <1>5, <1>8

(***************************************************************************)
(* A contractor's PATCH changes nothing but the report of a contract he    *)
(* supervises, although he is let through in one critical section and his  *)
(* patch applied in another (contract_controller.go, Patch), as long as    *)
(* his replica was not stale and nobody else was changing the contract.    *)
(***************************************************************************)
THEOREM ContractorsOnlyReport == Spec => ContractorsReportOnly
<1>1. Core /\ Bookkept /\ FollowInv /\ [Next]_vars => [\A h \in Handlers : ReportsOnly(h)]_vars
    BY ContractorStep
<1> QED
    BY <1>1, WorkspaceInvariant, FollowInvariant, PTL DEF Spec, ContractorsReportOnly

===============================================================================
