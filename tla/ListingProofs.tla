---------------------------- MODULE ListingProofs ----------------------------
(***************************************************************************)
(* Proofs about Listing: a client gets the caller's rows only, a total     *)
(* covers the pages before it, no row that stayed is skipped and, by       *)
(* cursor, none is repeated.  For any ids, times, limits, filters and any  *)
(* number of rows and changes.                                             *)
(*                                                                         *)
(* The order of the rows comes first, for any set of rows and any times of *)
(* creation; then what one page does to a walk; then the actions.          *)
(***************************************************************************)
EXTENDS Listing, FiniteSetTheorems, WellFoundedInduction, TLAPS

-----------------------------------------------------------------------------
(* The order of rows, at[i] being the time row i was created. *)

(* ORDER BY created_at DESC, id DESC: i comes before j. *)
Prec(at, i, j) == at[i] > at[j] \/ (at[i] = at[j] /\ i > j)

Above(rows, at, i) == {j \in rows : Prec(at, j, i)}
Rank(rows, at, i) == Cardinality(Above(rows, at, i))
Low(rows, at, o) == {i \in rows : Rank(rows, at, i) < o}

(* LIMIT n OFFSET o. *)
Window(rows, at, n, o) == {i \in rows : Rank(rows, at, i) \in o .. o + n - 1}

(* Row l comes last. *)
IsLast(at, rows, l) == l \in rows /\ \A j \in rows \ {l} : Prec(at, j, l)

(* Row i is not beyond the cursor c: at it, or before it. *)
Passed(at, c, i) == at[i] > c[1] \/ (at[i] = c[1] /\ i >= c[3])

(* The natural numbers are well ordered. *)
LEMMA LeastNat ==
    ASSUME NEW T, T \subseteq Nat, T # {}
    PROVE  \E x \in T : \A y \in T : x <= y
<1>1. PICK x \in T : \A y \in T : ~(<<y, x>> \in OpToRel(<, Nat))
  BY NatLessThanWellFounded, WFMin
<1>2. \A y \in T : x <= y
  <2>1. ASSUME NEW y \in T, y < x
        PROVE  FALSE
    BY <1>1, <2>1 DEF OpToRel
  <2>. QED BY <2>1
<1>. QED BY <1>2

(* A set of rows that is not empty has a last one, which is what the       *)
(* cursor of a full page names.                                            *)
LEMMA LastExists ==
    ASSUME NEW at \in [Ids -> Nat], NEW rows \in SUBSET Ids, rows # {}
    PROVE  \E l : IsLast(at, rows, l)
<1>0. Ids \subseteq Nat
  BY ListingAssumption
<1>1. PICK T : T = {at[i] : i \in rows}
  OBVIOUS
<1>2. PICK t \in T : \A y \in T : t <= y
  <2>1. T # {} /\ T \subseteq Nat
    BY <1>1
  <2>. QED BY <2>1, LeastNat
<1>3. PICK I : I = {i \in rows : at[i] = t}
  OBVIOUS
<1>4. PICK l \in I : \A i \in I : l <= i
  <2>1. I # {} /\ I \subseteq Nat
    BY <1>0, <1>1, <1>2, <1>3
  <2>. QED BY <2>1, LeastNat
<1>5. ASSUME NEW j \in rows \ {l}
      PROVE  Prec(at, j, l)
  <2>1. at[l] = t /\ at[l] <= at[j] /\ j \in Nat /\ l \in Nat /\ at[j] \in Nat /\ at[l] \in Nat
    BY <1>0, <1>1, <1>2, <1>3, <1>4
  <2>2. CASE at[j] = t
    BY <1>3, <1>4, <2>1, <2>2 DEF Prec
  <2>3. CASE at[j] # t
    BY <2>1, <2>3 DEF Prec
  <2>. QED BY <2>2, <2>3
<1>. QED BY <1>3, <1>4, <1>5 DEF IsLast

(* Any two rows are ordered, one way only, and the order is transitive. *)
LEMMA PrecIsOrder ==
    ASSUME NEW at \in [Ids -> Nat]
    PROVE  /\ \A i \in Ids : ~Prec(at, i, i)
           /\ \A i, j \in Ids : i # j => Prec(at, i, j) \/ Prec(at, j, i)
           /\ \A i, j, k \in Ids : Prec(at, i, j) /\ Prec(at, j, k) => Prec(at, i, k)
<1>1. \A i \in Ids : i \in Nat /\ at[i] \in Nat
  BY ListingAssumption
<1>. QED BY <1>1 DEF Prec

(* A rank is a number of rows. *)
LEMMA RankIsNat ==
    ASSUME NEW rows \in SUBSET Ids, NEW at, NEW i
    PROVE  /\ IsFiniteSet(rows) /\ Cardinality(rows) \in Nat
           /\ IsFiniteSet(Above(rows, at, i)) /\ Above(rows, at, i) \subseteq rows
           /\ Rank(rows, at, i) \in Nat
<1>1. IsFiniteSet(Ids)
  BY ListingAssumption
<1>2. IsFiniteSet(rows)
  BY <1>1, FS_Subset
<1>3. Above(rows, at, i) \subseteq rows
  BY DEF Above
<1>4. IsFiniteSet(Above(rows, at, i))
  BY <1>2, <1>3, FS_Subset
<1>. QED BY <1>2, <1>3, <1>4, FS_CardinalityType DEF Rank

(* A row's rank exceeds that of every row before it. *)
LEMMA RankGrows ==
    ASSUME NEW at \in [Ids -> Nat], NEW rows \in SUBSET Ids, NEW i \in rows, NEW j \in rows,
           Prec(at, j, i)
    PROVE  Rank(rows, at, j) < Rank(rows, at, i)
<1>1. PICK A, B : A = Above(rows, at, j) /\ B = Above(rows, at, i)
  OBVIOUS
<1>2. IsFiniteSet(A) /\ IsFiniteSet(B) /\ Cardinality(A) \in Nat /\ Cardinality(B) \in Nat
  BY <1>1, RankIsNat DEF Rank
<1>3. j \notin A /\ A \cup {j} \subseteq B
  BY <1>1, PrecIsOrder DEF Above
<1>4. Cardinality(A \cup {j}) = Cardinality(A) + 1
  BY <1>2, <1>3, FS_AddElement
<1>5. Cardinality(A \cup {j}) <= Cardinality(B)
  BY <1>2, <1>3, FS_Subset
<1>. QED BY <1>1, <1>2, <1>4, <1>5 DEF Rank

(* The rows of rank below o are o rows, or all of them. *)
LEMMA LowCounts ==
    ASSUME NEW at \in [Ids -> Nat], NEW rows \in SUBSET Ids, NEW o \in Nat
    PROVE  /\ Cardinality(Low(rows, at, o)) \in 0 .. o
           /\ Cardinality(Low(rows, at, o)) < o => Low(rows, at, o) = rows
<1>1. PICK L : L = Low(rows, at, o)
  OBVIOUS
<1>2. L \subseteq rows /\ L \in SUBSET Ids
  BY <1>1 DEF Low
<1>3. IsFiniteSet(L) /\ Cardinality(L) \in Nat
  BY <1>2, RankIsNat
<1>4. Cardinality(L) <= o
  <2>1. CASE L = {}
    BY <2>1, FS_EmptySet
  <2>2. CASE L # {}
    <3>1. PICK l : IsLast(at, L, l)
      BY <1>2, <2>2, LastExists
    <3>2. PICK A : A = Above(rows, at, l)
      OBVIOUS
    <3>3. IsFiniteSet(A) /\ Cardinality(A) \in Nat /\ Cardinality(A) < o
      BY <1>1, <3>1, <3>2, RankIsNat DEF Rank, Low, IsLast
    <3>4. L \subseteq A \cup {l}
      BY <1>2, <3>1, <3>2 DEF Above, IsLast
    <3>5. IsFiniteSet(A \cup {l}) /\ Cardinality(A \cup {l}) <= Cardinality(A) + 1
      BY <3>3, FS_AddElement
    <3>6. Cardinality(L) <= Cardinality(A \cup {l}) /\ Cardinality(A \cup {l}) \in Nat
      BY <3>4, <3>5, FS_Subset, FS_CardinalityType
    <3>. QED BY <1>3, <3>3, <3>5, <3>6
  <2>. QED BY <2>1, <2>2
<1>5. ASSUME Cardinality(L) < o, L # rows
      PROVE  FALSE
  <2>1. PICK T : T = {Rank(rows, at, i) : i \in rows \ L}
    OBVIOUS
  <2>2. T # {} /\ T \subseteq Nat
    BY <1>2, <1>5, <2>1, RankIsNat
  <2>3. PICK t \in T : \A y \in T : t <= y
    BY <2>2, LeastNat
  <2>4. PICK i \in rows \ L : t = Rank(rows, at, i)
    BY <2>1, <2>3
  <2>5. ASSUME NEW j \in Above(rows, at, i)
        PROVE  j \in L
    <3>1. j \in rows /\ Prec(at, j, i)
      BY <2>5 DEF Above
    <3>2. Rank(rows, at, j) < Rank(rows, at, i)
      BY <3>1, <2>4, RankGrows
    <3>3. j \notin rows \ L
      BY <2>1, <2>2, <2>3, <2>4, <3>2
    <3>. QED BY <3>1, <3>3
  <2>6. Rank(rows, at, i) <= Cardinality(L) /\ Rank(rows, at, i) \in Nat
    BY <1>3, <2>5, FS_Subset, RankIsNat DEF Rank
  <2>7. i \in L
    BY <1>1, <1>3, <1>5, <2>4, <2>6 DEF Low
  <2>. QED BY <2>4, <2>7
<1>. QED BY <1>1, <1>3, <1>4, <1>5

-----------------------------------------------------------------------------
(* What a page is.  next is the cursor it carries. *)

Cursor(at, page, n, next) ==
    \/ Cardinality(page) # n /\ next = <<>>
    \/ Cardinality(page) = n /\ \E l \in page : IsLast(at, page, l) /\ next = <<at[l], Tab, l>>

(* A page has at most n rows.  A short one reaches the end; a full one     *)
(* leaves exactly the rows that are past its cursor.                       *)
LEMMA PageReaches ==
    ASSUME NEW at \in [Ids -> Nat], NEW rows \in SUBSET Ids, NEW o \in Nat, NEW n \in Nat \ {0},
           NEW page, page = Window(rows, at, n, o), NEW next, Cursor(at, page, n, next)
    PROVE  /\ IsFiniteSet(page) /\ Cardinality(page) \in Nat /\ Cardinality(page) <= n
           /\ page # {} => o + Cardinality(page) <= Cardinality(Low(rows, at, o + n))
           /\ next = <<>> => \A i \in rows : Rank(rows, at, i) < o + n
           /\ next # <<>> => /\ page # {}
                             /\ \A i \in rows : Passed(at, next, i) <=> Rank(rows, at, i) < o + n
<1>1. PICK L, H : L = Low(rows, at, o) /\ H = Low(rows, at, o + n)
  OBVIOUS
<1>2. \A i \in rows : Rank(rows, at, i) \in Nat
  BY RankIsNat
<1>3. page \subseteq rows /\ L \subseteq rows /\ H \subseteq rows
  BY <1>1 DEF Low, Window
<1>4. L \cap page = {} /\ H = L \cup page
  <2>1. \A i \in rows : /\ i \in page <=> o <= Rank(rows, at, i) /\ Rank(rows, at, i) < o + n
                        /\ i \in L <=> Rank(rows, at, i) < o
                        /\ i \in H <=> Rank(rows, at, i) < o + n
    BY <1>1, <1>2 DEF Low, Window
  <2>. QED BY <1>2, <1>3, <2>1
<1>5. /\ IsFiniteSet(page) /\ IsFiniteSet(L) /\ IsFiniteSet(H)
      /\ Cardinality(page) \in Nat /\ Cardinality(L) \in Nat /\ Cardinality(H) \in Nat
  BY <1>3, RankIsNat
<1>6. Cardinality(H) = Cardinality(L) + Cardinality(page)
  <2>1. Cardinality(L \cap page) = 0
    BY <1>4, FS_EmptySet
  <2>2. Cardinality(L \cup page) = Cardinality(L) + Cardinality(page) - Cardinality(L \cap page)
    BY <1>5, FS_Union
  <2>. QED BY <1>4, <1>5, <2>1, <2>2
<1>7. /\ Cardinality(L) <= o /\ (Cardinality(L) < o => L = rows)
      /\ Cardinality(H) <= o + n /\ (Cardinality(H) < o + n => H = rows)
  <2>1. o + n \in Nat
    OBVIOUS
  <2>. QED BY <1>1, <1>5, <2>1, LowCounts
<1>8. page # {} => Cardinality(L) = o
  BY <1>3, <1>4, <1>5, <1>7
<1>9. page = {} => Cardinality(page) = 0
  BY FS_EmptySet
<1>10. Cardinality(page) <= n
  BY <1>5, <1>6, <1>7, <1>8, <1>9
<1>11. page # {} => o + Cardinality(page) <= Cardinality(H)
  BY <1>5, <1>6, <1>8
<1>12. ASSUME next = <<>>
       PROVE  \A i \in rows : Rank(rows, at, i) < o + n
  <2>1. Cardinality(page) # n
    BY <1>12 DEF Cursor
  <2>2. Cardinality(H) < o + n
    BY <1>5, <1>6, <1>7, <1>8, <1>9, <1>10, <2>1
  <2>. QED BY <1>1, <1>7, <2>2 DEF Low
<1>13. ASSUME next # <<>>
       PROVE  /\ page # {}
              /\ \A i \in rows : Passed(at, next, i) <=> Rank(rows, at, i) < o + n
  <2>1. PICK l \in page : IsLast(at, page, l) /\ next = <<at[l], Tab, l>>
    BY <1>13 DEF Cursor
  <2>2. l \in rows /\ l \in Ids /\ Rank(rows, at, l) < o + n /\ o <= Rank(rows, at, l)
    BY <1>2, <1>3 DEF Window
  <2>3. next[1] = at[l] /\ next[3] = l
    BY <2>1
  <2>4. \A i \in Ids : Passed(at, next, i) <=> i = l \/ Prec(at, i, l)
    <3>1. \A i \in Ids : i \in Nat /\ at[i] \in Nat
      BY ListingAssumption
    <3>. QED BY <2>2, <2>3, <3>1 DEF Passed, Prec
  <2>5. ASSUME NEW i \in rows, Passed(at, next, i)
        PROVE  Rank(rows, at, i) < o + n
    <3>1. CASE i = l
      BY <2>2, <3>1
    <3>2. CASE Prec(at, i, l)
      BY <1>2, <2>2, <3>2, RankGrows
    <3>. QED BY <2>4, <2>5, <3>1, <3>2
  <2>6. ASSUME NEW i \in rows, Rank(rows, at, i) < o + n, ~Passed(at, next, i)
        PROVE  FALSE
    <3>1. Prec(at, l, i)
      BY <2>2, <2>4, <2>6, PrecIsOrder
    <3>2. Rank(rows, at, l) < Rank(rows, at, i)
      BY <2>2, <3>1, RankGrows
    <3>3. i \in page
      BY <1>2, <2>2, <2>6, <3>2 DEF Window
    <3>4. Prec(at, i, l)
      BY <2>1, <2>2, <2>4, <2>6, <3>3 DEF IsLast
    <3>. QED BY <2>2, <2>4, <2>6, <3>4
  <2>. QED BY <2>5, <2>6
<1>. QED BY <1>1, <1>5, <1>10, <1>11, <1>12, <1>13

(* Rows that are all before row i are at most as many as its rank. *)
LEMMA RankCounts ==
    ASSUME NEW rows \in SUBSET Ids, NEW at, NEW i, NEW N \in SUBSET rows,
           \A j \in N : Prec(at, j, i)
    PROVE  Cardinality(N) <= Rank(rows, at, i)
<1>1. N \subseteq Above(rows, at, i)
  BY DEF Above
<1>. QED BY <1>1, RankIsNat, FS_Subset DEF Rank

-----------------------------------------------------------------------------
(* Where a walk w stands among the rows M that match it now.  S are those  *)
(* that have matched since it began.                                       *)

RowsSound(w, M, at, S) ==
    M \subseteq Ids /\ S \subseteq M /\ \A i \in M \cup w.seen : at[i] > 0

CursorSound(w) == w.cursor # <<>> => \E t \in Nat \ {0}, i \in Ids : w.cursor = <<t, Tab, i>>

(* A walk without a cursor has ended, or has not begun if it has to ask. *)
EndsSound(w) ==
    /\ w.pc = "ask" /\ w.cursor = <<>> => w.seen = {} /\ w.offset = 0 /\ ~w.byOffset
    /\ w.pc = "done" => w.cursor = <<>>

(* By cursor: whatever was seen is not past the cursor. *)
SeenIsPassed(w, at) ==
    ~w.byOffset => /\ ~w.repeated
                   /\ w.cursor # <<>> => \A i \in w.seen : Passed(at, w.cursor, i)
                   /\ w.offset = 0 => w.seen = {}

(* Whatever stayed and is not past the cursor was seen. *)
PassedIsSeen(w, at, S) ==
    (w.byOffset => w.status = AnyStatus) =>
        /\ w.cursor # <<>> => \A i \in S : Passed(at, w.cursor, i) => i \in w.seen
        /\ w.cursor = <<>> /\ w.pc \in {"count", "done"} => S \subseteq w.seen

(* Where no row can leave the listing, the offset never gets beyond the    *)
(* rows, nor beyond those the cursor has passed, and whatever stayed above *)
(* it was seen.                                                            *)
OffsetSound(w, M, at, S) ==
    w.list = "payments" /\ w.status = AnyStatus =>
        /\ w.offset <= Cardinality(M)
        /\ \A i \in S : Rank(M, at, i) < w.offset => i \in w.seen
        /\ w.cursor # <<>> => w.offset <= Cardinality({i \in M : Passed(at, w.cursor, i)})

Position(w, M, at, S) ==
    /\ RowsSound(w, M, at, S) /\ CursorSound(w) /\ EndsSound(w)
    /\ SeenIsPassed(w, at) /\ PassedIsSeen(w, at, S) /\ OffsetSound(w, M, at, S)

(* Inserts, status changes and prunings leave every walk where it stood.   *)
LEMMA TablesMove ==
    ASSUME NEW w, w.offset \in Nat, w.seen \subseteq Ids,
           NEW at \in [Ids -> Nat], NEW at2 \in [Ids -> Nat],
           \A i \in Ids : at[i] > 0 => at2[i] = at[i],
           NEW M, NEW M2 \in SUBSET Ids, \A i \in M2 : at2[i] > 0,
           w.list = "payments" /\ w.status = AnyStatus => M \subseteq M2,
           NEW S, NEW S2, S2 = S \cap M2, Position(w, M, at, S)
    PROVE  Position(w, M2, at2, S2)
<1>1. RowsSound(w, M, at, S) /\ CursorSound(w) /\ EndsSound(w)
  BY DEF Position
<1>2. /\ M \subseteq Ids /\ S2 \subseteq S /\ S2 \subseteq M /\ S2 \subseteq M2
      /\ \A i \in M \cup w.seen : at[i] > 0 /\ at2[i] = at[i]
  BY <1>1 DEF RowsSound
<1>3. \A c : \A i \in M \cup w.seen : Passed(at2, c, i) <=> Passed(at, c, i)
  BY <1>2 DEF Passed
<1>4. RowsSound(w, M2, at2, S2)
  BY <1>2 DEF RowsSound
<1>5. SeenIsPassed(w, at2)
  BY <1>3 DEF Position, SeenIsPassed
<1>6. PassedIsSeen(w, at2, S2)
  BY <1>2, <1>3 DEF Position, PassedIsSeen
<1>7. ASSUME w.list = "payments" /\ w.status = AnyStatus
      PROVE  /\ w.offset <= Cardinality(M2)
             /\ \A i \in S2 : Rank(M2, at2, i) < w.offset => i \in w.seen
             /\ w.cursor # <<>> => w.offset <= Cardinality({i \in M2 : Passed(at2, w.cursor, i)})
  <2>1. M \subseteq M2 /\ OffsetSound(w, M, at, S)
    BY <1>7 DEF Position
  <2>2. w.offset <= Cardinality(M2)
    <3>1. Cardinality(M) <= Cardinality(M2) /\ Cardinality(M) \in Nat /\ Cardinality(M2) \in Nat
      BY <1>2, <2>1, RankIsNat, FS_Subset
    <3>. QED BY <1>7, <2>1, <3>1 DEF OffsetSound
  <2>3. ASSUME NEW i \in S2, Rank(M2, at2, i) < w.offset
        PROVE  i \in w.seen
    <3>1. Above(M, at, i) \subseteq Above(M2, at2, i)
      BY <1>2, <2>1 DEF Above, Prec
    <3>2. Rank(M, at, i) <= Rank(M2, at2, i) /\ Rank(M, at, i) \in Nat /\ Rank(M2, at2, i) \in Nat
      BY <1>2, <3>1, RankIsNat, FS_Subset DEF Rank
    <3>. QED BY <1>2, <1>7, <2>1, <2>3, <3>2 DEF OffsetSound
  <2>4. ASSUME w.cursor # <<>>
        PROVE  w.offset <= Cardinality({i \in M2 : Passed(at2, w.cursor, i)})
    <3>1. PICK A, B : /\ A = {i \in M : Passed(at, w.cursor, i)}
                      /\ B = {i \in M2 : Passed(at2, w.cursor, i)}
      OBVIOUS
    <3>2. A \subseteq B /\ A \in SUBSET Ids /\ B \in SUBSET Ids
      BY <1>2, <1>3, <2>1, <3>1
    <3>3. Cardinality(A) <= Cardinality(B) /\ Cardinality(A) \in Nat /\ Cardinality(B) \in Nat
      BY <3>2, RankIsNat, FS_Subset
    <3>4. w.offset <= Cardinality(A)
      BY <1>7, <2>1, <2>4, <3>1 DEF OffsetSound
    <3>. QED BY <3>1, <3>3, <3>4
  <2>. QED BY <2>2, <2>3, <2>4
<1>. QED BY <1>1, <1>4, <1>5, <1>6, <1>7 DEF Position, OffsetSound

(* A page of rows has been answered. *)
Answered(w, w2, at, page, n, o, byOffset) ==
    /\ w2.list = w.list /\ w2.status = w.status
    /\ w2.seen = w.seen \cup page
    /\ w2.repeated <=> w.repeated \/ page \cap w.seen # {}
    /\ Cursor(at, page, n, w2.cursor)
    /\ w2.offset = o + Cardinality(page)
    /\ w2.byOffset <=> byOffset
    /\ w2.pc = "ask" => w2.cursor # <<>>
    /\ w2.pc = "done" => w2.cursor = <<>>

(* The cursor an answer carries names a row of the page. *)
LEMMA CursorIsSound ==
    ASSUME NEW w, NEW w2, NEW at \in [Ids -> Nat], NEW page \in SUBSET Ids,
           NEW n, NEW o, NEW byOffset,
           Answered(w, w2, at, page, n, o, byOffset), \A i \in page : at[i] > 0
    PROVE  /\ CursorSound(w2) /\ EndsSound(w2)
           /\ w2.cursor # <<>> => \A i \in page : Passed(at, w2.cursor, i)
<1>1. EndsSound(w2)
  BY DEF Answered, EndsSound
<1>2. ASSUME w2.cursor # <<>>
      PROVE  /\ \E t \in Nat \ {0}, i \in Ids : w2.cursor = <<t, Tab, i>>
             /\ \A i \in page : Passed(at, w2.cursor, i)
  <2>1. PICK l \in page : IsLast(at, page, l) /\ w2.cursor = <<at[l], Tab, l>>
    BY <1>2 DEF Answered, Cursor
  <2>2. at[l] \in Nat \ {0} /\ l \in Ids
    OBVIOUS
  <2>3. ASSUME NEW i \in page
        PROVE  Passed(at, w2.cursor, i)
    <3>1. i = l \/ Prec(at, i, l)
      BY <2>1 DEF IsLast
    <3>2. w2.cursor[1] = at[l] /\ w2.cursor[3] = l
      BY <2>1
    <3>3. i \in Nat /\ l \in Nat /\ at[i] \in Nat /\ at[l] \in Nat
      BY <2>2, ListingAssumption
    <3>. QED BY <3>1, <3>2, <3>3 DEF Passed, Prec
  <2>. QED BY <2>1, <2>2, <2>3
<1>. QED BY <1>1, <1>2 DEF CursorSound

(* A page of the rows past a cursor carries a cursor that is further on. *)
LEMMA CursorAdvances ==
    ASSUME NEW w, CursorSound(w), w.cursor # <<>>,
           NEW at \in [Ids -> Nat], NEW l \in Ids, ~Passed(at, w.cursor, l),
           NEW i \in Ids, Passed(at, w.cursor, i)
    PROVE  Passed(at, <<at[l], Tab, l>>, i) /\ Prec(at, i, l)
<1>1. PICK t \in Nat \ {0}, k \in Ids : w.cursor = <<t, Tab, k>>
  BY DEF CursorSound
<1>2. w.cursor[1] = t /\ w.cursor[3] = k
  BY <1>1
<1>3. i \in Nat /\ l \in Nat /\ k \in Nat /\ at[i] \in Nat /\ at[l] \in Nat
  BY ListingAssumption
<1>4. PICK c : c = <<at[l], Tab, l>>
  OBVIOUS
<1>5. c[1] = at[l] /\ c[3] = l
  BY <1>4
<1>6. Passed(at, c, i) /\ Prec(at, i, l)
  BY <1>2, <1>3, <1>5 DEF Passed, Prec
<1>. QED BY <1>4, <1>6

(* A page asked for with a cursor, or without one at the beginning, leaves *)
(* the walk in a sound position.                                           *)
LEMMA CursorPageMoves ==
    ASSUME NEW w, NEW w2, w.offset \in Nat, w.seen \subseteq Ids, w.pc = "ask",
           NEW at \in [Ids -> Nat], NEW M, NEW S, Position(w, M, at, S),
           w.cursor = <<>> => w.list # "payments",
           NEW R, R = {i \in M : w.cursor # <<>> => ~Passed(at, w.cursor, i)},
           NEW n \in Nat \ {0}, NEW page, page = Window(R, at, n, 0),
           Answered(w, w2, at, page, n, w.offset, w.byOffset)
    PROVE  Position(w2, M, at, S)
<1>1. RowsSound(w, M, at, S) /\ CursorSound(w) /\ EndsSound(w)
  BY DEF Position
<1>2. page \subseteq R /\ R \subseteq M /\ M \subseteq Ids /\ page \in SUBSET Ids
      /\ R \in SUBSET Ids /\ S \subseteq M /\ M \in SUBSET Ids
  BY <1>1 DEF Window, RowsSound
<1>3. RowsSound(w2, M, at, S)
  BY <1>1, <1>2 DEF RowsSound, Answered
<1>4. /\ CursorSound(w2) /\ EndsSound(w2)
      /\ w2.cursor # <<>> => \A i \in page : Passed(at, w2.cursor, i)
  <2>1. \A i \in page : at[i] > 0
    BY <1>1, <1>2 DEF RowsSound
  <2>. QED BY <1>2, <2>1, CursorIsSound
<1>5. /\ IsFiniteSet(page) /\ Cardinality(page) \in Nat
      /\ \A i \in R : (w2.cursor = <<>> \/ Passed(at, w2.cursor, i)) => i \in page
  <2>1. PICK next : next = w2.cursor
    OBVIOUS
  <2>2. Cursor(at, page, n, next)
    BY <2>1 DEF Answered
  <2>3. /\ IsFiniteSet(page) /\ Cardinality(page) \in Nat
        /\ next = <<>> => \A i \in R : Rank(R, at, i) < 0 + n
        /\ next # <<>> => \A i \in R : Passed(at, next, i) <=> Rank(R, at, i) < 0 + n
    BY <1>2, <2>2, PageReaches
  <2>4. \A i \in R : Rank(R, at, i) < 0 + n => i \in page
    <3>1. \A i \in R : Rank(R, at, i) \in Nat
      BY <1>2, RankIsNat
    <3>. QED BY <3>1 DEF Window
  <2>. QED BY <2>1, <2>3, <2>4
<1>6. ASSUME w.cursor # <<>>, w2.cursor # <<>>, NEW i \in Ids, Passed(at, w.cursor, i)
      PROVE  Passed(at, w2.cursor, i)
  <2>1. PICK l \in page : w2.cursor = <<at[l], Tab, l>>
    BY <1>6 DEF Answered, Cursor
  <2>2. ~Passed(at, w.cursor, l) /\ l \in Ids
    BY <1>2, <1>6
  <2>. QED BY <1>1, <1>6, <2>1, <2>2, CursorAdvances
<1>7. SeenIsPassed(w2, at)
  <2>1. SUFFICES ASSUME ~w2.byOffset
                 PROVE  /\ ~w2.repeated
                        /\ w2.cursor # <<>> => \A i \in w2.seen : Passed(at, w2.cursor, i)
                        /\ w2.offset = 0 => w2.seen = {}
    BY DEF SeenIsPassed
  <2>2. /\ ~w.repeated
        /\ w.cursor # <<>> => \A i \in w.seen : Passed(at, w.cursor, i)
        /\ w.offset = 0 => w.seen = {}
    BY <2>1 DEF Position, SeenIsPassed, Answered
  <2>3. w.cursor = <<>> => w.seen = {}
    BY <1>1 DEF EndsSound
  <2>4. ~w2.repeated
    <3>1. page \cap w.seen = {}
      BY <1>2, <2>2, <2>3
    <3>. QED BY <2>2, <3>1 DEF Answered
  <2>5. w2.cursor # <<>> => \A i \in w2.seen : Passed(at, w2.cursor, i)
    <3>1. w2.seen = w.seen \cup page
      BY DEF Answered
    <3>. QED BY <1>4, <1>6, <2>2, <2>3, <3>1
  <2>6. ASSUME w2.offset = 0
        PROVE  w2.seen = {}
    <3>1. w.offset = 0 /\ Cardinality(page) = 0
      BY <1>5, <2>6 DEF Answered
    <3>2. page = {}
      BY <1>5, <3>1, FS_EmptySet
    <3>. QED BY <2>2, <3>1, <3>2 DEF Answered
  <2>. QED BY <2>4, <2>5, <2>6
<1>8. ASSUME w.byOffset => w.status = AnyStatus, NEW i \in S,
             w2.cursor = <<>> \/ Passed(at, w2.cursor, i)
      PROVE  i \in w2.seen
  <2>1. CASE i \in R
    BY <1>5, <1>8, <2>1 DEF Answered
  <2>2. CASE i \notin R
    <3>1. w.cursor # <<>> /\ Passed(at, w.cursor, i)
      BY <1>2, <2>2
    <3>2. i \in w.seen
      BY <1>8, <3>1 DEF Position, PassedIsSeen
    <3>. QED BY <3>2 DEF Answered
  <2>. QED BY <2>1, <2>2
<1>9. PassedIsSeen(w2, at, S)
  BY <1>8 DEF PassedIsSeen, Answered
<1>10. ASSUME w2.list = "payments" /\ w2.status = AnyStatus
       PROVE  /\ w2.offset <= Cardinality(M)
              /\ \A i \in S : Rank(M, at, i) < w2.offset => i \in w2.seen
              /\ w2.cursor # <<>> => w2.offset <= Cardinality({i \in M : Passed(at, w2.cursor, i)})
  <2>1. w.list = "payments" /\ w.status = AnyStatus /\ w.cursor # <<>>
    BY <1>10 DEF Answered
  <2>2. PICK N, N2 : /\ N = {i \in M : Passed(at, w.cursor, i)}
                     /\ N2 = {i \in M : Passed(at, w2.cursor, i)}
    OBVIOUS
  <2>3. N \in SUBSET M /\ N2 \in SUBSET M /\ N \cap page = {} /\ N \cup page \subseteq M
        /\ N \in SUBSET Ids /\ N2 \in SUBSET Ids /\ N \cup page \in SUBSET Ids
    BY <1>2, <2>1, <2>2
  <2>4. /\ IsFiniteSet(M) /\ IsFiniteSet(N) /\ IsFiniteSet(N2) /\ IsFiniteSet(N \cup page)
        /\ Cardinality(M) \in Nat /\ Cardinality(N) \in Nat
        /\ Cardinality(N2) \in Nat /\ Cardinality(N \cup page) \in Nat
    BY <1>2, <2>3, RankIsNat
  <2>5. Cardinality(N \cup page) = Cardinality(N) + Cardinality(page)
    <3>1. Cardinality(N \cap page) = 0
      BY <2>3, FS_EmptySet
    <3>2. Cardinality(N \cup page) = Cardinality(N) + Cardinality(page) - Cardinality(N \cap page)
      BY <1>5, <2>4, FS_Union
    <3>. QED BY <1>5, <2>4, <3>1, <3>2
  <2>6. w2.offset <= Cardinality(N \cup page) /\ w2.offset \in Nat
    <3>1. w.offset <= Cardinality(N)
      BY <2>1, <2>2 DEF Position, OffsetSound
    <3>2. w2.offset = w.offset + Cardinality(page)
      BY DEF Answered
    <3>. QED BY <1>5, <2>4, <2>5, <3>1, <3>2
  <2>7. w2.offset <= Cardinality(M)
    <3>1. Cardinality(N \cup page) <= Cardinality(M)
      BY <2>3, <2>4, FS_Subset
    <3>. QED BY <2>4, <2>6, <3>1
  <2>8. w2.cursor # <<>> => w2.offset <= Cardinality(N2)
    <3>1. ASSUME w2.cursor # <<>>
          PROVE  N \cup page \subseteq N2
      BY <1>2, <1>4, <1>6, <2>1, <2>2, <3>1
    <3>2. w2.cursor # <<>> => Cardinality(N \cup page) <= Cardinality(N2)
      BY <2>4, <3>1, FS_Subset
    <3>. QED BY <2>4, <2>6, <3>2
  <2>9. ASSUME NEW i \in S, Rank(M, at, i) < w2.offset, i \notin w2.seen
        PROVE  FALSE
    <3>1. w2.cursor # <<>> /\ ~Passed(at, w2.cursor, i)
      BY <1>8, <2>1, <2>9
    <3>2. \A j \in N2 : Prec(at, j, i)
      BY <1>2, <1>4, <2>2, <2>3, <3>1, CursorAdvances
    <3>3. Cardinality(N2) <= Rank(M, at, i) /\ Rank(M, at, i) \in Nat
      BY <1>2, <2>3, <3>2, RankCounts, RankIsNat
    <3>. QED BY <2>4, <2>6, <2>8, <2>9, <3>1, <3>3
  <2>. QED BY <2>2, <2>7, <2>8, <2>9
<1>. QED BY <1>3, <1>4, <1>7, <1>9, <1>10 DEF Position, OffsetSound

(* So does a page asked for with an offset. *)
LEMMA OffsetPageMoves ==
    ASSUME NEW w, NEW w2, w.offset \in Nat, w.seen \subseteq Ids, w.list = "payments",
           NEW at \in [Ids -> Nat], NEW M, NEW S, Position(w, M, at, S),
           NEW n \in Nat \ {0}, NEW page, page = Window(M, at, n, w.offset),
           Answered(w, w2, at, page, n, w.offset, w.byOffset \/ w.offset > 0)
    PROVE  Position(w2, M, at, S)
<1>1. RowsSound(w, M, at, S)
  BY DEF Position
<1>2. page \subseteq M /\ M \in SUBSET Ids /\ page \in SUBSET Ids /\ S \subseteq M
  BY <1>1 DEF Window, RowsSound
<1>3. RowsSound(w2, M, at, S)
  BY <1>1, <1>2 DEF RowsSound, Answered
<1>4. /\ CursorSound(w2) /\ EndsSound(w2)
      /\ w2.cursor # <<>> => \A i \in page : Passed(at, w2.cursor, i)
  <2>1. \A i \in page : at[i] > 0
    BY <1>1, <1>2 DEF RowsSound
  <2>. QED BY <1>2, <2>1, CursorIsSound
<1>5. PICK o : o = w.offset /\ o \in Nat
  OBVIOUS
<1>6. /\ IsFiniteSet(page) /\ Cardinality(page) \in Nat /\ Cardinality(page) <= n
      /\ page # {} => o + Cardinality(page) <= Cardinality(Low(M, at, o + n))
      /\ w2.cursor = <<>> => \A i \in M : Rank(M, at, i) < o + n
      /\ w2.cursor # <<>> => /\ page # {}
                             /\ \A i \in M : Passed(at, w2.cursor, i) <=> Rank(M, at, i) < o + n
  <2>1. PICK next : next = w2.cursor
    OBVIOUS
  <2>2. Cursor(at, page, n, next) /\ page = Window(M, at, n, o)
    BY <1>5, <2>1 DEF Answered
  <2>. QED BY <1>2, <1>5, <2>1, <2>2, PageReaches
<1>7. /\ w2.seen = w.seen \cup page /\ w2.offset = o + Cardinality(page)
      /\ w2.list = w.list /\ w2.status = w.status
      /\ w2.byOffset <=> w.byOffset \/ o > 0
      /\ w2.repeated <=> w.repeated \/ page \cap w.seen # {}
  BY <1>5 DEF Answered
<1>8. page = {} <=> Cardinality(page) = 0
  BY <1>6, FS_EmptySet
<1>9. SeenIsPassed(w2, at)
  <2>1. SUFFICES ASSUME ~w2.byOffset
                 PROVE  /\ ~w2.repeated
                        /\ w2.cursor # <<>> => \A i \in w2.seen : Passed(at, w2.cursor, i)
                        /\ w2.offset = 0 => w2.seen = {}
    BY DEF SeenIsPassed
  <2>2. o = 0 /\ ~w.byOffset
    BY <1>5, <1>7, <2>1
  <2>3. w.seen = {} /\ ~w.repeated
    BY <1>5, <2>2 DEF Position, SeenIsPassed
  <2>. QED BY <1>4, <1>6, <1>7, <1>8, <2>2, <2>3
<1>10. ASSUME w2.byOffset => w2.status = AnyStatus, NEW i \in S, Rank(M, at, i) < o + n
       PROVE  i \in w2.seen
  <2>1. Rank(M, at, i) \in Nat /\ i \in M
    BY <1>2, RankIsNat
  <2>2. CASE o <= Rank(M, at, i)
    <3>1. i \in page
      BY <1>5, <1>10, <2>1, <2>2 DEF Window
    <3>. QED BY <1>7, <3>1
  <2>3. CASE Rank(M, at, i) < o
    <3>1. w.status = AnyStatus
      BY <1>5, <1>7, <1>10, <2>1, <2>3
    <3>2. i \in w.seen
      BY <1>5, <2>3, <3>1 DEF Position, OffsetSound
    <3>. QED BY <1>7, <3>2
  <2>. QED BY <1>5, <2>1, <2>2, <2>3
<1>11. PassedIsSeen(w2, at, S)
  BY <1>2, <1>6, <1>10 DEF PassedIsSeen
<1>12. ASSUME w2.status = AnyStatus
       PROVE  /\ w2.offset <= Cardinality(M)
              /\ \A i \in S : Rank(M, at, i) < w2.offset => i \in w2.seen
              /\ w2.cursor # <<>> => w2.offset <= Cardinality({i \in M : Passed(at, w2.cursor, i)})
  <2>1. PICK L : L = Low(M, at, o + n)
    OBVIOUS
  <2>2. /\ L \subseteq M /\ Cardinality(L) <= Cardinality(M)
        /\ Cardinality(L) \in Nat /\ Cardinality(M) \in Nat
    <3>1. L \subseteq M /\ L \in SUBSET Ids
      BY <1>2, <2>1 DEF Low
    <3>. QED BY <1>2, <3>1, RankIsNat, FS_Subset
  <2>3. w2.offset <= Cardinality(M)
    <3>1. o <= Cardinality(M)
      BY <1>5, <1>7, <1>12 DEF Position, OffsetSound
    <3>. QED BY <1>5, <1>6, <1>7, <1>8, <2>1, <2>2, <3>1
  <2>4. \A i \in S : Rank(M, at, i) < w2.offset => i \in w2.seen
    <3>1. \A i \in S : Rank(M, at, i) \in Nat
      BY <1>2, RankIsNat
    <3>2. w2.offset <= o + n /\ w2.offset \in Nat
      BY <1>5, <1>6, <1>7
    <3>. QED BY <1>5, <1>10, <1>12, <3>1, <3>2
  <2>5. ASSUME w2.cursor # <<>>
        PROVE  w2.offset <= Cardinality({i \in M : Passed(at, w2.cursor, i)})
    <3>1. L = {i \in M : Passed(at, w2.cursor, i)}
      BY <1>6, <2>1, <2>5 DEF Low
    <3>. QED BY <1>6, <1>7, <2>1, <2>5, <3>1
  <2>. QED BY <2>3, <2>4, <2>5
<1>. QED BY <1>3, <1>4, <1>9, <1>11, <1>12 DEF Position, OffsetSound

-----------------------------------------------------------------------------
(* The inductive invariant. *)

Times(q) == [i \in Ids |-> CreatedAt(q, i)]

(* A delivery belongs to a payment that exists, and a listing of one       *)
(* payment's deliveries to a payment of the caller's.                      *)
Tenancy ==
    /\ \A i \in Ids : deliveries[i].created > 0 =>
          deliveries[i].payment \in Ids /\ payments[deliveries[i].payment].created > 0
    /\ walk.list = "of_payment" =>
          /\ walk.payment \in Ids
          /\ payments[walk.payment].created > 0 /\ payments[walk.payment].merchant = Caller

ListingInd ==
    /\ ListingInv /\ Tenancy
    /\ walk.pc = "count" => walk.list = "payments"
    /\ Position(walk, Matching(walk), Times(walk), steady)

RowsExist ==
    /\ Times(walk) \in [Ids -> Nat]
    /\ Matching(walk) \in SUBSET Ids
    /\ \A i \in Matching(walk) : Times(walk)[i] > 0

(* What a query selects are rows that exist. *)
LEMMA MatchingRows == TypeOK => RowsExist
<1>. SUFFICES ASSUME TypeOK
              PROVE  /\ Times(walk) \in [Ids -> Nat]
                     /\ Matching(walk) \in SUBSET Ids
                     /\ \A i \in Matching(walk) : Times(walk)[i] > 0
  BY DEF RowsExist
<1>1. \A i \in Ids : payments[i].created \in Nat /\ deliveries[i].created \in Nat
  BY ListingAssumption DEF TypeOK
<1>2. Times(walk) \in [Ids -> Nat]
  BY <1>1 DEF Times, CreatedAt
<1>3. walk.list \in {"none", "payments", "of_payment", "of_merchant"}
  BY DEF TypeOK
<1>4. CASE walk.list = "payments"
  BY <1>2, <1>4 DEF Matching, PaymentsOf, Stored, Times, CreatedAt
<1>5. CASE walk.list = "of_payment"
  BY <1>2, <1>5 DEF Matching, DeliveriesOfPayment, Stored, Times, CreatedAt
<1>6. CASE walk.list = "of_merchant"
  BY <1>2, <1>6 DEF Matching, DeliveriesOfMerchant, Stored, Times, CreatedAt
<1>7. CASE walk.list = "none"
  BY <1>2, <1>7 DEF Matching
<1>. QED BY <1>3, <1>4, <1>5, <1>6, <1>7

(* LIMIT and OFFSET of the model are those of the order above. *)
LEMMA SliceIsWindow ==
    ASSUME NEW rows \in SUBSET Ids, NEW n, NEW o
    PROVE  Slice(walk, rows, n, o) = Window(rows, Times(walk), n, o)
<1>1. \A i, j \in rows : Before(walk, j, i) <=> Prec(Times(walk), j, i)
  BY DEF Before, Prec, Times
<1>2. \A i \in rows : {j \in rows : Before(walk, j, i)} = Above(rows, Times(walk), i)
  BY <1>1 DEF Above
<1>. QED BY <1>2 DEF Slice, Window, Rank

(* The limit is clamped: a page may always have a row. *)
LEMMA LimitIsPositive ==
    ASSUME NEW asked \in Asked \cup {NotSent}
    PROVE  Limit(asked) \in Nat \ {0}
BY ListingAssumption DEF Limit

(* A cursor comes back as the time and the id it was made of. *)
LEMMA CursorSurvives ==
    ASSUME NEW ts \in Nat \ {0}, NEW id \in Ids
    PROVE  /\ DecodeCursor(<<ts, Tab, id>>).ts[1] = ts
           /\ DecodeCursor(<<ts, Tab, id>>).id[1] = id
<1>1. PICK raw : raw = <<ts, Tab, id>>
  OBVIOUS
<1>2. id \in Nat /\ id # 0
  BY ListingAssumption
<1>3. /\ raw \in Seq(Nat) /\ Len(raw) = 3 /\ DOMAIN raw = 1 .. 3
      /\ raw[1] = ts /\ raw[2] = 0 /\ raw[3] = id
  BY <1>1, <1>2 DEF Tab
<1>4. {k \in DOMAIN raw : raw[k] = Tab} = {2}
  BY <1>2, <1>3 DEF Tab
<1>5. PICK tabs : tabs = {k \in DOMAIN raw : raw[k] = Tab}
  OBVIOUS
<1>6. DecodeCursor(raw) = [ts |-> SubSeq(raw, 1, 1), id |-> SubSeq(raw, 3, 3)]
  <2>1. tabs # {} /\ (CHOOSE k \in tabs : \A l \in tabs : k <= l) = 2
    BY <1>4, <1>5
  <2>2. DecodeCursor(raw) = [ts |-> SubSeq(raw, 1, 2 - 1), id |-> SubSeq(raw, 2 + 1, Len(raw))]
    BY <1>5, <2>1, Zenon DEF DecodeCursor
  <2>. QED BY <1>3, <2>2
<1>7. SubSeq(raw, 1, 1)[1] = ts /\ SubSeq(raw, 3, 3)[1] = id
  BY <1>3
<1>. QED BY <1>1, <1>6, <1>7

(* The cursor of an answer is the one Cursor describes. *)
LEMMA NextCursorIs ==
    ASSUME TypeOK, NEW page \in SUBSET Ids, NEW n \in Nat \ {0}
    PROVE  /\ Cursor(Times(walk), page, n, NextCursor(walk, page, n))
           /\ NextCursor(walk, page, n) \in Seq(Nat)
<1>1. PICK at \in [Ids -> Nat] : at = Times(walk)
  BY MatchingRows DEF RowsExist
<1>2. CASE Cardinality(page) # n
  BY <1>2 DEF NextCursor, Cursor
<1>3. CASE Cardinality(page) = n
  <2>1. page # {}
    BY <1>3, FS_EmptySet
  <2>2. \A i, j \in page : Before(walk, j, i) <=> Prec(at, j, i)
    BY <1>1 DEF Before, Prec, Times
  <2>3. \E l \in page : \A j \in page \ {l} : Before(walk, j, l)
    BY <2>1, <2>2, LastExists DEF IsLast
  <2>4. PICK l : l = LastOf(walk, page)
    OBVIOUS
  <2>5. l \in page /\ \A j \in page \ {l} : Before(walk, j, l)
    BY <2>3, <2>4 DEF LastOf
  <2>6. IsLast(at, page, l)
    BY <2>2, <2>5 DEF IsLast
  <2>7. CreatedAt(walk, l) = at[l] /\ at[l] \in Nat /\ l \in Nat
    BY <1>1, <2>5, ListingAssumption DEF Times
  <2>8. NextCursor(walk, page, n) = <<at[l], Tab, l>>
    BY <1>3, <2>4, <2>7 DEF NextCursor, EncodeCursor
  <2>. QED BY <1>1, <1>3, <2>5, <2>6, <2>7, <2>8 DEF Cursor, Tab
<1>. QED BY <1>2, <1>3

(* The same of the next state. *)
LEMMA MatchingRowsNext ==
    TypeOK' => /\ Times(walk)' \in [Ids -> Nat]
               /\ Matching(walk)' \in SUBSET Ids
               /\ \A i \in Matching(walk)' : Times(walk)'[i] > 0
<1>1. TypeOK' => RowsExist'
  BY MatchingRows, PTL
<1>. QED BY <1>1 DEF RowsExist

(* What a listing selects is the caller's. *)
LEMMA MatchingIsCallers ==
    ASSUME TypeOK, Tenancy, NEW i \in Matching(walk)
    PROVE  Caller = IF walk.list = "payments" THEN payments[i].merchant
                    ELSE payments[deliveries[i].payment].merchant
<1>1. walk.list \in {"none", "payments", "of_payment", "of_merchant"} /\ walk.merchant = Caller
  BY DEF TypeOK
<1>2. CASE walk.list = "payments"
  BY <1>1, <1>2 DEF Matching, PaymentsOf
<1>3. CASE walk.list = "of_payment"
  BY <1>3 DEF Matching, DeliveriesOfPayment, Tenancy
<1>4. CASE walk.list = "of_merchant"
  BY <1>1, <1>4 DEF Matching, DeliveriesOfMerchant
<1>5. CASE walk.list = "none"
  BY <1>5 DEF Matching
<1>. QED BY <1>1, <1>2, <1>3, <1>4, <1>5

-----------------------------------------------------------------------------
(* The tables change. *)

(* Rows keep what identifies them, and payments never leave the table. *)
Kept ==
    /\ \A i \in Ids : payments[i].created > 0 =>
          /\ payments'[i].created = payments[i].created
          /\ payments'[i].merchant = payments[i].merchant
    /\ \A i \in Ids : deliveries[i].created > 0 =>
          /\ deliveries'[i].created = deliveries[i].created
          /\ deliveries'[i].payment = deliveries[i].payment
    /\ \A i \in Ids : deliveries'[i].created > 0 /\ deliveries[i].created = 0 =>
          deliveries'[i].payment \in Ids /\ payments[deliveries'[i].payment].created > 0

(* Any step of that kind preserves the invariant. *)
LEMMA KeptIsSound ==
    ASSUME ListingInd, TypeOK', Kept, walk' = walk, StillSteady
    PROVE  ListingInd'
<1>1. TypeOK /\ Tenancy /\ OnlyTheCallers /\ TotalCoversPages
      /\ Position(walk, Matching(walk), Times(walk), steady)
  BY DEF ListingInd, ListingInv
<1>2. \A i \in Ids : payments[i].created \in Nat /\ deliveries[i].created \in Nat
                     /\ payments'[i].created \in Nat /\ deliveries'[i].created \in Nat
  BY <1>1, ListingAssumption DEF TypeOK
<1>3. Tenancy'
  <2>1. ASSUME NEW i \in Ids, deliveries'[i].created > 0
        PROVE  deliveries'[i].payment \in Ids /\ payments'[deliveries'[i].payment].created > 0
    <3>1. CASE deliveries[i].created = 0
      BY <2>1, <3>1 DEF Kept
    <3>2. CASE deliveries[i].created > 0
      BY <1>1, <3>2 DEF Kept, Tenancy
    <3>. QED BY <1>2, <3>1, <3>2
  <2>2. walk.list = "of_payment" =>
          /\ walk.payment \in Ids
          /\ payments'[walk.payment].created > 0 /\ payments'[walk.payment].merchant = Caller
    BY <1>1 DEF Kept, Tenancy
  <2>. QED BY <2>1, <2>2 DEF Tenancy
<1>4. PICK at, at2, M, M2, S2 :
         /\ at = Times(walk) /\ at2 = Times(walk)' /\ M = Matching(walk) /\ M2 = Matching(walk)'
         /\ S2 = steady'
  OBVIOUS
<1>. at \in [Ids -> Nat] /\ at2 \in [Ids -> Nat]
  BY <1>1, <1>4, MatchingRows, MatchingRowsNext DEF RowsExist
<1>5. \A i \in Ids : at[i] > 0 => at2[i] = at[i]
  BY <1>4 DEF Times, CreatedAt, Kept
<1>6. M2 \in SUBSET Ids /\ \A i \in M2 : at2[i] > 0
  BY <1>4, MatchingRowsNext
<1>7. \A i \in walk.seen : i \in Ids /\ at[i] > 0
  BY <1>1, <1>4 DEF Position, RowsSound, TypeOK
<1>8. OnlyTheCallers'
  <2>1. ASSUME NEW i \in walk.seen, walk.list = "payments"
        PROVE  payments'[i].merchant = Caller
    <3>1. payments[i].created > 0 /\ payments[i].merchant = Caller
      BY <1>1, <1>4, <1>7, <2>1 DEF Times, CreatedAt, OnlyTheCallers
    <3>. QED BY <1>7, <3>1 DEF Kept
  <2>2. ASSUME NEW i \in walk.seen, walk.list # "payments"
        PROVE  payments'[deliveries'[i].payment].merchant = Caller
    <3>1. deliveries[i].created > 0 /\ payments[deliveries[i].payment].merchant = Caller
      BY <1>1, <1>4, <1>7, <2>2 DEF Times, CreatedAt, OnlyTheCallers
    <3>2. deliveries[i].payment \in Ids /\ payments[deliveries[i].payment].created > 0
      BY <1>1, <1>7, <3>1 DEF Tenancy
    <3>3. deliveries'[i].payment = deliveries[i].payment
      BY <1>7, <3>1 DEF Kept
    <3>. QED BY <3>1, <3>2, <3>3 DEF Kept
  <2>. QED BY <2>1, <2>2 DEF OnlyTheCallers
<1>9. ASSUME walk.list = "payments" /\ walk.status = AnyStatus
      PROVE  M \subseteq M2
  <2>1. \A i \in Ids : payments'[i].status # Pruned
    BY DEF TypeOK, Statuses, Pruned
  <2>2. M = PaymentsOf(walk) /\ M2 = PaymentsOf(walk)'
    BY <1>4, <1>9 DEF Matching
  <2>3. ASSUME NEW i \in Ids, i \in M
        PROVE  i \in M2
    <3>1. payments[i].created > 0 /\ payments[i].merchant = walk.merchant
      BY <2>2, <2>3 DEF PaymentsOf, Stored
    <3>2. payments'[i].created > 0 /\ payments'[i].merchant = walk'.merchant
      BY <3>1 DEF Kept
    <3>. QED BY <1>9, <2>1, <2>2, <3>2 DEF PaymentsOf, Stored, StatusIs
  <2>. QED BY <2>2, <2>3 DEF PaymentsOf
<1>10. Position(walk, M2, at2, S2)
  <2>1. PICK w, S : w = walk /\ S = steady
    OBVIOUS
  <2>2. w.offset \in Nat /\ w.seen \subseteq Ids
    BY <1>1, <2>1 DEF TypeOK
  <2>3. S2 = S \cap M2 /\ Position(w, M, at, S)
    BY <1>1, <1>4, <2>1 DEF StillSteady
  <2>4. w.list = "payments" /\ w.status = AnyStatus => M \subseteq M2
    BY <1>9, <2>1
  <2>. QED BY <1>5, <1>6, <2>1, <2>2, <2>3, <2>4, TablesMove
<1>11. Position(walk, Matching(walk), Times(walk), steady)'
  BY <1>4, <1>10
<1>12. TotalCoversPages' /\ (walk.pc = "count" => walk.list = "payments")'
  BY <1>1 DEF TotalCoversPages, ListingInd
<1>. QED BY <1>3, <1>8, <1>11, <1>12 DEF ListingInd, ListingInv

PaymentRow == [created : 0 .. MaxTime, merchant : Merchants, status : Statuses]
DeliveryRow == [created : 0 .. MaxTime, payment : Ids \cup {0},
                status : DeliveryStatuses \cup {Pruned}]
WalkType == [list : {"none", "payments", "of_payment", "of_merchant"},
             merchant : {Caller}, payment : Ids \cup {0},
             status : Statuses \cup DeliveryStatuses \cup {AnyStatus},
             pc : {"idle", "ask", "count", "done"}, cursor : Seq(Nat), offset : Nat,
             byOffset : BOOLEAN, total : Nat \cup {NotSent}, seen : SUBSET Ids,
             repeated : BOOLEAN]

(* TypeOK, by its tables. *)
LEMMA TypeIs ==
    TypeOK <=> /\ payments \in [Ids -> PaymentRow] /\ deliveries \in [Ids -> DeliveryRow]
               /\ walk \in WalkType /\ steady \subseteq Ids
               /\ done \in [rows : 0 .. MaxRows, changes : 0 .. MaxChanges]
BY DEF TypeOK, PaymentRow, DeliveryRow, WalkType

(* The same of the next state. *)
LEMMA TypeIsNext ==
    TypeOK' <=> /\ payments' \in [Ids -> PaymentRow] /\ deliveries' \in [Ids -> DeliveryRow]
                /\ walk' \in WalkType /\ steady' \subseteq Ids
                /\ done' \in [rows : 0 .. MaxRows, changes : 0 .. MaxChanges]
BY DEF TypeOK, PaymentRow, DeliveryRow, WalkType

(* The rest of a table's change. *)
LEMMA ChangeTypes ==
    ASSUME TypeOK, Insert \/ Change, walk' = walk, StillSteady,
           payments' \in [Ids -> PaymentRow], deliveries' \in [Ids -> DeliveryRow]
    PROVE  TypeOK'
<1>1. done' \in [rows : 0 .. MaxRows, changes : 0 .. MaxChanges]
  <2>1. /\ done \in [rows : 0 .. MaxRows, changes : 0 .. MaxChanges]
        /\ MaxRows \in Nat /\ MaxChanges \in Nat
    BY ListingAssumption DEF TypeOK
  <2>2. CASE Insert
    BY <2>1, <2>2 DEF Insert
  <2>3. CASE Change
    BY <2>1, <2>3 DEF Change
  <2>. QED BY <2>2, <2>3
<1>2. steady' \subseteq Ids
  BY DEF TypeOK, StillSteady
<1>. QED BY <1>1, <1>2, TypeIs, TypeIsNext

(* POST /payments. *)
LEMMA CreatePaymentSound ==
    ASSUME ListingInd, NEW i \in Ids, NEW m \in Merchants, NEW t \in 1 .. MaxTime,
           CreatePayment(i, m, t)
    PROVE  ListingInd'
<1>1. TypeOK /\ payments \in [Ids -> PaymentRow] /\ deliveries \in [Ids -> DeliveryRow]
  BY TypeIs DEF ListingInd, ListingInv
<1>2. PICK r : r = [created |-> t, merchant |-> m, status |-> "pending"]
  OBVIOUS
<1>3. r \in PaymentRow
  BY <1>2, ListingAssumption DEF PaymentRow, Statuses
<1>4. payments' = [payments EXCEPT ![i] = r] /\ payments[i].created = 0 /\ deliveries' = deliveries
  BY <1>2 DEF CreatePayment
<1>5. payments' \in [Ids -> PaymentRow]
  BY <1>1, <1>3, <1>4
<1>6. TypeOK'
  BY <1>1, <1>4, <1>5, ChangeTypes DEF CreatePayment
<1>7. Kept
  BY <1>1, <1>4 DEF Kept
<1>. QED BY <1>6, <1>7, KeptIsSound DEF CreatePayment

(* Settlement and expiry. *)
LEMMA MovePaymentSound ==
    ASSUME ListingInd, NEW i \in Ids, NEW s \in Statuses, MovePayment(i, s)
    PROVE  ListingInd'
<1>1. TypeOK /\ payments \in [Ids -> PaymentRow] /\ deliveries \in [Ids -> DeliveryRow]
  BY TypeIs DEF ListingInd, ListingInv
<1>2. PICK r : r = [payments[i] EXCEPT !.status = s]
  OBVIOUS
<1>3. /\ r \in PaymentRow /\ r.created = payments[i].created /\ r.merchant = payments[i].merchant
      /\ payments' = [payments EXCEPT ![i] = r] /\ deliveries' = deliveries
  BY <1>1, <1>2 DEF PaymentRow, MovePayment
<1>4. payments' \in [Ids -> PaymentRow]
  BY <1>1, <1>3
<1>5. TypeOK'
  BY <1>1, <1>3, <1>4, ChangeTypes DEF MovePayment
<1>6. Kept
  BY <1>1, <1>3 DEF Kept
<1>. QED BY <1>5, <1>6, KeptIsSound DEF MovePayment

(* The insert of a delivery row. *)
LEMMA CreateDeliverySound ==
    ASSUME ListingInd, NEW i \in Ids, NEW p \in Ids, NEW t \in 1 .. MaxTime,
           CreateDelivery(i, p, t)
    PROVE  ListingInd'
<1>1. TypeOK /\ payments \in [Ids -> PaymentRow] /\ deliveries \in [Ids -> DeliveryRow]
  BY TypeIs DEF ListingInd, ListingInv
<1>2. PICK r : r = [created |-> t, payment |-> p, status |-> "pending"]
  OBVIOUS
<1>3. r \in DeliveryRow /\ r.payment = p
  BY <1>2, ListingAssumption DEF DeliveryRow, DeliveryStatuses
<1>4. /\ deliveries' = [deliveries EXCEPT ![i] = r] /\ deliveries[i].created = 0
      /\ payments' = payments /\ payments[p].created > 0
  BY <1>2 DEF CreateDelivery, Stored
<1>5. deliveries' \in [Ids -> DeliveryRow]
  BY <1>1, <1>3, <1>4
<1>6. TypeOK'
  BY <1>1, <1>4, <1>5, ChangeTypes DEF CreateDelivery
<1>7. Kept
  BY <1>1, <1>3, <1>4 DEF Kept
<1>. QED BY <1>6, <1>7, KeptIsSound DEF CreateDelivery

(* A delivery changes its status, or is pruned. *)
LEMMA DeliveryStatusSound ==
    ASSUME ListingInd, NEW i \in Ids, NEW s \in DeliveryStatuses \cup {Pruned},
           deliveries' = [deliveries EXCEPT ![i].status = s], Change,
           UNCHANGED <<payments, walk>>, StillSteady
    PROVE  ListingInd'
<1>1. TypeOK /\ payments \in [Ids -> PaymentRow] /\ deliveries \in [Ids -> DeliveryRow]
  BY TypeIs DEF ListingInd, ListingInv
<1>2. PICK r : r = [deliveries[i] EXCEPT !.status = s]
  OBVIOUS
<1>3. /\ r \in DeliveryRow /\ r.created = deliveries[i].created /\ r.payment = deliveries[i].payment
      /\ deliveries' = [deliveries EXCEPT ![i] = r]
  BY <1>1, <1>2 DEF DeliveryRow
<1>4. deliveries' \in [Ids -> DeliveryRow]
  BY <1>1, <1>3
<1>5. TypeOK'
  BY <1>1, <1>4, ChangeTypes
<1>6. Kept
  <2>1. \A j \in Ids : /\ deliveries'[j].created = deliveries[j].created
                       /\ deliveries'[j].payment = deliveries[j].payment
    BY <1>1, <1>3
  <2>2. \A j \in Ids : deliveries[j].created \in Nat
    BY <1>1, ListingAssumption DEF DeliveryRow
  <2>. QED BY <2>1, <2>2 DEF Kept
<1>. QED BY <1>5, <1>6, KeptIsSound

-----------------------------------------------------------------------------
(* The client's requests. *)

(* A query that does not change selects the same rows of the same tables. *)
LEMMA SameQuery ==
    ASSUME UNCHANGED <<payments, deliveries>>, walk'.list = walk.list,
           walk'.merchant = walk.merchant, walk'.payment = walk.payment, walk'.status = walk.status
    PROVE  Matching(walk)' = Matching(walk) /\ Times(walk)' = Times(walk)
BY DEF Matching, Times, CreatedAt, PaymentsOf, DeliveriesOfPayment, DeliveriesOfMerchant,
       Stored, StatusIs

(* Answer is what Answered says, and touches nothing else of the walk. *)
LEMMA AnswerIs ==
    ASSUME TypeOK, NEW page \in SUBSET Ids, NEW n \in Nat \ {0}, NEW o \in Nat,
           NEW byOffset \in BOOLEAN, NEW withTotal \in BOOLEAN,
           Answer(page, n, o, byOffset, withTotal)
    PROVE  /\ walk' \in WalkType
           /\ Answered(walk, walk', Times(walk), page, n, o, byOffset)
           /\ walk'.merchant = walk.merchant /\ walk'.payment = walk.payment
           /\ walk'.total = NotSent
           /\ walk'.pc = "count" => withTotal
<1>1. walk \in WalkType
  BY TypeIs
<1>2. PICK next : next = NextCursor(walk, page, n)
  OBVIOUS
<1>3. next \in Seq(Nat) /\ Cursor(Times(walk), page, n, next)
  BY <1>2, NextCursorIs
<1>4. PICK off : off = o + Cardinality(page)
  OBVIOUS
<1>5. off \in Nat
  BY <1>4, RankIsNat
<1>6. PICK rep : rep = (walk.repeated \/ page \cap walk.seen # {})
  OBVIOUS
<1>7. rep \in BOOLEAN
  BY <1>1, <1>6, Zenon DEF WalkType
<1>8. PICK pc : pc = IF withTotal THEN "count" ELSE IF next = <<>> THEN "done" ELSE "ask"
  OBVIOUS
<1>9. /\ pc \in {"ask", "count", "done"} /\ (pc = "count" => withTotal)
      /\ (pc = "ask" => next # <<>>) /\ (pc = "done" => next = <<>>)
  BY <1>8
<1>10. PICK all : all = walk.seen \cup page
  OBVIOUS
<1>11. all \in SUBSET Ids
  BY <1>1, <1>10 DEF WalkType
<1>12. walk' = [walk EXCEPT !.seen = all, !.repeated = rep, !.cursor = next, !.offset = off,
                            !.byOffset = byOffset, !.total = NotSent, !.pc = pc]
  BY <1>2, <1>4, <1>6, <1>8, <1>10, Zenon DEF Answer
<1>13. /\ walk' \in WalkType
       /\ walk'.list = walk.list /\ walk'.status = walk.status
       /\ walk'.merchant = walk.merchant /\ walk'.payment = walk.payment
       /\ walk'.seen = all /\ walk'.repeated = rep /\ walk'.cursor = next /\ walk'.offset = off
       /\ walk'.byOffset = byOffset /\ walk'.total = NotSent /\ walk'.pc = pc
  BY <1>1, <1>3, <1>5, <1>7, <1>9, <1>11, <1>12 DEF WalkType
<1>14. Answered(walk, walk', Times(walk), page, n, o, byOffset)
  BY <1>3, <1>4, <1>6, <1>9, <1>10, <1>13 DEF Answered
<1>. QED BY <1>9, <1>13, <1>14

(* A page of matching rows that leaves the walk in a sound position        *)
(* preserves the invariant.                                                *)
LEMMA PageIsSound ==
    ASSUME ListingInd, NEW page \in SUBSET Matching(walk), NEW n \in Nat \ {0}, NEW o \in Nat,
           NEW byOffset \in BOOLEAN, NEW withTotal \in BOOLEAN,
           Answer(page, n, o, byOffset, withTotal), withTotal => walk.list = "payments",
           UNCHANGED <<payments, deliveries, steady, done>>,
           Position(walk', Matching(walk), Times(walk), steady)
    PROVE  ListingInd'
<1>1. TypeOK /\ Tenancy /\ OnlyTheCallers
  BY DEF ListingInd, ListingInv
<1>2. page \in SUBSET Ids
  BY <1>1, MatchingRows DEF RowsExist
<1>3. /\ walk' \in WalkType
      /\ Answered(walk, walk', Times(walk), page, n, o, byOffset)
      /\ walk'.merchant = walk.merchant /\ walk'.payment = walk.payment
      /\ walk'.total = NotSent
      /\ walk'.pc = "count" => withTotal
  BY <1>1, <1>2, AnswerIs
<1>4. walk'.list = walk.list /\ walk'.status = walk.status /\ walk'.seen = walk.seen \cup page
  BY <1>3 DEF Answered
<1>5. TypeOK'
  BY <1>1, <1>3, TypeIs, TypeIsNext
<1>6. Matching(walk)' = Matching(walk) /\ Times(walk)' = Times(walk)
  BY <1>3, <1>4, SameQuery
<1>7. Position(walk, Matching(walk), Times(walk), steady)'
  BY <1>6
<1>8. OnlyTheCallers'
  <2>1. \A i \in page : Caller = IF walk.list = "payments" THEN payments[i].merchant
                                 ELSE payments[deliveries[i].payment].merchant
    BY <1>1, MatchingIsCallers
  <2>. QED BY <1>1, <1>4, <2>1 DEF OnlyTheCallers
<1>9. Tenancy' /\ TotalCoversPages' /\ (walk.pc = "count" => walk.list = "payments")'
  BY <1>1, <1>3, <1>4 DEF Tenancy, TotalCoversPages
<1>. QED BY <1>5, <1>7, <1>8, <1>9 DEF ListingInd, ListingInv

(* A request with a cursor. *)
LEMMA CursorPageSound ==
    ASSUME ListingInd, NEW asked \in Asked \cup {NotSent}, CursorPage(asked)
    PROVE  ListingInd'
<1>1. TypeOK /\ Position(walk, Matching(walk), Times(walk), steady)
  BY DEF ListingInd, ListingInv
<1>2. PICK w, M, S : w = walk /\ M = Matching(walk) /\ S = steady
  OBVIOUS
<1>3. PICK at \in [Ids -> Nat] : at = Times(walk)
  BY <1>1, MatchingRows DEF RowsExist
<1>4. PICK n \in Nat \ {0} : n = Limit(asked)
  BY LimitIsPositive
<1>5. PICK R : R = {i \in M : w.cursor # <<>> => ~Passed(at, w.cursor, i)}
  OBVIOUS
<1>6. M \in SUBSET Ids /\ R \in SUBSET Ids /\ R \subseteq M
  BY <1>1, <1>2, <1>5, MatchingRows DEF RowsExist
<1>7. R = IF walk.cursor = <<>> THEN Matching(walk)
          ELSE PastCursor(walk, DecodeCursor(walk.cursor).ts[1], DecodeCursor(walk.cursor).id[1])
  <2>1. CASE walk.cursor = <<>>
    BY <1>2, <1>5, <2>1
  <2>2. CASE walk.cursor # <<>>
    <3>1. PICK t \in Nat \ {0}, k \in Ids : walk.cursor = <<t, Tab, k>>
      BY <1>1, <2>2 DEF Position, CursorSound
    <3>2. DecodeCursor(walk.cursor).ts[1] = t /\ DecodeCursor(walk.cursor).id[1] = k
      BY <3>1, CursorSurvives
    <3>3. w.cursor[1] = t /\ w.cursor[3] = k
      BY <1>2, <3>1
    <3>4. \A i \in Ids : i \in Nat /\ at[i] \in Nat /\ at[i] = CreatedAt(walk, i)
      BY <1>3, ListingAssumption DEF Times
    <3>5. \A i \in Ids : ~Passed(at, w.cursor, i)
                         <=> CreatedAt(walk, i) < t \/ (CreatedAt(walk, i) = t /\ i < k)
      BY <3>3, <3>4, ListingAssumption DEF Passed
    <3>6. R = {i \in M : ~Passed(at, w.cursor, i)}
      BY <1>2, <1>5, <2>2
    <3>7. R = PastCursor(walk, t, k)
      BY <1>2, <1>6, <3>5, <3>6 DEF PastCursor
    <3>. QED BY <2>2, <3>2, <3>7
  <2>. QED BY <2>1, <2>2
<1>8. PICK page : page = Window(R, at, n, 0)
  OBVIOUS
<1>9. page = Slice(walk, R, n, 0) /\ page \subseteq R
  BY <1>3, <1>6, <1>8, SliceIsWindow DEF Window
<1>10. /\ walk.pc = "ask" /\ (walk.cursor = <<>> => walk.list # "payments")
       /\ Answer(page, n, walk.offset, walk.byOffset, FALSE)
       /\ UNCHANGED <<payments, deliveries, steady, done>>
  BY <1>4, <1>7, <1>9, Zenon DEF CursorPage
<1>11. w.offset \in Nat /\ w.byOffset \in BOOLEAN /\ w.seen \subseteq Ids
  BY <1>1, <1>2, Zenon DEF TypeOK
<1>12. PICK w2 : w2 = walk'
  OBVIOUS
<1>13. Answered(w, w2, at, page, n, w.offset, w.byOffset)
  <2>1. page \in SUBSET Ids
    BY <1>6, <1>9
  <2>. QED BY <1>1, <1>2, <1>3, <1>10, <1>11, <1>12, <2>1, AnswerIs
<1>14. Position(w2, M, at, S)
  BY <1>1, <1>2, <1>3, <1>5, <1>8, <1>10, <1>11, <1>13, CursorPageMoves
<1>. QED BY <1>2, <1>3, <1>6, <1>9, <1>10, <1>11, <1>12, <1>14, PageIsSound

(* A request with an offset. *)
LEMMA OffsetPageSound ==
    ASSUME ListingInd, NEW asked \in Asked \cup {NotSent}, NEW withTotal \in BOOLEAN,
           OffsetPage(asked, withTotal)
    PROVE  ListingInd'
<1>1. TypeOK /\ Position(walk, Matching(walk), Times(walk), steady)
  BY DEF ListingInd, ListingInv
<1>2. PICK w, M, S : w = walk /\ M = Matching(walk) /\ S = steady
  OBVIOUS
<1>3. PICK at \in [Ids -> Nat] : at = Times(walk)
  BY <1>1, MatchingRows DEF RowsExist
<1>4. PICK n \in Nat \ {0} : n = Limit(asked)
  BY LimitIsPositive
<1>5. M \in SUBSET Ids
  BY <1>1, <1>2, MatchingRows DEF RowsExist
<1>6. PICK page : page = Window(M, at, n, w.offset)
  OBVIOUS
<1>7. page = Slice(walk, M, n, walk.offset) /\ page \subseteq M
  BY <1>2, <1>3, <1>5, <1>6, SliceIsWindow DEF Window
<1>8. PICK byOffset \in BOOLEAN : byOffset = (w.byOffset \/ w.offset > 0)
  OBVIOUS
<1>9. /\ walk.pc = "ask" /\ walk.list = "payments"
      /\ Answer(page, n, walk.offset, byOffset, withTotal)
      /\ UNCHANGED <<payments, deliveries, steady, done>>
  BY <1>2, <1>4, <1>7, <1>8, Zenon DEF OffsetPage
<1>10. w.offset \in Nat /\ w.seen \subseteq Ids
  BY <1>1, <1>2 DEF TypeOK
<1>11. PICK w2 : w2 = walk'
  OBVIOUS
<1>12. Answered(w, w2, at, page, n, w.offset, w.byOffset \/ w.offset > 0)
  <2>1. page \in SUBSET Ids
    BY <1>5, <1>7
  <2>. QED BY <1>1, <1>2, <1>3, <1>8, <1>9, <1>10, <1>11, <2>1, AnswerIs
<1>13. Position(w2, M, at, S)
  BY <1>1, <1>2, <1>3, <1>6, <1>9, <1>10, <1>12, OffsetPageMoves
<1>. QED BY <1>2, <1>3, <1>7, <1>9, <1>10, <1>11, <1>13, PageIsSound

(* include_total: the count that follows a page. *)
LEMMA CountSound ==
    ASSUME ListingInd, Count
    PROVE  ListingInd'
<1>1. /\ TypeOK /\ Tenancy /\ OnlyTheCallers /\ walk.list = "payments" /\ walk.pc = "count"
      /\ Position(walk, Matching(walk), Times(walk), steady) /\ walk \in WalkType
  BY TypeIs DEF ListingInd, ListingInv, Count
<1>2. PICK total, pc : /\ total = Cardinality(PaymentsOf(walk))
                       /\ pc = IF walk.cursor = <<>> THEN "done" ELSE "ask"
  OBVIOUS
<1>3. PaymentsOf(walk) = Matching(walk) /\ PaymentsOf(walk) \in SUBSET Ids
  BY <1>1, MatchingRows DEF Matching, PaymentsOf
<1>4. total \in Nat
  BY <1>2, <1>3, RankIsNat
<1>5. walk' = [walk EXCEPT !.total = total, !.pc = pc]
      /\ UNCHANGED <<payments, deliveries, steady, done>>
  BY <1>2, Zenon DEF Count
<1>6. /\ walk' \in WalkType /\ walk'.total = total /\ walk'.pc = pc
      /\ walk'.list = walk.list /\ walk'.merchant = walk.merchant
      /\ walk'.payment = walk.payment /\ walk'.status = walk.status
      /\ walk'.cursor = walk.cursor /\ walk'.offset = walk.offset
      /\ walk'.byOffset = walk.byOffset /\ walk'.seen = walk.seen
      /\ walk'.repeated = walk.repeated
  BY <1>1, <1>2, <1>4, <1>5 DEF WalkType
<1>7. TypeOK'
  BY <1>1, <1>5, <1>6, TypeIs, TypeIsNext
<1>8. Matching(walk)' = Matching(walk) /\ Times(walk)' = Times(walk)
  BY <1>5, <1>6, SameQuery
<1>9. PICK w, w2, M, at, S : /\ w = walk /\ w2 = walk' /\ M = Matching(walk)
                             /\ at = Times(walk) /\ S = steady
  OBVIOUS
<1>10. Position(w2, M, at, S)
  <2>1. Position(w, M, at, S)
    BY <1>1, <1>9
  <2>2. /\ w2.list = w.list /\ w2.status = w.status /\ w2.cursor = w.cursor
        /\ w2.offset = w.offset /\ w2.byOffset = w.byOffset /\ w2.seen = w.seen
        /\ w2.repeated = w.repeated /\ w.pc = "count"
        /\ w2.pc = IF w.cursor = <<>> THEN "done" ELSE "ask"
    BY <1>1, <1>2, <1>6, <1>9
  <2>3. RowsSound(w2, M, at, S) /\ CursorSound(w2) /\ EndsSound(w2)
    BY <2>1, <2>2 DEF Position, RowsSound, CursorSound, EndsSound
  <2>4. SeenIsPassed(w2, at) /\ PassedIsSeen(w2, at, S)
    BY <2>1, <2>2 DEF Position, SeenIsPassed, PassedIsSeen
  <2>5. OffsetSound(w2, M, at, S)
    BY <2>1, <2>2 DEF Position, OffsetSound
  <2>. QED BY <2>3, <2>4, <2>5 DEF Position
<1>11. Position(walk, Matching(walk), Times(walk), steady)'
  BY <1>5, <1>8, <1>9, <1>10
<1>12. TotalCoversPages'
  <2>1. walk.status = AnyStatus => walk.offset <= total
    BY <1>1, <1>2, <1>3 DEF Position, OffsetSound
  <2>2. walk.offset \in Nat
    BY <1>1 DEF WalkType
  <2>. QED BY <1>4, <1>6, <2>1, <2>2 DEF TotalCoversPages
<1>13. Tenancy' /\ OnlyTheCallers' /\ (walk.pc = "count" => walk.list = "payments")'
  BY <1>1, <1>5, <1>6 DEF Tenancy, OnlyTheCallers
<1>. QED BY <1>7, <1>11, <1>12, <1>13 DEF ListingInd, ListingInv

(* The first request of a walk: nothing seen, everything that matches now  *)
(* may stay.                                                               *)
LEMMA BeginSound ==
    ASSUME ListingInd, NEW list \in {"payments", "of_payment", "of_merchant"},
           NEW payment \in Ids \cup {0},
           NEW status \in Statuses \cup DeliveryStatuses \cup {AnyStatus},
           NEW q, q = [NoWalk EXCEPT !.list = list, !.payment = payment, !.status = status],
           list = "of_payment" => /\ payment \in Ids /\ payments[payment].created > 0
                                  /\ payments[payment].merchant = Caller,
           Begin(q)
    PROVE  ListingInd'
<1>1. TypeOK /\ Tenancy
  BY DEF ListingInd, ListingInv
<1>2. /\ NoWalk \in WalkType /\ NoWalk.cursor = <<>> /\ NoWalk.offset = 0
      /\ NoWalk.byOffset = FALSE /\ NoWalk.total = NotSent /\ NoWalk.seen = {}
      /\ NoWalk.repeated = FALSE /\ NoWalk.merchant = Caller
  BY DEF NoWalk, WalkType
<1>3. /\ q \in WalkType /\ q.list = list /\ q.payment = payment /\ q.status = status
      /\ q.cursor = <<>> /\ q.offset = 0 /\ q.byOffset = FALSE /\ q.total = NotSent
      /\ q.seen = {} /\ q.repeated = FALSE /\ q.merchant = Caller
  BY <1>2 DEF WalkType
<1>4. /\ walk' = [q EXCEPT !.pc = "ask"] /\ steady' = Matching(q)
      /\ UNCHANGED <<payments, deliveries, done>>
  BY DEF Begin
<1>5. /\ walk' \in WalkType /\ walk'.list = list /\ walk'.payment = payment /\ walk'.status = status
      /\ walk'.cursor = <<>> /\ walk'.offset = 0 /\ walk'.byOffset = FALSE /\ walk'.total = NotSent
      /\ walk'.seen = {} /\ walk'.repeated = FALSE /\ walk'.merchant = Caller /\ walk'.pc = "ask"
  BY <1>3, <1>4 DEF WalkType
<1>6. Matching(walk)' = Matching(q)
  BY <1>3, <1>4, <1>5 DEF Matching, PaymentsOf, DeliveriesOfPayment, DeliveriesOfMerchant,
                          Stored, StatusIs
<1>7. Matching(q) \subseteq Ids
  BY <1>3 DEF Matching, PaymentsOf, DeliveriesOfPayment, DeliveriesOfMerchant
<1>8. TypeOK'
  BY <1>1, <1>4, <1>5, <1>7, TypeIs, TypeIsNext
<1>9. PICK w2, M, at, S : w2 = walk' /\ M = Matching(walk)' /\ at = Times(walk)' /\ S = steady'
  OBVIOUS
<1>10. Position(w2, M, at, S)
  <2>1. /\ w2.cursor = <<>> /\ w2.offset = 0 /\ w2.byOffset = FALSE
        /\ w2.seen = {} /\ w2.repeated = FALSE /\ w2.pc = "ask" /\ S = M
    BY <1>4, <1>5, <1>6, <1>9
  <2>2. M \in SUBSET Ids /\ \A i \in M : at[i] > 0
    BY <1>8, <1>9, MatchingRowsNext
  <2>3. Cardinality(M) \in Nat /\ \A i \in M : Rank(M, at, i) \in Nat
    BY <2>2, RankIsNat
  <2>4. RowsSound(w2, M, at, S) /\ CursorSound(w2) /\ EndsSound(w2)
    BY <2>1, <2>2 DEF RowsSound, CursorSound, EndsSound
  <2>5. SeenIsPassed(w2, at) /\ PassedIsSeen(w2, at, S)
    BY <2>1 DEF SeenIsPassed, PassedIsSeen
  <2>6. OffsetSound(w2, M, at, S)
    BY <2>1, <2>3 DEF OffsetSound
  <2>. QED BY <2>4, <2>5, <2>6 DEF Position
<1>11. Position(walk, Matching(walk), Times(walk), steady)'
  BY <1>9, <1>10
<1>12. Tenancy' /\ OnlyTheCallers' /\ TotalCoversPages'
       /\ (walk.pc = "count" => walk.list = "payments")'
  BY <1>1, <1>4, <1>5 DEF Tenancy, OnlyTheCallers, TotalCoversPages
<1>. QED BY <1>8, <1>11, <1>12 DEF ListingInd, ListingInv

(* Each listing begins with a query of its own. *)
LEMMA BeginsSound ==
    ASSUME ListingInd, NEW asked \in Filters \cup {NotSent},
           \/ BeginPayments(asked) \/ BeginOfMerchant(asked)
           \/ \E p \in Ids : BeginOfPayment(p, asked)
    PROVE  ListingInd'
<1>0. NoWalk \in WalkType /\ NoWalk.payment = 0
  BY DEF NoWalk, WalkType
<1>1. CASE BeginPayments(asked)
  <2>1. PICK status : status = StatusOf(asked)
    OBVIOUS
  <2>2. PICK q : q = [NoWalk EXCEPT !.list = "payments", !.status = status]
    OBVIOUS
  <2>3. status \in Statuses \cup DeliveryStatuses \cup {AnyStatus} /\ Begin(q)
    BY <1>1, <2>1, <2>2, Zenon DEF BeginPayments
  <2>4. q = [NoWalk EXCEPT !.list = "payments", !.payment = 0, !.status = status]
    BY <1>0, <2>2, <2>3 DEF WalkType
  <2>. QED BY <2>3, <2>4, BeginSound
<1>2. CASE BeginOfMerchant(asked)
  <2>1. PICK status : status = IF asked = NotSent THEN "failed" ELSE asked
    OBVIOUS
  <2>2. PICK q : q = [NoWalk EXCEPT !.list = "of_merchant", !.status = status]
    OBVIOUS
  <2>3. status \in Statuses \cup DeliveryStatuses \cup {AnyStatus} /\ Begin(q)
    BY <1>2, <2>1, <2>2, Zenon DEF BeginOfMerchant
  <2>4. q = [NoWalk EXCEPT !.list = "of_merchant", !.payment = 0, !.status = status]
    BY <1>0, <2>2, <2>3 DEF WalkType
  <2>. QED BY <2>3, <2>4, BeginSound
<1>3. ASSUME NEW p \in Ids, BeginOfPayment(p, asked)
      PROVE  ListingInd'
  <2>1. PICK status : status = StatusOf(asked)
    OBVIOUS
  <2>2. PICK q : q = [NoWalk EXCEPT !.list = "of_payment", !.payment = p, !.status = status]
    OBVIOUS
  <2>3. status \in Statuses \cup DeliveryStatuses \cup {AnyStatus} /\ Begin(q)
    BY <1>3, <2>1, <2>2, Zenon DEF BeginOfPayment
  <2>4. payments[p].created > 0 /\ payments[p].merchant = Caller
    BY <1>3 DEF BeginOfPayment, Stored
  <2>. QED BY <2>2, <2>3, <2>4, BeginSound
<1>. QED BY <1>1, <1>2, <1>3

-----------------------------------------------------------------------------
(* The theorems. *)

(* Before the first request there is nothing to be wrong about. *)
LEMMA ListingInit == Init => ListingInd
<1>. SUFFICES ASSUME Init
              PROVE  ListingInd
  OBVIOUS
<1>1. /\ walk \in WalkType /\ walk.list = "none" /\ walk.pc = "idle" /\ walk.cursor = <<>>
      /\ walk.offset = 0 /\ walk.byOffset = FALSE /\ walk.seen = {} /\ walk.repeated = FALSE
      /\ walk.total = NotSent
  BY DEF Init, NoWalk, WalkType
<1>2. payments \in [Ids -> PaymentRow] /\ deliveries \in [Ids -> DeliveryRow]
  BY ListingAssumption DEF Init, NoPayment, NoDelivery, PaymentRow, DeliveryRow, Statuses,
                           DeliveryStatuses
<1>3. steady = {} /\ done \in [rows : 0 .. MaxRows, changes : 0 .. MaxChanges]
  BY ListingAssumption DEF Init
<1>4. TypeOK
  BY <1>1, <1>2, <1>3, TypeIs
<1>5. Tenancy /\ OnlyTheCallers /\ TotalCoversPages
  BY <1>1 DEF Init, NoDelivery, Tenancy, OnlyTheCallers, TotalCoversPages
<1>6. Position(walk, Matching(walk), Times(walk), steady)
  <2>1. Matching(walk) = {}
    BY <1>1 DEF Matching
  <2>. QED BY <1>1, <1>3, <2>1 DEF Position, RowsSound, CursorSound, EndsSound, SeenIsPassed,
                                   PassedIsSeen, OffsetSound
<1>. QED BY <1>1, <1>4, <1>5, <1>6 DEF ListingInd, ListingInv

(* Every action preserves the invariant. *)
LEMMA ListingStep == ListingInd /\ [Next]_vars => ListingInd'
<1>. SUFFICES ASSUME ListingInd, [Next]_vars
              PROVE  ListingInd'
  OBVIOUS
<1>1. ASSUME NEW i \in Ids, NEW m \in Merchants, NEW t \in 1 .. MaxTime, CreatePayment(i, m, t)
      PROVE  ListingInd'
  BY <1>1, CreatePaymentSound
<1>2. ASSUME NEW i \in Ids, NEW p \in Ids, NEW t \in 1 .. MaxTime, CreateDelivery(i, p, t)
      PROVE  ListingInd'
  BY <1>2, CreateDeliverySound
<1>3. ASSUME NEW i \in Ids, NEW s \in Statuses, MovePayment(i, s)
      PROVE  ListingInd'
  BY <1>3, MovePaymentSound
<1>4. ASSUME NEW i \in Ids, NEW s \in DeliveryStatuses, MoveDelivery(i, s)
      PROVE  ListingInd'
  BY <1>4, DeliveryStatusSound DEF MoveDelivery
<1>5. ASSUME NEW i \in Ids, PruneDelivery(i)
      PROVE  ListingInd'
  BY <1>5, DeliveryStatusSound DEF PruneDelivery
<1>6. ASSUME NEW asked \in Filters \cup {NotSent},
             \/ BeginPayments(asked) \/ BeginOfMerchant(asked)
             \/ \E p \in Ids : BeginOfPayment(p, asked)
      PROVE  ListingInd'
  BY <1>6, BeginsSound
<1>7. CASE Requests
  BY <1>7, CursorPageSound, OffsetPageSound, CountSound DEF Requests
<1>8. CASE UNCHANGED vars
  BY <1>8 DEF vars, ListingInd, ListingInv, TypeOK, OnlyTheCallers, TotalCoversPages, Tenancy,
              Matching, Times, CreatedAt, PaymentsOf, DeliveriesOfPayment, DeliveriesOfMerchant,
              Stored, StatusIs
<1>. QED BY <1>1, <1>2, <1>3, <1>4, <1>5, <1>6, <1>7, <1>8 DEF Next

(* The position of every walk stays sound, for any ids, times, limits and  *)
(* filters and whatever happens to the tables between its pages.           *)
THEOREM ListingInductive == Spec => []ListingInd
BY ListingInit, ListingStep, PTL DEF Spec

(* Tenancy and totals of the three listings: a client gets rows of the     *)
(* merchant whose key it presented only, and a total counts at least the   *)
(* rows paged past.                                                        *)
THEOREM OnlyTheCallersRows == Spec => []ListingInv
<1>1. ListingInd => ListingInv
  BY DEF ListingInd
<1>. QED BY <1>1, ListingInductive, PTL

(* "without skipping": a walk that ended has returned every row that       *)
(* matched throughout.                                                     *)
THEOREM NothingIsSkipped == Spec => []WalkIsComplete
<1>1. ListingInd => WalkIsComplete
  <2>. SUFFICES ASSUME ListingInd, walk.pc = "done", walk.byOffset => walk.status = AnyStatus
                PROVE  steady \subseteq walk.seen
    BY DEF WalkIsComplete
  <2>. QED BY DEF ListingInd, Position, PassedIsSeen, EndsSound
<1>. QED BY <1>1, ListingInductive, PTL

(* "or repeating": by cursor no row is returned twice. *)
THEOREM NothingIsRepeated == Spec => []WalkNeverRepeats
<1>1. ListingInd => WalkNeverRepeats
  BY DEF ListingInd, Position, SeenIsPassed, WalkNeverRepeats
<1>. QED BY <1>1, ListingInductive, PTL
=============================================================================
