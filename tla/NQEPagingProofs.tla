--------------------------- MODULE NQEPagingProofs ---------------------------
(***************************************************************************)
(* NQEPaging, for any snapshots, any answers, any page size and any server:*)
(* the rows of a pass are an injection into the answer it is pinned to, so *)
(* that as many of them as there are rows are all of them.                 *)
(***************************************************************************)
EXTENDS NQEPaging, TLAPS, FiniteSetTheorems, FunctionTheorems

\* A page without a bad row adds rows of its snapshot that are new and different
\* from each other.
LEMMA GoodPage ==
  ASSUME NEW s \in Snapshots, NEW page \in Pages(s), rows \in Seq(Keys),
         Bad(page) = {},
         \A i \in 1..Len(rows) : rows[i] \in Rows[s],
         \A i, j \in 1..Len(rows) : rows[i] = rows[j] => i = j
  PROVE  /\ rows \o page \in Seq(Keys)
         /\ \A i \in 1..Len(rows \o page) : (rows \o page)[i] \in Rows[s]
         /\ \A i, j \in 1..Len(rows \o page) : (rows \o page)[i] = (rows \o page)[j] => i = j
<1> USE RowsAssumption, OptionsAssumption
<1>1. PICK n \in 0..PageSize : page \in [1..n -> Rows[s] \cup {NoKey}]
  BY DEF Pages
<1>2. \A i \in 1..n : page[i] \in Rows[s] /\ page[i] \notin Seen
                      /\ \A j \in 1..i - 1 : page[j] # page[i]
  BY <1>1 DEF Bad, Repeats
<1>3. page \in Seq(Keys) /\ Len(page) = n
  <2>1. page \in [1..n -> Keys] BY <1>1, <1>2 DEF Keys
  <2> QED BY <1>1, <2>1
<1> DEFINE read == rows \o page
<1>4. read \in Seq(Keys) /\ Len(read) = Len(rows) + n
  BY <1>3
<1>5. \A i \in 1..Len(rows) : read[i] = rows[i]
  BY <1>3
<1>6. \A i \in 1..n : read[Len(rows) + i] = page[i]
  BY <1>3
<1>7. ASSUME NEW i \in 1..Len(read)
      PROVE  i \in 1..Len(rows) \/ \E k \in 1..n : i = Len(rows) + k
  <2>1. CASE i > Len(rows)
    <3>1. i - Len(rows) \in 1..n /\ i = Len(rows) + (i - Len(rows)) BY <2>1, <1>4
    <3> QED BY <3>1
  <2> QED BY <2>1, <1>4
<1>8. ASSUME NEW i \in 1..Len(read) PROVE read[i] \in Rows[s]
  BY <1>2, <1>5, <1>6, <1>7
<1>9. ASSUME NEW i \in 1..Len(rows), NEW k \in 1..n PROVE rows[i] # page[k]
  BY <1>2 DEF Seen
<1>10. ASSUME NEW k \in 1..n, NEW l \in 1..n, page[k] = page[l] PROVE k = l
  <2>1. ~(k < l) BY <1>2, <1>10
  <2>2. ~(l < k) BY <1>2, <1>10
  <2> QED BY <2>1, <2>2, <1>1
<1>11. ASSUME NEW i \in 1..Len(read), NEW j \in 1..Len(read), read[i] = read[j] PROVE i = j
  <2>1. CASE i \in 1..Len(rows) /\ j \in 1..Len(rows)
    BY <2>1, <1>5, <1>11
  <2>2. CASE i \in 1..Len(rows) /\ j \notin 1..Len(rows)
    BY <2>2, <1>5, <1>6, <1>7, <1>9, <1>11
  <2>3. CASE i \notin 1..Len(rows) /\ j \in 1..Len(rows)
    BY <2>3, <1>5, <1>6, <1>7, <1>9, <1>11
  <2>4. CASE i \notin 1..Len(rows) /\ j \notin 1..Len(rows)
    <3>1. PICK k \in 1..n : i = Len(rows) + k BY <2>4, <1>7
    <3>2. PICK l \in 1..n : j = Len(rows) + l BY <2>4, <1>7
    <3>3. page[k] = page[l] BY <3>1, <3>2, <1>6, <1>11
    <3> QED BY <3>1, <3>2, <3>3, <1>10
  <2> QED BY <2>1, <2>2, <2>3, <2>4
<1> QED BY <1>4, <1>8, <1>11

\* A pass that has read nothing is sound.
LEMMA NothingRead ==
  <<>> \in Seq(Keys) /\ Len(<<>>) = 0
OBVIOUS

\* The invariant holds at the start.
LEMMA InitIInv == Init => IInv
<1> SUFFICES ASSUME Init PROVE IInv
  OBVIOUS
<1>1. rows \in Seq(Keys) /\ Len(rows) = 0 BY NothingRead DEF Init
<1>2. TypeOK
  <2>1. attempt \in 1..Attempts BY OptionsAssumption DEF Init
  <2>2. total \in Nat \cup {None} /\ pinned \in Snapshots \cup {None}
    BY RequestedAssumption DEF Init
  <2>3. result \in {Running, Complete, Inconsistent, Failed} BY DEF Init
  <2>4. honest \in BOOLEAN /\ waiting \in BOOLEAN BY DEF Init
  <2>5. latest \in Snapshots BY DEF Init
  <2> QED BY <1>1, <2>1, <2>2, <2>3, <2>4, <2>5 DEF TypeOK
<1>3. PassSound
  BY <1>1, RequestedAssumption DEF Init, PassSound, Running, Complete
<1> QED BY <1>2, <1>3 DEF IInv

\* A pass that starts over has read nothing.
LEMMA StartOverKeeps ==
  ASSUME IInv, waiting, waiting' = FALSE, latest' = latest, StartOver
  PROVE  IInv'
<1>1. rows' \in Seq(Keys) /\ Len(rows') = 0 BY NothingRead DEF StartOver
<1>2. TypeOK'
  <2>1. attempt' \in 1..Attempts
    BY OptionsAssumption DEF IInv, TypeOK, StartOver, MoreAttempts
  <2>2. total' \in Nat \cup {None} /\ pinned' \in Snapshots \cup {None}
    BY RequestedAssumption DEF StartOver
  <2>3. result' \in {Running, Complete, Inconsistent, Failed}
    BY DEF IInv, TypeOK, StartOver
  <2>4. honest' \in BOOLEAN /\ waiting' \in BOOLEAN /\ latest' \in Snapshots
    BY DEF IInv, TypeOK, StartOver
  <2> QED BY <1>1, <2>1, <2>2, <2>3, <2>4 DEF TypeOK
<1>3. result' # Complete
  BY DEF IInv, TypeOK, PassSound, StartOver, Running, Complete, Inconsistent, Failed
<1>4. PassSound'
  BY <1>1, <1>3, RequestedAssumption DEF PassSound, StartOver
<1> QED BY <1>2, <1>4 DEF IInv

\* RunAll returns an error.
LEMMA GiveUpKeeps ==
  ASSUME IInv, waiting' = FALSE, latest' = latest, GiveUp
  PROVE  IInv'
BY DEF IInv, TypeOK, PassSound, GiveUp, pass, Running, Complete, Inconsistent, Failed

\* A page is appended, ends the pass, or makes it start over.
LEMMA PageKeeps ==
  ASSUME IInv, NEW s \in Snapshots, NEW t \in Totals, NEW page \in Pages(s), Page(s, t, page)
  PROVE  IInv'
<1> USE RowsAssumption, OptionsAssumption, RequestedAssumption
<1>0. waiting' = FALSE /\ latest' = latest /\ s = Asked /\ waiting BY DEF Page
<1>1. CASE StartOver BY <1>0, <1>1, StartOverKeeps
<1>2. CASE GiveUp BY <1>0, <1>2, GiveUpKeeps
<1>3. CASE ~StartOver /\ ~GiveUp
  <2> DEFINE read == rows \o page
             n == Len(read)
  <2>1. /\ ~TooMany(t) /\ total \in {None, t} /\ Bad(page) = {}
        /\ ~(Last(page, n, t) /\ n # t)
        /\ rows' = read /\ pinned' = s /\ total' = t /\ attempt' = attempt
        /\ honest' = (honest \/ t = Cardinality(Rows[s]))
        /\ result' = IF Last(page, n, t) THEN Complete ELSE Running
    BY <1>3 DEF Page
  <2>2. \A i \in 1..Len(rows) : rows[i] \in Rows[s]
    BY <1>0 DEF IInv, PassSound, TypeOK, Asked
  <2>3. /\ read \in Seq(Keys)
        /\ \A i \in 1..Len(read) : read[i] \in Rows[s]
        /\ \A i, j \in 1..Len(read) : read[i] = read[j] => i = j
    BY <2>1, <2>2, GoodPage DEF IInv, TypeOK, PassSound
  <2>4. n \in Nat /\ t \in Nat /\ (result' = Complete => n = t) /\ (result' = Running => n < t)
    BY <2>1, <2>3 DEF Last, Running, Complete
  <2> HIDE DEF read, n
  <2>5. TypeOK'
    BY <1>0, <2>1, <2>3, <2>4 DEF IInv, TypeOK, Running, Complete
  <2>6. t <= MaxRows
    BY <2>1, <2>4 DEF TooMany, IInv, PassSound
  <2>7. s # None /\ (Requested # None => s = Requested)
    BY <1>0 DEF Asked, IInv, PassSound
  <2>8. honest' => t = Cardinality(Rows[s])
    BY <1>0, <2>1 DEF IInv, PassSound, TypeOK, Asked
  <2>9. PassSound'
    BY <1>0, <2>1, <2>3, <2>4, <2>6, <2>7, <2>8 DEF PassSound, n
  <2> QED BY <2>5, <2>9 DEF IInv
<1> QED BY <1>1, <1>2, <1>3

\* The invariant is inductive.
LEMMA NextIInv == IInv /\ [Next]_vars => IInv'
<1> SUFFICES ASSUME IInv, [Next]_vars PROVE IInv'
  OBVIOUS
<1>1. CASE ReadPage
  BY <1>1, PageKeeps DEF ReadPage
<1>2. CASE PageFails
  BY <1>2, GiveUpKeeps DEF PageFails
<1>3. CASE AskPage
  BY <1>3 DEF IInv, TypeOK, PassSound, AskPage, pass
<1>4. ASSUME NEW s \in Snapshots, NewSnapshot(s) PROVE IInv'
  BY <1>4 DEF IInv, TypeOK, PassSound, NewSnapshot, pass
<1>5. CASE UNCHANGED vars
  BY <1>5 DEF IInv, TypeOK, PassSound, vars, pass
<1> QED BY <1>1, <1>2, <1>3, <1>4, <1>5 DEF Next

\* The inductive invariant holds for any server.
THEOREM Invariance == Spec => []IInv
BY InitIInv, NextIInv, PTL DEF Spec

\* The variables of RunAll keep their types.
THEOREM TypeCorrect == Spec => []TypeOK
<1>1. IInv => TypeOK BY DEF IInv
<1> QED BY Invariance, <1>1, PTL

\* The rows of a pass are rows of one snapshot.
THEOREM NeverMixed == Spec => []OneSnapshot
<1>1. IInv => OneSnapshot
  BY DEF IInv, TypeOK, PassSound, OneSnapshot, Seen
<1> QED BY Invariance, <1>1, PTL

\* As many different rows of a finite answer as it has are all of them.
LEMMA Whole ==
  ASSUME IInv, result = Complete
  PROVE  Cardinality(Seen) = Len(rows) /\ (honest => Seen = Rows[pinned])
<1> DEFINE n == Len(rows)
<1>1. n \in Nat /\ pinned \in Snapshots
  BY RowsAssumption DEF IInv, TypeOK, PassSound
<1>2. rows \in Surjection(1..n, Seen) /\ rows \in Injection(1..n, Seen)
  <2>1. rows \in [1..n -> Seen]
    <3>1. rows \in [1..n -> Keys] BY DEF IInv, TypeOK
    <3> QED BY <3>1 DEF Seen
  <2>2. \A i, j \in 1..n : rows[i] = rows[j] => i = j
    BY DEF IInv, PassSound
  <2>3. \A k \in Seen : \E i \in 1..n : rows[i] = k
    BY DEF Seen
  <2> HIDE DEF n
  <2>4. IsInjective(rows)
    BY <2>1, <2>2 DEF IsInjective
  <2>5. rows \in Injection(1..n, Seen)
    BY <2>1, <2>4, Zenon DEF Injection
  <2>6. rows \in Surjection(1..n, Seen)
    BY <2>1, <2>3 DEF Surjection
  <2> QED BY <2>5, <2>6
<1>3. IsFiniteSet(1..n) /\ Cardinality(1..n) = n
  <2> HIDE DEF n
  <2>1. 1 \in Int /\ n \in Int BY <1>1
  <2>2. IsFiniteSet(1..n) /\ Cardinality(1..n) = IF 1 > n THEN 0 ELSE n - 1 + 1
    BY <2>1, FS_Interval, Zenon
  <2> QED BY <1>1, <2>2
<1>4. IsFiniteSet(Seen) /\ Cardinality(Seen) = n
  BY <1>2, <1>3, FS_Surjection
<1>5. Seen \in SUBSET Rows[pinned]
  BY DEF IInv, PassSound, Seen
<1>6. ASSUME honest PROVE Seen = Rows[pinned]
  <2>1. Cardinality(Rows[pinned]) = Cardinality(Seen)
    BY <1>4, <1>6 DEF IInv, PassSound
  <2> QED BY <1>1, <1>5, <2>1, RowsAssumption, FS_Subset
<1> QED BY <1>4, <1>6

\* What RunAll returns is one consistent whole.
THEOREM ReturnsWhole == Spec => []ResultIsWhole
<1>1. IInv => ResultIsWhole
  BY Whole DEF ResultIsWhole
<1> QED BY Invariance, <1>1, PTL

\* The offset stays within the limit.
THEOREM OffsetsFit == Spec => []OffsetInBounds
<1>1. IInv => OffsetInBounds
  BY OptionsAssumption DEF IInv, TypeOK, PassSound, OffsetInBounds
<1> QED BY Invariance, <1>1, PTL

-----------------------------------------------------------------------------
(* RunAll implements ReadPromise.                                          *)

LEMMA InitPromise == Init => Promise!Init
BY DEF Init, Promise!Init, Seen, Running

\* What a step that is not of a pass leaves alone.
LEMMA SeenStays == rows' = rows => Seen' = Seen
BY DEF Seen

LEMMA WholeThen == IInv' => ResultIsWhole'
<1>1. IInv => ResultIsWhole
  BY Whole DEF ResultIsWhole
<1> QED BY <1>1, PTL

\* A page that is given up with its pass leaves nothing behind; one that is taken adds
\* to what there is.
LEMMA PagePromise ==
  ASSUME IInv, IInv', NEW s \in Snapshots, NEW t \in Totals, NEW page \in Pages(s),
         Page(s, t, page)
  PROVE  Promise!Next
<1>0. result = Running
  BY DEF Page, IInv, PassSound
<1>1. CASE StartOver
  <2>1. Seen' = {}
    BY <1>1 DEF StartOver, Seen
  <2>2. attempt < Attempts \/ attempt = Attempts
    BY OptionsAssumption DEF IInv, TypeOK
  <2>3. Promise!StartOver
    BY <1>0, <1>1, <2>1, <2>2 DEF StartOver, MoreAttempts, Promise!StartOver, Running, Inconsistent
  <2> QED BY <2>3 DEF Promise!Next
<1>2. CASE GiveUp
  BY <1>0, <1>2, SeenStays DEF GiveUp, pass, Promise!Next, Promise!Fail, Running, Failed
<1>3. CASE ~StartOver /\ ~GiveUp
  <2>1. /\ rows' = rows \o page /\ pinned' = s /\ attempt' = attempt
        /\ honest' = (honest \/ t = Cardinality(Rows[s]))
        /\ result' \in {Running, Complete} /\ s = Asked
    BY <1>3 DEF Page
  <2>2. pinned \in {None, s}
    BY <2>1 DEF Asked
  <2>3. Seen \subseteq Seen'
    <3>1. rows \in Seq(Keys) /\ rows' \in Seq(Keys)
      BY DEF IInv, TypeOK
    <3>2. PICK n \in 0..PageSize : page \in [1..n -> Rows[s] \cup {NoKey}]
      BY DEF Pages
    <3>3. page \in Seq(Rows[s] \cup {NoKey})
      BY <3>2, OptionsAssumption
    <3>4. rows \in Seq(Keys \cup Rows[s] \cup {NoKey}) /\ page \in Seq(Keys \cup Rows[s] \cup {NoKey})
      BY <3>1, <3>3
    <3>5. Len(rows') >= Len(rows) /\ \A i \in 1..Len(rows) : rows'[i] = rows[i]
      BY <2>1, <3>4
    <3> QED BY <3>1, <3>5 DEF Seen
  <2>4. Seen' \subseteq Rows[s]
    BY <2>1 DEF IInv, TypeOK, PassSound, Seen
  <2>5. result' = Complete /\ honest' => Seen' = Rows[s]
    BY <2>1, WholeThen DEF ResultIsWhole
  <2>6. honest' \in BOOLEAN /\ (honest => honest')
    BY <2>1 DEF IInv, TypeOK
  <2> QED BY <1>0, <2>1, <2>2, <2>3, <2>4, <2>5, <2>6
          DEF Promise!Next, Promise!Read, Running, Complete
<1> QED BY <1>1, <1>2, <1>3

LEMMA NextPromise == IInv /\ IInv' /\ [Next]_vars => [Promise!Next]_(Promise!promised)
<1> SUFFICES ASSUME IInv, IInv', [Next]_vars PROVE [Promise!Next]_(Promise!promised)
  OBVIOUS
<1> USE DEF Promise!promised
<1>1. CASE ReadPage
  BY <1>1, PagePromise DEF ReadPage
<1>2. CASE PageFails
  <2>1. result = Running
    BY <1>2 DEF PageFails, IInv, PassSound
  <2> QED BY <1>2, <2>1, SeenStays
          DEF PageFails, GiveUp, pass, Promise!Next, Promise!Fail, Running, Failed
<1>3. CASE AskPage \/ (\E s \in Snapshots : NewSnapshot(s)) \/ UNCHANGED vars
  <2>1. UNCHANGED <<attempt, pinned, rows, honest, result>>
    BY <1>3 DEF AskPage, NewSnapshot, vars, pass
  <2> QED BY <2>1, SeenStays
<1> QED BY <1>1, <1>2, <1>3 DEF Next

\* RunAll implements ReadPromise: whatever pages the server sends, what the caller sees
\* of them is one read of one snapshot that is whole, or an error.
THEOREM Refinement == Spec => KeepsPromise
BY InitPromise, NextPromise, Invariance, PTL DEF Spec, KeepsPromise, Promise!Spec

-----------------------------------------------------------------------------
(* Why RunAll ends, as far as a step can say: every answer, an empty page   *)
(* too, is an end, another of the Attempts passes, or more rows of at most  *)
(* MaxRows; nothing else takes back what it has.                            *)

GetsOn ==
  \/ result' # Running
  \/ attempt' > attempt
  \/ attempt' = attempt /\ Len(rows') > Len(rows)

EveryPageCounts == [][IF ReadPage \/ PageFails THEN GetsOn ELSE UNCHANGED <<attempt, rows, result>>]_vars

LEMMA PageCounts ==
  ASSUME IInv, NEW s \in Snapshots, NEW t \in Totals, NEW page \in Pages(s), Page(s, t, page)
  PROVE  GetsOn
<1>1. CASE StartOver
  <2>1. attempt' = attempt + 1 \/ result' = Inconsistent
    BY <1>1 DEF StartOver
  <2>2. attempt \in Nat
    BY DEF IInv, TypeOK
  <2> QED BY <2>1, <2>2 DEF GetsOn, Running, Inconsistent
<1>2. CASE GiveUp
  BY <1>2 DEF GiveUp, GetsOn, Running, Failed
<1>3. CASE ~StartOver /\ ~GiveUp
  <2>1. /\ rows' = rows \o page /\ attempt' = attempt
        /\ result' = Running => page # <<>>
    BY <1>3 DEF Page, Last, Running, Complete
  <2>2. PICK n \in 0..PageSize : page \in [1..n -> Rows[s] \cup {NoKey}]
    BY DEF Pages
  <2>3. page \in Seq(Rows[s] \cup {NoKey}) /\ rows \in Seq(Keys)
    BY <2>2, OptionsAssumption DEF IInv, TypeOK
  <2>4. page # <<>> => Len(page) > 0
    BY <2>3
  <2>5. Len(rows') = Len(rows) + Len(page)
    <3>1. rows \in Seq(Keys \cup Rows[s] \cup {NoKey}) /\ page \in Seq(Keys \cup Rows[s] \cup {NoKey})
      BY <2>3
    <3> QED BY <2>1, <3>1
  <2> QED BY <2>1, <2>3, <2>4, <2>5 DEF GetsOn
<1> QED BY <1>1, <1>2, <1>3

\* However little a page holds, no two states of a pass are the same, and no pass is
\* made twice: RunAll reads finitely many pages (nqe_paged.go:144, runAllOnce).
THEOREM PagesRunOut == Spec => EveryPageCounts
<1>1. IInv /\ [Next]_vars => [IF ReadPage \/ PageFails THEN GetsOn ELSE UNCHANGED <<attempt, rows, result>>]_vars
  <2> SUFFICES ASSUME IInv, Next
               PROVE  IF ReadPage \/ PageFails THEN GetsOn ELSE UNCHANGED <<attempt, rows, result>>
    OBVIOUS
  <2>1. CASE ReadPage
    <3>1. GetsOn BY <2>1, PageCounts DEF ReadPage
    <3> QED BY <2>1, <3>1
  <2>2. CASE PageFails
    <3>1. GetsOn BY <2>2 DEF PageFails, GiveUp, GetsOn, Running, Failed
    <3> QED BY <2>2, <3>1
  <2>3. CASE ~ReadPage /\ ~PageFails
    <3>1. UNCHANGED <<attempt, rows, result>>
      BY <2>3 DEF Next, AskPage, NewSnapshot, pass
    <3> QED BY <2>3, <3>1
  <2> QED BY <2>1, <2>2, <2>3
<1> QED BY <1>1, Invariance, PTL DEF Spec, EveryPageCounts
=============================================================================
