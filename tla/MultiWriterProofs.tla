---------------------------- MODULE MultiWriterProofs ----------------------------
(***************************************************************************)
(* Proofs about MultiWriter, for all goroutines, writers, lists and bounds:*)
(* each has the writers it was made from and given (ListsKept), lines of   *)
(* concurrent Writes have one order (SameOrder), and calls reach all the   *)
(* writers they should (EveryMemberCalled).                                *)
(***************************************************************************)
EXTENDS MultiWriter, RecursionLemmas, SequenceTheorems

--------------------------------------------------------------------------------
(* Facts about sequences.                                                   *)

\* Where w is in s first, or 0.
IndexIn(s, w) == SelectInSeq(s, LAMBDA x : x = w)

\* SelectInSeq finds an index of w, or none.
LEMMA FoundIndex ==
    ASSUME NEW S, NEW s \in Seq(S), NEW w
    PROVE  LET i == IndexIn(s, w) IN
           \/ i = 0 /\ ~ \E j \in 1..Len(s) : s[j] = w
           \/ i \in 1..Len(s) /\ s[i] = w
<1> DEFINE I == {i \in 1..Len(s) : s[i] = w}
<1>1. I \in SUBSET Nat
  OBVIOUS
<1>2. I # {} => Min(I) \in I
  BY <1>1, MinMember
<1>3. IndexIn(s, w) = IF I # {} THEN Min(I) ELSE 0
  BY DEF IndexIn, SelectInSeq
<1> HIDE DEF I
<1>4. CASE I = {}
  BY <1>3, <1>4 DEF I
<1>5. CASE I # {}
  BY <1>2, <1>3, <1>5 DEF I
<1> QED
  BY <1>4, <1>5

--------------------------------------------------------------------------------
(* Types.                                                                   *)

\* What a place of an array holds: a writer, or nothing yet.
Place == Writers \cup {None}

SliceType == [arr : Nat, len : Nat]
CallType  == [multi : Nat, line : Nat]

\* Within the length of a slice its array has writers.
Fits(s) ==
    /\ s.arr \in DOMAIN arrays /\ s.len =< Len(arrays[s.arr])
    /\ \A i \in 1..s.len : arrays[s.arr][i] \in Writers

SliceTypes ==
    /\ arrays \in Seq(Seq(Place))
    /\ slice \in [Multis -> SliceType]
    /\ members \in [Multis -> Seq(Writers)]
    /\ disturbed \subseteq Multis
    /\ \A m \in Multis : Fits(slice[m])

ProcTypes ==
    /\ mu \in [Multis -> Procs \cup {None}]
    /\ pc \in [Procs -> {"idle", "loop"}]
    /\ call \in [Procs -> CallType] /\ view \in [Procs -> SliceType]
    /\ pos \in [Procs -> Nat] /\ failed \in [Procs -> Nat]
    /\ calls \in Nat
    /\ got \in [Writers -> Seq(CallType)] /\ closes \in [Writers -> Nat]

\* The writers of a MultiWriter.
LEMMA ContentFacts ==
    ASSUME SliceTypes, NEW m \in Multis
    PROVE  /\ Content(m) \in Seq(Writers) /\ Len(Content(m)) = slice[m].len
           /\ \A i \in 1..slice[m].len : Content(m)[i] = arrays[slice[m].arr][i]
<1>1. PICK s \in SliceType : s = slice[m]
  BY DEF SliceTypes
<1>2. s.arr \in Nat /\ s.len \in Nat
  BY DEF SliceType
<1>3. Fits(s)
  BY <1>1 DEF SliceTypes
<1>4. PICK A \in Seq(Place) : A = arrays[s.arr]
  BY <1>3 DEF SliceTypes, Fits
<1>5. s.len =< Len(A) /\ \A i \in 1..s.len : A[i] \in Writers
  BY <1>3, <1>4 DEF Fits
<1>6. Content(m) = SubSeq(A, 1, s.len)
  BY <1>1, <1>4 DEF Content
<1>7. /\ Len(SubSeq(A, 1, s.len)) = s.len
      /\ \A i \in 1..s.len : SubSeq(A, 1, s.len)[i] = A[i]
      /\ SubSeq(A, 1, s.len) \in Seq(Writers)
  BY <1>2, <1>5
<1> QED
  BY <1>1, <1>4, <1>6, <1>7

\* An addition in place sets one place of one array.
LEMMA AddInPlace ==
    ASSUME SliceTypes, NEW p, NEW m \in Multis, NEW w \in Writers,
           AddWriter(p, m, w), HasRoom(slice[m])
    PROVE  LET s == slice[m] IN
           /\ arrays' \in Seq(Seq(Place)) /\ DOMAIN arrays' = DOMAIN arrays
           /\ \A a \in DOMAIN arrays : a # s.arr => arrays'[a] = arrays[a]
           /\ Len(arrays'[s.arr]) = Len(arrays[s.arr])
           /\ \A i \in DOMAIN arrays[s.arr] :
                 arrays'[s.arr][i] = IF i = s.len + 1 THEN w ELSE arrays[s.arr][i]
           /\ slice' \in [Multis -> SliceType]
           /\ slice'[m] = [arr |-> s.arr, len |-> s.len + 1]
           /\ \A o \in Multis \ {m} : slice'[o] = slice[o]
<1>1. PICK s \in SliceType : s = slice[m]
  BY DEF SliceTypes
<1>2. s.arr \in Nat /\ s.len \in Nat
  BY DEF SliceType
<1>3. Fits(s)
  BY <1>1 DEF SliceTypes
<1>4. PICK A \in Seq(Place) : A = arrays[s.arr]
  BY <1>3 DEF SliceTypes, Fits
<1>5. s.len + 1 \in DOMAIN A
  BY <1>1, <1>2, <1>4 DEF HasRoom
<1>6. PICK B : B = [A EXCEPT ![s.len + 1] = w]
  OBVIOUS
<1>7. /\ B \in Seq(Place) /\ Len(B) = Len(A)
      /\ \A i \in DOMAIN A : B[i] = IF i = s.len + 1 THEN w ELSE A[i]
  <2>1. w \in Place
    BY DEF Place
  <2> QED
    BY <1>5, <1>6, <2>1
<1>8. arrays' = [arrays EXCEPT ![s.arr] = B]
  BY <1>1, <1>4, <1>6 DEF AddWriter
<1>9. /\ arrays' \in Seq(Seq(Place)) /\ DOMAIN arrays' = DOMAIN arrays
      /\ \A a \in DOMAIN arrays : a # s.arr => arrays'[a] = arrays[a]
      /\ arrays'[s.arr] = B
  BY <1>3, <1>7, <1>8 DEF SliceTypes, Fits
<1>10. PICK t : t = [s EXCEPT !.len = s.len + 1]
  OBVIOUS
<1>11. t \in SliceType /\ t = [arr |-> s.arr, len |-> s.len + 1]
  BY <1>2, <1>10 DEF SliceType
<1>12. slice' = [slice EXCEPT ![m] = t]
  BY <1>1, <1>10 DEF AddWriter
<1>13. /\ slice' \in [Multis -> SliceType] /\ slice'[m] = t
       /\ \A o \in Multis \ {m} : slice'[o] = slice[o]
  BY <1>11, <1>12 DEF SliceTypes
<1> QED
  BY <1>1, <1>4, <1>7, <1>9, <1>11, <1>13

\* An addition to a full array adds one array.
LEMMA AddInCopy ==
    ASSUME SliceTypes, NEW p, NEW m \in Multis, NEW w \in Writers,
           AddWriter(p, m, w), ~ HasRoom(slice[m])
    PROVE  LET n == slice[m].len + 1
               a == Len(arrays) + 1 IN
           /\ arrays' \in Seq(Seq(Place)) /\ DOMAIN arrays' = DOMAIN arrays \cup {a}
           /\ \A b \in DOMAIN arrays : arrays'[b] = arrays[b]
           /\ n =< Len(arrays'[a])
           /\ \A i \in 1..n : arrays'[a][i] = Append(Content(m), w)[i]
           /\ slice' \in [Multis -> SliceType]
           /\ slice'[m] = [arr |-> a, len |-> n]
           /\ \A o \in Multis \ {m} : slice'[o] = slice[o]
<1>1. PICK s \in SliceType : s = slice[m]
  BY DEF SliceTypes
<1>2. s.arr \in Nat /\ s.len \in Nat
  BY DEF SliceType
<1>3. PICK C \in Seq(Writers) : C = Content(m) /\ Len(C) = s.len
  BY <1>1, ContentFacts
<1>4. PICK R : R = [i \in 1..(s.len - 1) |-> None]
  OBVIOUS
<1>5. R \in Seq(Place)
  <2>1. None \in Place
    BY DEF Place
  <2>2. PICK k \in Nat : 1..(s.len - 1) = 1..k
    <3>1. CASE s.len = 0
      <4>1. 1..(s.len - 1) = 1..0
        BY <3>1
      <4> QED
        BY <4>1
    <3>2. CASE s.len # 0
      BY <1>2, <3>2
    <3> QED
      BY <3>1, <3>2
  <2>3. R = [i \in 1..k |-> None]
    BY <1>4, <2>2
  <2> QED
    BY <2>1, <2>3
<1>6. PICK D \in Seq(Place) : D = Append(C, w)
  <2>1. C \in Seq(Place) /\ w \in Place
    BY DEF Place
  <2>2. Append(C, w) \in Seq(Place)
    BY <2>1
  <2> QED
    BY <2>2, Zenon
<1>7. Len(D) = s.len + 1
  BY <1>3, <1>6
<1>8. PICK B : B = D \o R
  OBVIOUS
<1>9. /\ B \in Seq(Place) /\ s.len + 1 =< Len(B)
      /\ \A i \in 1..(s.len + 1) : B[i] = D[i]
  BY <1>2, <1>5, <1>7, <1>8
<1>10. arrays' = Append(arrays, B)
  BY <1>1, <1>3, <1>4, <1>6, <1>8 DEF AddWriter
<1>11. /\ arrays' \in Seq(Seq(Place)) /\ DOMAIN arrays' = DOMAIN arrays \cup {Len(arrays) + 1}
       /\ \A b \in DOMAIN arrays : arrays'[b] = arrays[b]
       /\ arrays'[Len(arrays) + 1] = B
  BY <1>9, <1>10 DEF SliceTypes
<1>12. PICK t : t = [arr |-> Len(arrays) + 1, len |-> s.len + 1]
  OBVIOUS
<1>13. t \in SliceType
  <2>1. Len(arrays) \in Nat
    BY DEF SliceTypes
  <2> QED
    BY <1>2, <1>12, <2>1 DEF SliceType
<1>14. slice' = [slice EXCEPT ![m] = t]
  BY <1>1, <1>12 DEF AddWriter
<1>15. /\ slice' \in [Multis -> SliceType] /\ slice'[m] = t
       /\ \A o \in Multis \ {m} : slice'[o] = slice[o]
  BY <1>13, <1>14 DEF SliceTypes
<1> QED
  BY <1>1, <1>3, <1>6, <1>9, <1>11, <1>12, <1>15

\* Where RemoveWriter finds w in the slice of m.
Index(m, w) == IndexIn(Content(m), w)

\* From the i-th place of slice s, that of m, each writer has moved up by one.
Shifted(m, s, i) ==
    /\ i \in 1..s.len
    /\ arrays' \in Seq(Seq(Place)) /\ DOMAIN arrays' = DOMAIN arrays
    /\ \A a \in DOMAIN arrays : a # s.arr => arrays'[a] = arrays[a]
    /\ Len(arrays'[s.arr]) = Len(arrays[s.arr])
    /\ \A j \in DOMAIN arrays[s.arr] :
          arrays'[s.arr][j] = IF j \in i..(s.len - 1) THEN arrays[s.arr][j + 1]
                              ELSE arrays[s.arr][j]
    /\ slice' \in [Multis -> SliceType]
    /\ slice'[m].arr = s.arr /\ slice'[m].len = s.len - 1
    /\ \A o \in Multis \ {m} : slice'[o] = slice[o]

\* A removal moves the later writers of the slice up by one place of its array.
LEMMA RemoveShifts ==
    ASSUME SliceTypes, NEW p, NEW m \in Multis, NEW w \in Writers,
           RemoveWriter(p, m, w), Index(m, w) # 0
    PROVE  Shifted(m, slice[m], Index(m, w))
<1>1. PICK s \in SliceType : s = slice[m]
  BY DEF SliceTypes
<1>2. s.arr \in Nat /\ s.len \in Nat
  BY <1>1 DEF SliceType
<1>3. Fits(s)
  BY <1>1 DEF SliceTypes
<1>4. PICK A \in Seq(Place) : A = arrays[s.arr]
  BY <1>3 DEF SliceTypes, Fits
<1>5. s.len =< Len(A) /\ Len(A) \in Nat /\ DOMAIN A = 1..Len(A)
  BY <1>3, <1>4 DEF Fits
<1>6. PICK C \in Seq(Writers) : C = Content(m) /\ Len(C) = s.len
  BY <1>1, ContentFacts
<1>7. PICK i : i = Index(m, w)
  OBVIOUS
<1>8. i \in 1..s.len /\ C[i] = w
  BY <1>6, <1>7, FoundIndex DEF Index
<1>9. PICK B : B = [j \in DOMAIN A |-> IF j \in i..(s.len - 1) THEN A[j + 1] ELSE A[j]]
  OBVIOUS
<1>10. /\ B \in Seq(Place) /\ Len(B) = Len(A)
       /\ \A j \in DOMAIN A : B[j] = IF j \in i..(s.len - 1) THEN A[j + 1] ELSE A[j]
  <2>1. \A j \in DOMAIN A : A[j] \in Place /\ (j \in i..(s.len - 1) => A[j + 1] \in Place)
    BY <1>2, <1>5, <1>8
  <2>2. \A j \in DOMAIN A : B[j] \in Place
    BY <1>9, <2>1
  <2>3. DOMAIN B = 1..Len(A) /\ B = [j \in 1..Len(A) |-> B[j]]
    BY <1>5, <1>9
  <2> QED
    BY <1>5, <1>9, <2>2, <2>3
<1>11. arrays' = [arrays EXCEPT ![s.arr] = B]
  BY <1>1, <1>4, <1>7, <1>8, <1>9 DEF RemoveWriter, Index, IndexIn, SelectInSeq, Moved
<1>12. /\ arrays' \in Seq(Seq(Place)) /\ DOMAIN arrays' = DOMAIN arrays
       /\ \A a \in DOMAIN arrays : a # s.arr => arrays'[a] = arrays[a]
       /\ arrays'[s.arr] = B
  BY <1>3, <1>10, <1>11 DEF SliceTypes, Fits
<1>13. PICK t : t = [s EXCEPT !.len = s.len - 1]
  OBVIOUS
<1>14. t \in SliceType /\ t = [arr |-> s.arr, len |-> s.len - 1]
  BY SMTT(40), <1>1, <1>2, <1>8, <1>13 DEF SliceType
<1>15. slice' = [slice EXCEPT ![m] = t]
  BY <1>1, <1>7, <1>8, <1>13 DEF RemoveWriter, Index, IndexIn, SelectInSeq
<1>16. /\ slice' \in [Multis -> SliceType] /\ slice'[m] = t
       /\ \A o \in Multis \ {m} : slice'[o] = slice[o]
  BY <1>14, <1>15 DEF SliceTypes
<1>17. Shifted(m, s, i)
  BY <1>4, <1>6, <1>8, <1>10, <1>12, <1>14, <1>16 DEF Shifted
<1> QED
  BY <1>1, <1>7, <1>17

\* What a removal does to the history.
LEMMA RemoveTold ==
    ASSUME NEW p, NEW m \in Multis, NEW w \in Writers,
           RemoveWriter(p, m, w), Index(m, w) # 0
    PROVE  disturbed' = disturbed \cup {o \in Multis \ {m} : slice[o].arr = slice[m].arr}
BY DEF RemoveWriter, Index, IndexIn, SelectInSeq, Sharing

\* A removal that finds nothing changes nothing.
LEMMA RemoveNone ==
    ASSUME NEW p, NEW m, NEW w, RemoveWriter(p, m, w), Index(m, w) = 0
    PROVE  UNCHANGED sliceVars
BY DEF RemoveWriter, Index, IndexIn, SelectInSeq

\* RemoveFirst of a list of writers is one.
LEMMA RemoveFirstType ==
    ASSUME NEW s \in Seq(Writers), NEW w
    PROVE  RemoveFirst(s, w) \in Seq(Writers)
<1>1. CASE \E j \in 1..Len(s) : s[j] = w
  <2>1. PICK i : i = IndexIn(s, w)
    OBVIOUS
  <2>2. i \in 1..Len(s)
    BY <1>1, <2>1, FoundIndex
  <2>3. RemoveFirst(s, w) = RemoveAt(s, i)
    BY <1>1, <2>1 DEF RemoveFirst, IndexIn, SelectInSeq
  <2>4. SubSeq(s, 1, i - 1) \in Seq(Writers) /\ SubSeq(s, i + 1, Len(s)) \in Seq(Writers)
    BY <2>2
  <2> QED
    BY <2>3, <2>4 DEF RemoveAt
<1>2. CASE ~ \E j \in 1..Len(s) : s[j] = w
  BY <1>2 DEF RemoveFirst
<1> QED
  BY <1>1, <1>2

\* The types of the slices are kept.
LEMMA SlicesTyped ==
    ASSUME SliceTypes, NEW p, NEW m \in Multis, NEW w \in Writers,
           AddWriter(p, m, w) \/ RemoveWriter(p, m, w)
    PROVE  SliceTypes'
<1>1. PICK s \in SliceType : s = slice[m]
  BY DEF SliceTypes
<1>2. s.arr \in Nat /\ s.len \in Nat
  BY DEF SliceType
<1>3. Fits(s)
  BY <1>1 DEF SliceTypes
<1>4. \A o \in Multis : /\ slice[o].len \in Nat /\ slice[o].arr \in DOMAIN arrays
                        /\ slice[o].len =< Len(arrays[slice[o].arr])
                        /\ \A i \in 1..slice[o].len : arrays[slice[o].arr][i] \in Writers
  <2> TAKE o \in Multis
  <2>1. slice[o] \in SliceType /\ Fits(slice[o])
    BY DEF SliceTypes
  <2> QED
    BY <2>1 DEF Fits, SliceType
<1>5. \A a \in DOMAIN arrays : Len(arrays[a]) \in Nat /\ DOMAIN arrays[a] = 1..Len(arrays[a])
  BY DEF SliceTypes
<1>6. CASE AddWriter(p, m, w) /\ HasRoom(slice[m])
  <2>1. members' \in [Multis -> Seq(Writers)] /\ disturbed' \subseteq Multis
    <3>1. members' = [members EXCEPT ![m] = Append(members[m], w)]
      BY <1>6 DEF AddWriter
    <3>2. disturbed' \subseteq disturbed \cup Multis
      BY <1>6 DEF AddWriter, Sharing
    <3>3. PICK l \in Seq(Writers) : l = members[m]
      BY DEF SliceTypes
    <3>4. Append(l, w) \in Seq(Writers)
      OBVIOUS
    <3> QED
      BY <3>1, <3>2, <3>3, <3>4 DEF SliceTypes
  <2>2. /\ arrays' \in Seq(Seq(Place)) /\ DOMAIN arrays' = DOMAIN arrays
        /\ \A a \in DOMAIN arrays : a # s.arr => arrays'[a] = arrays[a]
        /\ Len(arrays'[s.arr]) = Len(arrays[s.arr])
        /\ \A i \in DOMAIN arrays[s.arr] :
              arrays'[s.arr][i] = IF i = s.len + 1 THEN w ELSE arrays[s.arr][i]
        /\ slice' \in [Multis -> SliceType]
        /\ slice'[m] = [arr |-> s.arr, len |-> s.len + 1]
        /\ \A o \in Multis \ {m} : slice'[o] = slice[o]
    BY ZenonT(40), <1>1, <1>6, AddInPlace
  <2>3. s.len + 1 =< Len(arrays[s.arr])
    BY <1>1, <1>2, <1>3, <1>5, <1>6 DEF HasRoom, Fits
  <2>a. \A n \in Nat : \A j \in 1..n :
           /\ n =< Len(arrays[s.arr])
           /\ \A k \in 1..n : k # s.len + 1 => arrays[s.arr][k] \in Writers
           => arrays'[s.arr][j] \in Writers
    <3>1. \A j \in 1..Len(arrays[s.arr]) :
             arrays'[s.arr][j] = IF j = s.len + 1 THEN w ELSE arrays[s.arr][j]
      BY <1>3, <1>5, <2>2 DEF Fits
    <3>2. Len(arrays[s.arr]) \in Nat
      BY <1>3, <1>5 DEF Fits
    <3> QED
      BY <3>1, <3>2
  <2>4. Fits(slice[m])'
    <3>1. \A k \in 1..(s.len + 1) : k # s.len + 1 => arrays[s.arr][k] \in Writers
      BY <1>2, <1>3 DEF Fits
    <3>2. \A k \in 1..(s.len + 1) : arrays'[s.arr][k] \in Writers
      BY <1>2, <2>3, <2>a, <3>1
    <3> QED
      BY <1>3, <2>2, <2>3, <3>2 DEF Fits
  <2>5. ASSUME NEW o \in Multis \ {m} PROVE Fits(slice[o])'
    <3>1. CASE slice[o].arr = s.arr
      BY <1>4, <2>2, <2>a, <3>1 DEF Fits
    <3>2. CASE slice[o].arr # s.arr
      BY SMTT(40), <1>4, <2>2, <3>2 DEF Fits
    <3> QED
      BY <3>1, <3>2
  <2> QED
    BY <2>1, <2>2, <2>4, <2>5 DEF SliceTypes
<1>7. CASE AddWriter(p, m, w) /\ ~ HasRoom(slice[m])
  <2>1. members' \in [Multis -> Seq(Writers)] /\ disturbed' \subseteq Multis
    <3>1. members' = [members EXCEPT ![m] = Append(members[m], w)]
      BY <1>7 DEF AddWriter
    <3>2. disturbed' = disturbed
      BY <1>7 DEF AddWriter
    <3>3. PICK l \in Seq(Writers) : l = members[m]
      BY DEF SliceTypes
    <3>4. Append(l, w) \in Seq(Writers)
      OBVIOUS
    <3> QED
      BY <3>1, <3>2, <3>3, <3>4 DEF SliceTypes
  <2> DEFINE a == Len(arrays) + 1
  <2>2. /\ arrays' \in Seq(Seq(Place)) /\ DOMAIN arrays' = DOMAIN arrays \cup {a}
        /\ \A b \in DOMAIN arrays : arrays'[b] = arrays[b]
        /\ s.len + 1 =< Len(arrays'[a])
        /\ \A i \in 1..(s.len + 1) : arrays'[a][i] = Append(Content(m), w)[i]
        /\ slice' \in [Multis -> SliceType]
        /\ slice'[m] = [arr |-> a, len |-> s.len + 1]
        /\ \A o \in Multis \ {m} : slice'[o] = slice[o]
    BY <1>1, <1>7, AddInCopy
  <2> HIDE DEF a
  <2>3. PICK C \in Seq(Writers) : C = Content(m) /\ Len(C) = s.len
    BY <1>1, ContentFacts
  <2>4. \A i \in 1..(s.len + 1) : Append(C, w)[i] \in Writers
    BY <1>2, <2>3
  <2>5. Fits(slice[m])'
    BY SMTT(40), <2>2, <2>3, <2>4 DEF Fits
  <2>6. ASSUME NEW o \in Multis \ {m} PROVE Fits(slice[o])'
    BY <1>4, <2>2 DEF Fits
  <2> QED
    BY <2>1, <2>2, <2>5, <2>6 DEF SliceTypes
<1>8. CASE RemoveWriter(p, m, w) /\ Index(m, w) # 0
  <2>0. PICK i : i = Index(m, w)
    OBVIOUS
  <2>1. /\ i \in 1..s.len
        /\ arrays' \in Seq(Seq(Place)) /\ DOMAIN arrays' = DOMAIN arrays
        /\ \A a \in DOMAIN arrays : a # s.arr => arrays'[a] = arrays[a]
        /\ Len(arrays'[s.arr]) = Len(arrays[s.arr])
        /\ \A j \in DOMAIN arrays[s.arr] :
              arrays'[s.arr][j] = IF j \in i..(s.len - 1) THEN arrays[s.arr][j + 1]
                                  ELSE arrays[s.arr][j]
        /\ slice' \in [Multis -> SliceType]
        /\ slice'[m].arr = s.arr /\ slice'[m].len = s.len - 1
        /\ \A o \in Multis \ {m} : slice'[o] = slice[o]
    <3>1. Shifted(m, s, i)
      BY <1>1, <1>8, <2>0, RemoveShifts
    <3> QED
      BY <3>1 DEF Shifted
  <2>2. members' \in [Multis -> Seq(Writers)] /\ disturbed' \subseteq Multis
    <3>1. RemoveFirst(members[m], w) \in Seq(Writers)
      BY RemoveFirstType DEF SliceTypes
    <3>2. members' = [members EXCEPT ![m] = RemoveFirst(members[m], w)]
      BY <1>8 DEF RemoveWriter, Index, IndexIn, SelectInSeq
    <3> QED
      BY <1>8, <3>1, <3>2, RemoveTold DEF SliceTypes
  <2>3. \A n \in Nat : \A j \in 1..n :
           /\ n =< Len(arrays[s.arr])
           /\ \A k \in 1..n : arrays[s.arr][k] \in Writers
           => arrays'[s.arr][j] \in Writers
    <3> TAKE n \in Nat
    <3> TAKE j \in 1..n
    <3> HAVE /\ n =< Len(arrays[s.arr])
             /\ \A k \in 1..n : arrays[s.arr][k] \in Writers
    <3>1. CASE j \in i..(s.len - 1)
      <4>1. j + 1 \in 1..s.len
        BY <1>2, <2>1, <3>1
      <4>2. arrays[s.arr][j + 1] \in Writers
        BY <1>3, <4>1 DEF Fits
      <4>3. j \in DOMAIN arrays[s.arr]
        <5>1. s.len =< Len(arrays[s.arr]) /\ s.arr \in DOMAIN arrays
          BY <1>3 DEF Fits
        <5>2. j \in 1..Len(arrays[s.arr])
          BY <1>2, <1>5, <2>1, <3>1, <4>1, <5>1
        <5> QED
          BY <1>5, <5>1, <5>2
      <4>4. arrays'[s.arr][j] = arrays[s.arr][j + 1]
        BY <2>1, <3>1, <4>3
      <4> QED
        BY <4>2, <4>4
    <3>2. CASE j \notin i..(s.len - 1)
      BY <1>3, <1>5, <2>1, <3>2 DEF Fits
    <3> QED
      BY <3>1, <3>2
  <2>4. Fits(slice[m])'
    <3>1. s.len - 1 \in Nat /\ s.len - 1 =< Len(arrays[s.arr])
      BY <1>2, <1>3, <1>5, <2>1 DEF Fits
    <3>2. \A k \in 1..(s.len - 1) : arrays[s.arr][k] \in Writers
      BY <1>2, <1>3 DEF Fits
    <3>3. \A k \in 1..(s.len - 1) : arrays'[s.arr][k] \in Writers
      BY <2>3, <3>1, <3>2
    <3> QED
      BY <1>3, <2>1, <3>1, <3>3 DEF Fits
  <2>5. ASSUME NEW o \in Multis \ {m} PROVE Fits(slice[o])'
    <3>1. CASE slice[o].arr = s.arr
      BY <1>4, <2>1, <2>3, <3>1 DEF Fits
    <3>2. CASE slice[o].arr # s.arr
      BY SMTT(40), <1>4, <2>1, <3>2 DEF Fits
    <3> QED
      BY <3>1, <3>2
  <2> QED
    BY <2>1, <2>2, <2>4, <2>5 DEF SliceTypes
<1>9. CASE RemoveWriter(p, m, w) /\ Index(m, w) = 0
  <2>1. UNCHANGED sliceVars
    BY <1>9, RemoveNone
  <2> QED
    BY <2>1 DEF SliceTypes, sliceVars, Fits
<1> QED
  BY <1>6, <1>7, <1>8, <1>9

--------------------------------------------------------------------------------
(* Each MultiWriter has its list, unless another of its array disturbed it.  *)

\* The first n places of an array.
LEMMA FirstPlaces ==
    ASSUME NEW A \in Seq(Place), NEW n \in Nat, n =< Len(A)
    PROVE  /\ SubSeq(A, 1, n) \in Seq(Place) /\ Len(SubSeq(A, 1, n)) = n
           /\ \A i \in 1..n : SubSeq(A, 1, n)[i] = A[i]
OBVIOUS

\* Sequences with the same elements are equal.
LEMMA SameElements ==
    ASSUME NEW C \in Seq(Place), NEW D \in Seq(Place), Len(C) = Len(D),
           \A i \in 1..Len(C) : C[i] = D[i]
    PROVE  C = D
OBVIOUS

\* Arrays that agree on the first n places.
LEMMA SameFirst ==
    ASSUME NEW A \in Seq(Place), NEW B \in Seq(Place), NEW n \in Nat,
           n =< Len(A), n =< Len(B), \A i \in 1..n : A[i] = B[i]
    PROVE  SubSeq(A, 1, n) = SubSeq(B, 1, n)
<1>1. PICK C \in Seq(Place) : C = SubSeq(A, 1, n) /\ Len(C) = n /\ \A i \in 1..n : C[i] = A[i]
  BY FirstPlaces
<1>2. PICK D \in Seq(Place) : D = SubSeq(B, 1, n) /\ Len(D) = n /\ \A i \in 1..n : D[i] = B[i]
  BY FirstPlaces
<1>3. C = D
  BY <1>1, <1>2, SameElements
<1> QED
  BY <1>1, <1>2, <1>3

\* An array whose next place is w.
LEMMA OneMore ==
    ASSUME NEW A \in Seq(Place), NEW B \in Seq(Place), NEW n \in Nat, NEW w \in Place,
           n =< Len(A), n + 1 =< Len(B),
           \A i \in 1..n : A[i] = B[i], B[n + 1] = w
    PROVE  SubSeq(B, 1, n + 1) = Append(SubSeq(A, 1, n), w)
<1>1. PICK C \in Seq(Place) : C = SubSeq(A, 1, n) /\ Len(C) = n /\ \A i \in 1..n : C[i] = A[i]
  BY FirstPlaces
<1>2. PICK D \in Seq(Place) : /\ D = SubSeq(B, 1, n + 1) /\ Len(D) = n + 1
                              /\ \A i \in 1..(n + 1) : D[i] = B[i]
  <2>1. PICK k \in Nat : k = n + 1
    OBVIOUS
  <2>2. /\ SubSeq(B, 1, k) \in Seq(Place) /\ Len(SubSeq(B, 1, k)) = k
        /\ \A i \in 1..k : SubSeq(B, 1, k)[i] = B[i]
    BY <2>1, FirstPlaces
  <2> QED
    BY <2>1, <2>2
<1>3. PICK F \in Seq(Place) : F = Append(C, w)
  <2>1. Append(C, w) \in Seq(Place)
    BY AppendProperties
  <2> QED
    BY <2>1, Zenon
<1>4. /\ F \in Seq(Place) /\ Len(F) = n + 1 /\ F[n + 1] = w
      /\ \A i \in 1..n : F[i] = C[i]
  BY <1>1, <1>3
<1>5. \A i \in 1..(n + 1) : F[i] = D[i]
  BY <1>1, <1>2, <1>4
<1>6. F = D
  BY <1>2, <1>4, <1>5, SameElements
<1> QED
  BY <1>1, <1>2, <1>3, <1>6

\* An array whose places from i on moved up.
LEMMA OneLess ==
    ASSUME NEW A \in Seq(Place), NEW B \in Seq(Place), NEW n \in Nat, NEW i \in 1..n,
           n =< Len(A), Len(B) = Len(A),
           \A j \in 1..n : B[j] = IF j \in i..(n - 1) THEN A[j + 1] ELSE A[j]
    PROVE  SubSeq(B, 1, n - 1) = RemoveAt(SubSeq(A, 1, n), i)
<1>1. PICK C \in Seq(Place) : C = SubSeq(A, 1, n) /\ Len(C) = n /\ \A k \in 1..n : C[k] = A[k]
  BY FirstPlaces
<1>2. PICK D \in Seq(Place) : /\ D = SubSeq(B, 1, n - 1) /\ Len(D) = n - 1
                              /\ \A j \in 1..(n - 1) : D[j] = B[j]
  <2>1. n - 1 \in Nat /\ n - 1 =< Len(B)
    OBVIOUS
  <2> QED
    BY <2>1, FirstPlaces
<1>3. PICK E : E = SubSeq(C, 1, i - 1)
  OBVIOUS
<1>4. /\ E \in Seq(Place) /\ Len(E) = i - 1
      /\ \A j \in 1..(i - 1) : E[j] = C[j]
  BY <1>1, <1>3
<1>5. PICK F : F = SubSeq(C, i + 1, n)
  OBVIOUS
<1>6. /\ F \in Seq(Place) /\ Len(F) = n - i
      /\ \A j \in 1..(n - i) : F[j] = C[i + j]
  BY <1>1, <1>5
<1>7. PICK G : G = E \o F
  OBVIOUS
<1>8. /\ G \in Seq(Place) /\ Len(G) = n - 1
      /\ \A j \in 1..(n - 1) : G[j] = IF j =< i - 1 THEN E[j] ELSE F[j - (i - 1)]
  BY SMTT(40), <1>4, <1>6, <1>7, ConcatProperties
<1>9. ASSUME NEW j \in 1..(n - 1) PROVE G[j] = D[j]
  <2>1. CASE j =< i - 1
    BY <1>1, <1>2, <1>4, <1>8, <2>1
  <2>2. CASE j > i - 1
    <3>1. G[j] = F[j - (i - 1)] /\ j - (i - 1) \in 1..(n - i)
      BY <1>8, <2>2
    <3>2. F[j - (i - 1)] = C[j + 1]
      BY <1>6, <3>1
    <3>3. j + 1 \in 1..n /\ j \in 1..n /\ j \in i..(n - 1)
      BY <2>2
    <3>4. D[j] = A[j + 1]
      BY <1>2, <3>3
    <3> QED
      BY <1>1, <3>1, <3>2, <3>3, <3>4
  <2> QED
    BY <2>1, <2>2
<1>10. G = D
  BY <1>2, <1>8, <1>9, SameElements
<1> QED
  BY <1>1, <1>2, <1>3, <1>5, <1>7, <1>10 DEF RemoveAt

\* A step that leaves the slice of o and its places alone leaves its writers alone.
LEMMA ContentKept ==
    ASSUME SliceTypes, SliceTypes', NEW o \in Multis, slice'[o] = slice[o],
           \A i \in 1..slice[o].len :
              arrays'[slice[o].arr][i] = arrays[slice[o].arr][i]
    PROVE  Content(o)' = Content(o)
<1>1. PICK s \in SliceType : s = slice[o]
  BY DEF SliceTypes
<1>2. s.len \in Nat
  BY DEF SliceType
<1>3. Fits(s) /\ Fits(slice[o])'
  BY <1>1 DEF SliceTypes
<1>4. PICK A \in Seq(Place) : A = arrays[s.arr]
  BY <1>3 DEF SliceTypes, Fits
<1>5. PICK B \in Seq(Place) : B = arrays'[s.arr]
  BY <1>1, <1>3 DEF SliceTypes, Fits
<1>6. s.len =< Len(A) /\ s.len =< Len(B)
  BY <1>1, <1>3, <1>4, <1>5 DEF Fits
<1>7. SubSeq(A, 1, s.len) = SubSeq(B, 1, s.len)
  BY <1>1, <1>2, <1>4, <1>5, <1>6, SameFirst
<1> QED
  BY <1>1, <1>4, <1>5, <1>7 DEF Content

\* An addition adds w to the writers.
LEMMA ContentAdded ==
    ASSUME SliceTypes, SliceTypes', NEW p, NEW m \in Multis, NEW w \in Writers,
           AddWriter(p, m, w)
    PROVE  Content(m)' = Append(Content(m), w)
<1>1. PICK s \in SliceType : s = slice[m]
  BY DEF SliceTypes
<1>2. s.arr \in Nat /\ s.len \in Nat
  BY DEF SliceType
<1>3. Fits(s) /\ Fits(slice[m])'
  BY <1>1 DEF SliceTypes
<1>4. PICK A \in Seq(Place) : A = arrays[s.arr]
  BY <1>3 DEF SliceTypes, Fits
<1>5. s.len =< Len(A)
  BY <1>3, <1>4 DEF Fits
<1>6. w \in Place
  BY DEF Place
<1>7. Content(m) = SubSeq(A, 1, s.len)
  BY <1>1, <1>4 DEF Content
<1>8. PICK B \in Seq(Place) : B = arrays'[slice'[m].arr]
  BY <1>3 DEF SliceTypes, Fits
<1>9. /\ slice'[m].len = s.len + 1
      /\ \A i \in 1..s.len : B[i] = A[i]
      /\ B[s.len + 1] = w
  <2>1. CASE HasRoom(slice[m])
    <3>1. /\ slice'[m] = [arr |-> s.arr, len |-> s.len + 1]
          /\ \A i \in DOMAIN arrays[s.arr] :
                arrays'[s.arr][i] = IF i = s.len + 1 THEN w ELSE arrays[s.arr][i]
      BY ZenonT(40), <1>1, <2>1, AddInPlace
    <3>2. s.len + 1 \in 1..Len(A)
      BY <1>1, <1>2, <1>4, <2>1 DEF HasRoom
    <3>3. \A i \in 1..Len(A) : B[i] = IF i = s.len + 1 THEN w ELSE A[i]
      BY <1>4, <1>8, <3>1
    <3>4. \A i \in 1..s.len : i \in 1..Len(A) /\ i # s.len + 1
      BY <1>2, <1>5
    <3> QED
      BY <3>1, <3>2, <3>3, <3>4
  <2>2. CASE ~ HasRoom(slice[m])
    <3>1. /\ slice'[m] = [arr |-> Len(arrays) + 1, len |-> s.len + 1]
          /\ \A i \in 1..(s.len + 1) : arrays'[Len(arrays) + 1][i] = Append(Content(m), w)[i]
      BY <1>1, <2>2, AddInCopy
    <3>2. PICK C \in Seq(Writers) : /\ C = Content(m) /\ Len(C) = s.len
                                    /\ \A i \in 1..s.len : C[i] = A[i]
      BY <1>1, <1>4, ContentFacts
    <3>3. \A i \in 1..(s.len + 1) : B[i] = Append(C, w)[i]
      BY <1>8, <3>1, <3>2
    <3>4. Append(C, w)[s.len + 1] = w /\ \A i \in 1..s.len : Append(C, w)[i] = C[i]
      BY <1>2, <3>2
    <3>5. s.len + 1 \in 1..(s.len + 1) /\ \A i \in 1..s.len : i \in 1..(s.len + 1)
      BY <1>2
    <3>6. B[s.len + 1] = w
      BY <3>3, <3>4, <3>5
    <3>7. \A i \in 1..s.len : B[i] = A[i]
      BY <3>2, <3>3, <3>4, <3>5
    <3> QED
      BY <3>1, <3>6, <3>7
  <2> QED
    BY <2>1, <2>2
<1>10. s.len + 1 =< Len(B)
  BY <1>3, <1>8, <1>9 DEF Fits
<1>11. SubSeq(B, 1, s.len + 1) = Append(SubSeq(A, 1, s.len), w)
  BY ZenonT(40), <1>2, <1>5, <1>6, <1>9, <1>10, OneMore
<1>12. Content(m)' = SubSeq(B, 1, s.len + 1)
  BY <1>8, <1>9 DEF Content
<1> QED
  BY <1>7, <1>11, <1>12

\* A removal removes the first w.
LEMMA ContentRemoved ==
    ASSUME SliceTypes, SliceTypes', NEW p, NEW m \in Multis, NEW w \in Writers,
           RemoveWriter(p, m, w), Index(m, w) # 0
    PROVE  Content(m)' = RemoveFirst(Content(m), w)
<1>1. PICK s \in SliceType : s = slice[m]
  BY DEF SliceTypes
<1>2. s.arr \in Nat /\ s.len \in Nat
  BY DEF SliceType
<1>3. Fits(s) /\ Fits(slice[m])'
  BY <1>1 DEF SliceTypes
<1>4. PICK A \in Seq(Place) : A = arrays[s.arr]
  BY <1>3 DEF SliceTypes, Fits
<1>5. s.len =< Len(A)
  BY <1>3, <1>4 DEF Fits
<1>6. PICK i : i = Index(m, w)
  OBVIOUS
<1>7. PICK C \in Seq(Writers) : C = Content(m) /\ Len(C) = s.len
  BY <1>1, ContentFacts
<1>8. i \in 1..s.len /\ C[i] = w
  BY <1>6, <1>7, FoundIndex DEF Index
<1>9. C = SubSeq(A, 1, s.len)
  BY <1>1, <1>4, <1>7 DEF Content
<1>10. Shifted(m, s, i)
  BY <1>1, <1>6, RemoveShifts
<1>11. PICK B \in Seq(Place) : B = arrays'[s.arr]
  BY SMTT(40), <1>3, <1>10 DEF SliceTypes, Fits, Shifted
<1>12. /\ Len(B) = Len(A)
       /\ \A j \in DOMAIN A : B[j] = IF j \in i..(s.len - 1) THEN A[j + 1] ELSE A[j]
  BY <1>4, <1>10, <1>11 DEF Shifted
<1>13. \A j \in 1..s.len : B[j] = IF j \in i..(s.len - 1) THEN A[j + 1] ELSE A[j]
  BY SMTT(40), <1>2, <1>5, <1>12
<1>14. SubSeq(B, 1, s.len - 1) = RemoveAt(SubSeq(A, 1, s.len), i)
  BY <1>2, <1>5, <1>8, <1>12, <1>13, OneLess
<1>15. Content(m)' = SubSeq(B, 1, s.len - 1)
  BY <1>10, <1>11 DEF Content, Shifted
<1>16. RemoveFirst(C, w) = RemoveAt(C, i)
  <2>1. \E j \in 1..Len(C) : C[j] = w
    BY <1>7, <1>8
  <2> QED
    BY <1>6, <1>7, <2>1 DEF RemoveFirst, Index, IndexIn, SelectInSeq
<1> QED
  BY <1>7, <1>9, <1>14, <1>15, <1>16

\* Only what disturbs a MultiWriter changes its writers but for its own methods.
LEMMA ListsStep ==
    ASSUME SliceTypes, SliceTypes', ListsKept, NEW p, NEW m \in Multis, NEW w \in Writers,
           AddWriter(p, m, w) \/ RemoveWriter(p, m, w)
    PROVE  ListsKept'
<1>1. CASE AddWriter(p, m, w)
  <2>1. members' = [members EXCEPT ![m] = Append(members[m], w)]
    BY <1>1 DEF AddWriter
  <2>2. disturbed \subseteq disturbed'
    BY <1>1 DEF AddWriter
  <2>3. ASSUME m \notin disturbed PROVE Content(m)' = members'[m]
    <3>1. Content(m)' = Append(Content(m), w)
      BY <1>1, ContentAdded
    <3>2. members'[m] = Append(members[m], w)
      BY <2>1 DEF SliceTypes
    <3> QED
      BY <2>3, <3>1, <3>2 DEF ListsKept
  <2>4. ASSUME NEW o \in Multis \ disturbed', o # m PROVE Content(o)' = members'[o]
    <3>1. members'[o] = members[o] /\ Content(o) = members[o]
      BY <2>1, <2>2, <2>4 DEF ListsKept, SliceTypes
    <3>2. slice'[o] = slice[o]
      <4>1. CASE HasRoom(slice[m])
        BY ZenonT(40), <1>1, <2>4, <4>1, AddInPlace
      <4>2. CASE ~ HasRoom(slice[m])
        BY ZenonT(40), <1>1, <2>4, <4>2, AddInCopy
      <4> QED
        BY <4>1, <4>2
    <3>3. ASSUME NEW i \in 1..slice[o].len
          PROVE  arrays'[slice[o].arr][i] = arrays[slice[o].arr][i]
      <4>1. Fits(slice[o]) /\ Fits(slice[m]) /\ slice[o] \in SliceType /\ slice[m] \in SliceType
        BY DEF SliceTypes
      <4>2. slice[o].len \in Nat /\ slice[m].len \in Nat
        BY <4>1 DEF SliceType
      <4>3. slice[o].arr \in DOMAIN arrays
        BY <4>1 DEF Fits
      <4>4. CASE ~ HasRoom(slice[m])
        BY <1>1, <4>3, <4>4, AddInCopy
      <4>5. CASE HasRoom(slice[m]) /\ slice[o].arr # slice[m].arr
        BY <1>1, <4>3, <4>5, AddInPlace
      <4>6. CASE HasRoom(slice[m]) /\ slice[o].arr = slice[m].arr
        <5>1. disturbed' = disturbed \cup {x \in Sharing(m) : slice[x].len > slice[m].len}
          BY <1>1, <4>6 DEF AddWriter
        <5>2. ~ slice[o].len > slice[m].len
          BY <2>4, <4>6, <5>1 DEF Sharing
        <5>3. i # slice[m].len + 1
          BY <4>2, <5>2
        <5>4. i \in DOMAIN arrays[slice[m].arr]
          <6>1. slice[o].len =< Len(arrays[slice[o].arr])
            BY <4>1 DEF Fits
          <6>2. PICK A \in Seq(Place) : A = arrays[slice[o].arr]
            BY <4>3 DEF SliceTypes
          <6>3. i \in DOMAIN A
            BY <4>2, <6>1, <6>2
          <6> QED
            BY <4>6, <6>2, <6>3
        <5> QED
          <6>1. \A k \in DOMAIN arrays[slice[m].arr] :
                   arrays'[slice[m].arr][k] = IF k = slice[m].len + 1 THEN w
                                              ELSE arrays[slice[m].arr][k]
            BY ZenonT(40), <1>1, <4>6, AddInPlace
          <6> QED
            BY <4>6, <5>3, <5>4, <6>1
      <4> QED
        BY <4>4, <4>5, <4>6
    <3> QED
      BY <3>1, <3>2, <3>3, ContentKept
  <2> QED
    BY <2>2, <2>3, <2>4 DEF ListsKept
<1>2. CASE RemoveWriter(p, m, w) /\ Index(m, w) # 0
  <2>1. members' = [members EXCEPT ![m] = RemoveFirst(members[m], w)]
    BY <1>2 DEF RemoveWriter, Index, IndexIn, SelectInSeq
  <2>2. disturbed' = disturbed \cup {o \in Multis \ {m} : slice[o].arr = slice[m].arr}
    BY <1>2, RemoveTold
  <2>3. ASSUME m \notin disturbed PROVE Content(m)' = members'[m]
    <3>1. Content(m)' = RemoveFirst(Content(m), w)
      BY <1>2, ContentRemoved
    <3>2. members'[m] = RemoveFirst(members[m], w)
      BY <2>1 DEF SliceTypes
    <3> QED
      BY <2>3, <3>1, <3>2 DEF ListsKept
  <2>4. ASSUME NEW o \in Multis \ disturbed', o # m PROVE Content(o)' = members'[o]
    <3>1. members'[o] = members[o] /\ Content(o) = members[o]
      BY <2>1, <2>2, <2>4 DEF ListsKept, SliceTypes
    <3>2. Shifted(m, slice[m], Index(m, w))
      BY <1>2, RemoveShifts
    <3>3. slice[o].arr # slice[m].arr
      BY <2>2, <2>4
    <3>4. slice[o].arr \in DOMAIN arrays
      BY DEF SliceTypes, Fits
    <3>5. slice'[o] = slice[o] /\ arrays'[slice[o].arr] = arrays[slice[o].arr]
      BY <2>4, <3>2, <3>3, <3>4 DEF Shifted
    <3> QED
      BY <3>1, <3>5, ContentKept
  <2> QED
    BY <2>2, <2>3, <2>4 DEF ListsKept
<1>3. CASE RemoveWriter(p, m, w) /\ Index(m, w) = 0
  <2>1. UNCHANGED sliceVars
    BY <1>3, RemoveNone
  <2> QED
    BY <2>1 DEF ListsKept, Content, sliceVars
<1> QED
  BY <1>1, <1>2, <1>3

--------------------------------------------------------------------------------
(* Loops and their locks.                                                   *)

\* A goroutine in a loop has the lock of its MultiWriter, and goes through the slice
\* that this still has.
LoopInv ==
    \A p \in Procs : pc[p] = "loop" =>
       /\ call[p].multi \in Multis /\ mu[call[p].multi] = p
       /\ view[p] = slice[call[p].multi]
       /\ pos[p] >= 1

\* A loop meets writers only.
LEMMA CurrentWriter ==
    ASSUME SliceTypes, ProcTypes, LoopInv, NEW p \in Procs, InLoop(p)
    PROVE  Current(p) \in Writers
<1>1. /\ pc[p] = "loop" /\ call[p].multi \in Multis
      /\ view[p] = slice[call[p].multi]
      /\ pos[p] >= 1 /\ pos[p] =< view[p].len /\ pos[p] \in Nat /\ view[p] \in SliceType
  BY DEF LoopInv, InLoop, ProcTypes
<1>2. Fits(view[p])
  BY <1>1 DEF SliceTypes
<1>3. pos[p] \in 1..view[p].len
  BY <1>1 DEF SliceType
<1> QED
  BY <1>2, <1>3 DEF Fits, Current

\* Two loops have two MultiWriters.
LEMMA LoopsApart ==
    ASSUME MultiWriterAssumption, LoopInv, NEW p \in Procs, NEW q \in Procs,
           pc[p] = "loop", pc[q] = "loop", p # q
    PROVE  call[p].multi # call[q].multi
BY DEF LoopInv

\* A lock that is free is that of no loop.
LEMMA FreeApart ==
    ASSUME MultiWriterAssumption, LoopInv, NEW p \in Procs, NEW m,
           pc[p] = "loop", LockFree(m)
    PROVE  call[p].multi # m
<1>1. p # None
  BY DEF MultiWriterAssumption
<1> QED
  BY <1>1 DEF LoopInv, LockFree

\* What the beginning of a call does to the goroutines.
LEMMA BeginStep ==
    ASSUME MultiWriterAssumption, ProcTypes, LoopInv, SliceTypes,
           NEW p \in Procs, NEW m \in Multis, NEW c \in CallType, c.multi = m,
           Begin(p, m, c)
    PROVE  ProcTypes' /\ LoopInv'
<1>1. /\ mu' = [mu EXCEPT ![m] = p] /\ pc' = [pc EXCEPT ![p] = "loop"]
      /\ call' = [call EXCEPT ![p] = c] /\ view' = [view EXCEPT ![p] = slice[m]]
      /\ pos' = [pos EXCEPT ![p] = 1] /\ calls' = calls + 1
      /\ UNCHANGED <<failed, got, closes>> /\ slice' = slice /\ LockFree(m)
  BY DEF Begin, sliceVars
<1>2. ProcTypes'
  BY <1>1 DEF ProcTypes, SliceTypes
<1>3. ASSUME NEW q \in Procs, pc'[q] = "loop"
      PROVE  /\ call'[q].multi \in Multis /\ mu'[call'[q].multi] = q
             /\ view'[q] = slice'[call'[q].multi] /\ pos'[q] >= 1
  <2>1. CASE q = p
    BY <1>1, <2>1 DEF ProcTypes
  <2>2. CASE q # p
    <3>1. /\ pc[q] = "loop" /\ call'[q] = call[q] /\ view'[q] = view[q] /\ pos'[q] = pos[q]
      BY <1>1, <1>3, <2>2 DEF ProcTypes
    <3>2. call[q].multi # m
      BY <1>1, <3>1, FreeApart
    <3> QED
      BY <1>1, <3>1, <3>2 DEF LoopInv, ProcTypes
  <2> QED
    BY <2>1, <2>2
<1> QED
  BY <1>2, <1>3 DEF LoopInv

\* What a call of a writer does to the goroutines.
LEMMA WriterStep ==
    ASSUME MultiWriterAssumption, ProcTypes, LoopInv, SliceTypes,
           NEW p \in Procs, NextWriter(p) \/ WriterFails(p)
    PROVE  ProcTypes' /\ LoopInv'
<1>1. InLoop(p) /\ UNCHANGED <<sliceVars, mu, pc, call, view, calls>>
  BY DEF NextWriter, WriterFails
<1>2. PICK w \in Writers : w = Current(p)
  BY <1>1, CurrentWriter
<1>3. PICK n \in Nat : n = pos[p] /\ n >= 1
  BY <1>1 DEF ProcTypes, LoopInv, InLoop
<1>4. /\ got' \in [Writers -> Seq(CallType)] /\ closes' \in [Writers -> Nat]
      /\ failed' \in [Procs -> Nat]
      /\ \E k \in Nat : k >= 1 /\ pos' = [pos EXCEPT ![p] = k]
  <2>1. CASE NextWriter(p)
    <3>1. pos' = [pos EXCEPT ![p] = n + 1] /\ failed' = failed
      BY <1>3, <2>1 DEF NextWriter
    <3>2. got' \in [Writers -> Seq(CallType)]
      <4>1. PICK c \in CallType : c = call[p]
        BY DEF ProcTypes
      <4>2. PICK s \in Seq(CallType) : s = got[w]
        BY DEF ProcTypes
      <4>3. Append(s, c) \in Seq(CallType)
        OBVIOUS
      <4>4. got' = got \/ got' = [got EXCEPT ![w] = Append(s, c)]
        BY <1>2, <2>1, <4>1, <4>2 DEF NextWriter
      <4> QED
        BY <4>3, <4>4 DEF ProcTypes
    <3>3. closes' \in [Writers -> Nat]
      <4>1. PICK k \in Nat : k = closes[w] + 1
        BY DEF ProcTypes
      <4>2. closes' = closes \/ closes' = [closes EXCEPT ![w] = k]
        BY <1>2, <2>1, <4>1 DEF NextWriter
      <4>3. CASE closes' = closes
        BY <4>3 DEF ProcTypes
      <4>4. CASE closes' = [closes EXCEPT ![w] = k]
        BY <4>4 DEF ProcTypes
      <4> QED
        BY <4>2, <4>3, <4>4
    <3>4. n + 1 \in Nat /\ n + 1 >= 1
      BY <1>3
    <3> QED
      BY <3>1, <3>2, <3>3, <3>4 DEF ProcTypes
  <2>2. CASE WriterFails(p)
    <3>1. got' = got /\ closes' \in [Writers -> Nat]
      BY <1>2, <2>2 DEF WriterFails, ProcTypes
    <3>2. failed' \in [Procs -> Nat]
      <4>1. FirstFailure(p) \in Nat
        BY DEF FirstFailure, ProcTypes
      <4> QED
        BY <2>2, <4>1 DEF WriterFails, ProcTypes
    <3>3. PICK l \in Nat : l = view[p].len
      <4>1. view[p] \in SliceType
        BY DEF ProcTypes
      <4> QED
        BY <4>1 DEF SliceType
    <3>4. pos' = [pos EXCEPT ![p] = l + 1] \/ pos' = [pos EXCEPT ![p] = n + 1]
      BY <1>3, <2>2, <3>3 DEF WriterFails
    <3> QED
      BY <3>1, <3>2, <3>4 DEF ProcTypes
  <2> QED
    BY <2>1, <2>2
<1>5. ProcTypes'
  BY <1>1, <1>4 DEF ProcTypes
<1>6. \A q \in Procs : pos[q] >= 1 => pos'[q] >= 1
  BY <1>4 DEF ProcTypes
<1>7. LoopInv'
  BY <1>1, <1>6 DEF LoopInv, sliceVars
<1> QED
  BY <1>5, <1>7

\* What the end of a call does to the goroutines.
LEMMA ReturnStep ==
    ASSUME MultiWriterAssumption, ProcTypes, LoopInv, SliceTypes,
           NEW p \in Procs, Return(p)
    PROVE  ProcTypes' /\ LoopInv'
<1>1. /\ pc[p] = "loop"
      /\ mu' = [mu EXCEPT ![call[p].multi] = None]
      /\ pc' = [pc EXCEPT ![p] = "idle"] /\ call' = [call EXCEPT ![p] = NoCall]
      /\ view' = [view EXCEPT ![p] = NoSlice] /\ pos' = [pos EXCEPT ![p] = 0]
      /\ failed' = [failed EXCEPT ![p] = 0] /\ UNCHANGED <<calls, got, closes>>
      /\ slice' = slice
  BY DEF Return, sliceVars
<1>2. NoCall \in CallType /\ NoSlice \in SliceType
  BY DEF NoCall, NoSlice, CallType, SliceType
<1>3. ProcTypes'
  BY <1>1, <1>2 DEF ProcTypes
<1>4. ASSUME NEW q \in Procs, pc'[q] = "loop"
      PROVE  /\ call'[q].multi \in Multis /\ mu'[call'[q].multi] = q
             /\ view'[q] = slice'[call'[q].multi] /\ pos'[q] >= 1
  <2>1. q # p /\ pc[q] = "loop"
    BY <1>1, <1>4 DEF ProcTypes
  <2>2. call'[q] = call[q] /\ view'[q] = view[q] /\ pos'[q] = pos[q]
    BY <1>1, <2>1 DEF ProcTypes
  <2>3. call[q].multi # call[p].multi
    BY <1>1, <2>1, LoopsApart
  <2> QED
    BY <1>1, <2>1, <2>2, <2>3 DEF LoopInv, ProcTypes
<1> QED
  BY <1>3, <1>4 DEF LoopInv

\* What a change of a slice does to the goroutines.
LEMMA SetStep ==
    ASSUME MultiWriterAssumption, ProcTypes, LoopInv, SliceTypes,
           NEW p \in Procs, NEW m \in Multis, NEW w \in Writers,
           AddWriter(p, m, w) \/ RemoveWriter(p, m, w)
    PROVE  ProcTypes' /\ LoopInv'
<1>1. /\ LockFree(m) /\ calls' = calls + 1
      /\ UNCHANGED <<mu, pc, call, view, pos, failed, got, closes>>
  BY DEF AddWriter, RemoveWriter, SetsSlice, procVars
<1>2. \A o \in Multis \ {m} : slice'[o] = slice[o]
  <2>1. CASE AddWriter(p, m, w)
    BY <2>1, AddInPlace, AddInCopy
  <2>2. CASE RemoveWriter(p, m, w) /\ Index(m, w) # 0
    <3>1. Shifted(m, slice[m], Index(m, w))
      BY <2>2, RemoveShifts
    <3> QED
      BY <3>1 DEF Shifted
  <2>3. CASE RemoveWriter(p, m, w) /\ Index(m, w) = 0
    <3>1. UNCHANGED sliceVars
      BY <2>3, RemoveNone
    <3> QED
      BY <3>1 DEF sliceVars
  <2> QED
    BY <2>1, <2>2, <2>3
<1>3. ProcTypes'
  BY <1>1 DEF ProcTypes
<1>4. \A q \in Procs : pc[q] = "loop" => call[q].multi # m
  BY <1>1, FreeApart
<1>5. LoopInv'
  BY <1>1, <1>2, <1>4 DEF LoopInv
<1> QED
  BY <1>3, <1>5

--------------------------------------------------------------------------------
(* Lines that reach the writers are in the order of their calls.            *)

\* What a writer has of one MultiWriter is in order.
InOrder(w) ==
    \A i, j \in DOMAIN got[w] : i < j /\ got[w][i].multi = got[w][j].multi
       => got[w][i].line =< got[w][j].line

\* No writer has a line from a later call, nor, while a Write goes through its
\* MultiWriter, a line of this that is later than its own.
NoneLater(w) ==
    \A i \in DOMAIN got[w] :
       /\ got[w][i].line =< calls
       /\ \A p \in Procs : pc[p] = "loop" /\ Writing(p) /\ call[p].multi = got[w][i].multi
             => got[w][i].line =< call[p].line

OrderInv ==
    /\ \A w \in Writers : InOrder(w) /\ NoneLater(w)
    /\ \A p \in Procs : pc[p] = "loop" => call[p].line =< calls

\* A call begins with a line of its own, or with none.
LEMMA BeginOrder ==
    ASSUME ProcTypes, OrderInv, NEW p \in Procs, NEW m \in Multis, NEW c \in CallType,
           c.line \in {0, calls + 1}, Begin(p, m, c)
    PROVE  OrderInv'
<1>1. /\ pc' = [pc EXCEPT ![p] = "loop"] /\ call' = [call EXCEPT ![p] = c]
      /\ calls' = calls + 1 /\ got' = got
  BY DEF Begin
<1>2. calls \in Nat
  BY DEF ProcTypes
<1>3. ASSUME NEW q \in Procs, pc'[q] = "loop"
      PROVE  \/ q = p /\ call'[q] = c
             \/ pc[q] = "loop" /\ call'[q] = call[q]
  BY <1>1, <1>3 DEF ProcTypes
<1>4. \A q \in Procs : pc[q] = "loop" => call[q].line =< calls /\ call[q].line \in Nat
  BY DEF OrderInv, ProcTypes, CallType
<1>5. \A q \in Procs : pc'[q] = "loop" => call'[q].line =< calls'
  BY <1>1, <1>2, <1>3, <1>4
<1>6. \A w \in Writers : InOrder(w)'
  BY <1>1 DEF OrderInv, InOrder
<1>7. ASSUME NEW w \in Writers PROVE NoneLater(w)'
  <2>1. PICK s \in Seq(CallType) : s = got[w]
    BY DEF ProcTypes
  <2>2. \A i \in DOMAIN s : s[i].line \in Nat /\ s[i].line =< calls
    <3>1. \A i \in DOMAIN s : s[i] \in CallType
      OBVIOUS
    <3> QED
      BY <2>1, <3>1 DEF OrderInv, NoneLater, CallType
  <2>3. ASSUME NEW i \in DOMAIN s, NEW q \in Procs, pc'[q] = "loop", call'[q].line # 0,
               call'[q].multi = s[i].multi
        PROVE  s[i].line =< call'[q].line
    <3>1. CASE call'[q] = c
      BY <1>2, <2>2, <2>3, <3>1
    <3>2. CASE pc[q] = "loop" /\ call'[q] = call[q]
      BY <2>1, <2>3, <3>2 DEF OrderInv, NoneLater, Writing
    <3> QED
      BY <1>3, <2>3, <3>1, <3>2
  <2>4. \A i \in DOMAIN s : s[i].line =< calls'
    BY <1>1, <1>2, <2>2
  <2> QED
    BY <1>1, <2>1, <2>3, <2>4 DEF NoneLater, Writing
<1> QED
  BY <1>5, <1>6, <1>7 DEF OrderInv

\* The line that a writer takes is the last of its MultiWriter.
LEMMA WriterOrder ==
    ASSUME MultiWriterAssumption, ProcTypes, LoopInv, SliceTypes, OrderInv,
           NEW p \in Procs, NextWriter(p) \/ WriterFails(p)
    PROVE  OrderInv'
<1>1. InLoop(p) /\ UNCHANGED <<pc, call, calls>>
  BY DEF NextWriter, WriterFails
<1>2. pc[p] = "loop"
  BY <1>1 DEF InLoop
<1>3. CASE got' = got
  BY <1>1, <1>3 DEF OrderInv, InOrder, NoneLater, Writing
<1>4. CASE got' # got
  <2>1. NextWriter(p) /\ Writing(p)
    BY <1>4 DEF NextWriter, WriterFails
  <2>2. PICK w \in Writers : w = Current(p)
    BY <1>1, CurrentWriter
  <2>3. PICK c \in CallType : c = call[p]
    BY DEF ProcTypes
  <2>4. PICK s \in Seq(CallType) : s = got[w]
    BY DEF ProcTypes
  <2>5. PICK t \in Seq(CallType) : t = Append(s, c)
    <3>1. Append(s, c) \in Seq(CallType)
      OBVIOUS
    <3> QED
      BY <3>1, Zenon
  <2>6. got' = [got EXCEPT ![w] = t]
    BY <2>1, <2>2, <2>3, <2>4, <2>5 DEF NextWriter
  <2>7. got'[w] = t /\ \A v \in Writers \ {w} : got'[v] = got[v]
    BY <2>6 DEF ProcTypes
  <2>8. \A i \in DOMAIN t : \/ i \in DOMAIN s /\ t[i] = s[i] /\ i =< Len(s)
                            \/ i = Len(s) + 1 /\ t[i] = c
    BY <2>5
  <2>9. \A i \in DOMAIN s : s[i].multi = c.multi => s[i].line =< c.line
    BY <1>2, <2>1, <2>3, <2>4 DEF OrderInv, NoneLater
  <2>10. /\ \A i \in DOMAIN s : s[i].line \in Nat
         /\ c.line \in Nat /\ c.line =< calls /\ Len(s) \in Nat /\ DOMAIN s = 1..Len(s)
    <3>1. \A i \in DOMAIN s : s[i] \in CallType
      OBVIOUS
    <3> QED
      BY <1>2, <2>3, <3>1 DEF OrderInv, CallType
  <2>11. ASSUME NEW i \in DOMAIN t, NEW j \in DOMAIN t, i < j, t[i].multi = t[j].multi
         PROVE  t[i].line =< t[j].line
    <3>1. i \in DOMAIN s /\ t[i] = s[i]
      BY <2>8, <2>10, <2>11
    <3>2. CASE j \in DOMAIN s /\ t[j] = s[j]
      BY <2>4, <2>11, <3>1, <3>2 DEF OrderInv, InOrder
    <3>3. CASE t[j] = c
      BY <2>9, <2>11, <3>1, <3>3
    <3> QED
      BY <2>8, <3>2, <3>3
  <2>12. ASSUME NEW i \in DOMAIN t
         PROVE  /\ t[i].line =< calls
                /\ \A q \in Procs : pc[q] = "loop" /\ Writing(q) /\ call[q].multi = t[i].multi
                      => t[i].line =< call[q].line
    <3>1. CASE i \in DOMAIN s /\ t[i] = s[i]
      BY <2>4, <3>1 DEF OrderInv, NoneLater
    <3>2. CASE t[i] = c
      <4>1. ASSUME NEW q \in Procs, pc[q] = "loop", call[q].multi = c.multi
            PROVE  c.line =< call[q].line
        <5>1. q = p
          BY <1>2, <2>3, <4>1, LoopsApart
        <5> QED
          BY <2>3, <2>10, <5>1
      <4> QED
        BY <2>10, <3>2, <4>1
    <3> QED
      BY <2>8, <3>1, <3>2
  <2>13. InOrder(w)' /\ NoneLater(w)'
    BY <1>1, <2>7, <2>11, <2>12 DEF InOrder, NoneLater, Writing
  <2>14. ASSUME NEW v \in Writers, v # w PROVE InOrder(v)' /\ NoneLater(v)'
    BY <1>1, <2>7, <2>14 DEF OrderInv, InOrder, NoneLater, Writing
  <2>15. \A q \in Procs : pc'[q] = "loop" => call'[q].line =< calls'
    BY <1>1 DEF OrderInv
  <2> QED
    BY <2>13, <2>14, <2>15 DEF OrderInv
<1> QED
  BY <1>3, <1>4

\* A call that ends writes nothing.
LEMMA ReturnOrder ==
    ASSUME ProcTypes, OrderInv, NEW p \in Procs, Return(p)
    PROVE  OrderInv'
<1>1. /\ pc' = [pc EXCEPT ![p] = "idle"] /\ call' = [call EXCEPT ![p] = NoCall]
      /\ UNCHANGED <<calls, got>>
  BY DEF Return
<1>2. \A q \in Procs : pc'[q] = "loop" => pc[q] = "loop" /\ call'[q] = call[q]
  BY <1>1 DEF ProcTypes
<1> QED
  BY <1>1, <1>2 DEF OrderInv, InOrder, NoneLater, Writing

\* Nor does a call that changes a slice.
LEMMA SetOrder ==
    ASSUME ProcTypes, OrderInv, NEW p, NEW m, NEW w,
           AddWriter(p, m, w) \/ RemoveWriter(p, m, w)
    PROVE  OrderInv'
<1>1. calls' = calls + 1 /\ UNCHANGED <<pc, call, got>>
  BY DEF AddWriter, RemoveWriter, SetsSlice, procVars
<1>2. calls \in Nat /\ \A q \in Procs : call[q].line \in Nat
  BY DEF ProcTypes, CallType
<1>3. \A q \in Procs : pc'[q] = "loop" => call'[q].line =< calls'
  BY <1>1, <1>2 DEF OrderInv
<1>4. ASSUME NEW v \in Writers PROVE InOrder(v)' /\ NoneLater(v)'
  <2>1. PICK s \in Seq(CallType) : s = got[v]
    BY DEF ProcTypes
  <2>2. \A i \in DOMAIN s : s[i] \in CallType
    OBVIOUS
  <2>3. \A i \in DOMAIN s : s[i].line =< calls'
    BY <1>1, <1>2, <2>1, <2>2 DEF OrderInv, NoneLater, CallType
  <2> QED
    BY <1>1, <2>1, <2>3 DEF OrderInv, InOrder, NoneLater, Writing
<1> QED
  BY <1>3, <1>4 DEF OrderInv

--------------------------------------------------------------------------------
(* Every writer gets every line.                                            *)

\* How often x is among the first n of s.
Count(s, n, x) == Cardinality({i \in 1..n : s[i] = x})

\* It is counted one place after the other.
LEMMA CountNext ==
    ASSUME NEW s, NEW x, NEW n \in Nat
    PROVE  /\ Count(s, 0, x) = 0 /\ Count(s, n, x) \in Nat
           /\ Count(s, n + 1, x) = Count(s, n, x) + (IF s[n + 1] = x THEN 1 ELSE 0)
<1> DEFINE I == {i \in 1..n : s[i] = x}
           J == {i \in 1..(n + 1) : s[i] = x}
<1>1. Count(s, 0, x) = 0
  <2>1. {i \in 1..0 : s[i] = x} = {}
    OBVIOUS
  <2> QED
    BY <2>1, FS_EmptySet DEF Count
<1>2. IsFiniteSet(I) /\ Cardinality(I) \in Nat /\ n + 1 \notin I
  <2>1. IsFiniteSet(1..n) /\ I \in SUBSET (1..n)
    BY FS_Interval
  <2> QED
    BY <2>1, FS_Subset, FS_CardinalityType
<1>3. Count(s, n, x) = Cardinality(I) /\ Count(s, n + 1, x) = Cardinality(J)
  BY DEF Count
<1>4. \A i : i \in J <=> i \in I \/ (i = n + 1 /\ s[n + 1] = x)
  OBVIOUS
<1> HIDE DEF I, J
<1>5. CASE s[n + 1] = x
  <2>1. J = I \cup {n + 1}
    BY <1>4, <1>5
  <2>2. Cardinality(I \cup {n + 1}) = Cardinality(I) + 1
    BY <1>2, FS_AddElement
  <2> QED
    BY <1>1, <1>2, <1>3, <1>5, <2>1, <2>2
<1>6. CASE s[n + 1] # x
  <2>1. J = I
    BY <1>4, <1>6
  <2> QED
    BY <1>1, <1>2, <1>3, <1>6, <2>1
<1> QED
  BY <1>5, <1>6

LEMMA TimesCount ==
    ASSUME NEW S, NEW s \in Seq(S), NEW x
    PROVE  Times(s, x) = Count(s, Len(s), x)
<1>1. DOMAIN s = 1..Len(s)
  OBVIOUS
<1> QED
  BY <1>1 DEF Times, Count

\* What an Append adds.
LEMMA TimesAppend ==
    ASSUME NEW S, NEW s \in Seq(S), NEW c \in S, NEW x
    PROVE  /\ Times(s, x) \in Nat
           /\ Times(Append(s, c), x) = Times(s, x) + (IF c = x THEN 1 ELSE 0)
<1>1. PICK t \in Seq(S) : /\ t = Append(s, c) /\ Len(t) = Len(s) + 1
                          /\ \A i \in 1..Len(s) : t[i] = s[i]
                          /\ t[Len(s) + 1] = c
  <2>1. Append(s, c) \in Seq(S)
    BY AppendProperties
  <2> QED
    BY <2>1, AppendProperties
<1>2. PICK n \in Nat : n = Len(s)
  OBVIOUS
<1>3. Times(t, x) = Count(t, n + 1, x) /\ Times(s, x) = Count(s, n, x)
  BY <1>1, <1>2, TimesCount
<1>4. Count(t, n, x) = Count(s, n, x)
  <2>1. {i \in 1..n : t[i] = x} = {i \in 1..n : s[i] = x}
    BY <1>1, <1>2
  <2> QED
    BY <2>1 DEF Count
<1>5. /\ Count(t, n, x) \in Nat
      /\ Count(t, n + 1, x) = Count(t, n, x) + (IF t[n + 1] = x THEN 1 ELSE 0)
  BY CountNext
<1>6. Times(t, x) = Times(s, x) + (IF c = x THEN 1 ELSE 0)
  BY <1>1, <1>2, <1>3, <1>4, <1>5
<1> QED
  BY <1>1, <1>3, <1>4, <1>5, <1>6

LEMMA TimesFirst ==
    ASSUME NEW S, NEW s \in Seq(S), NEW n \in 0..Len(s), NEW x
    PROVE  Times(SubSeq(s, 1, n), x) = Count(s, n, x)
<1>1. PICK t \in Seq(S) : t = SubSeq(s, 1, n) /\ Len(t) = n /\ \A i \in 1..n : t[i] = s[i]
  <2>1. n \in Nat /\ \A i \in 1..n : s[i] \in S
    OBVIOUS
  <2>2. SubSeq(s, 1, n) \in Seq(S)
    BY <2>1, SubSeqProperties
  <2>3. Len(SubSeq(s, 1, n)) = n /\ \A i \in 1..n : SubSeq(s, 1, n)[i] = s[i]
    BY <2>1
  <2> QED
    BY <2>2, <2>3
<1>2. n \in Nat /\ Len(t) = n /\ \A i \in 1..n : t[i] = s[i]
  BY <1>1
<1>3. Times(t, x) = Count(t, Len(t), x)
  BY TimesCount, Zenon
<1>4. Count(t, n, x) = Count(s, n, x)
  <2>1. {i \in 1..n : t[i] = x} = {i \in 1..n : s[i] = x}
    BY <1>2
  <2> QED
    BY <2>1 DEF Count
<1> QED
  BY <1>1, <1>2, <1>3, <1>4, Zenon

LEMMA TimesNone ==
    ASSUME NEW S, NEW s \in Seq(S), NEW x, \A i \in DOMAIN s : s[i] # x
    PROVE  Times(s, x) = 0
<1>1. {i \in DOMAIN s : s[i] = x} = {}
  OBVIOUS
<1> QED
  BY <1>1, FS_EmptySet DEF Times

\* How many writers of its list p's Write has served.
Served(p) == (IF failed[p] = 0 THEN pos[p] ELSE failed[p]) - 1

\* Of the first n writers of list each has c, as often as it is among them; and no other
\* writer has it.
Told(c, list, n) == \A w \in Writers : Times(got[w], c) = Count(list, n, w)

\* How far the loop of p has come with its list.
LoopTold(p) ==
    LET list == members[call[p].multi] IN
    /\ pos[p] =< Len(list) + 1
    /\ IF Writing(p)
       THEN /\ failed[p] = 0 \/ (failed[p] \in 1..Len(list) /\ pos[p] > Len(list))
            /\ Told(call[p], list, Served(p))
       ELSE \A i \in 1..(pos[p] - 1) : closes[list[i]] > 0

\* What EveryMemberCalled says of one call.
CallTold(e) ==
    IF e.call.line = 0
    THEN \A i \in DOMAIN e.list : closes[e.list[i]] > 0
    ELSE LET reached == IF e.failed = 0 THEN e.list
                        ELSE SubSeq(e.list, 1, e.failed - 1)
         IN \A w \in Writers : Times(got[w], e.call) = Times(reached, w)

EndedCall == [call : CallType, list : Seq(Writers), failed : Nat]

\* Loops that are under way have told the writers before their place; each call has a
\* line of its own.
ToldInv ==
    /\ \A p \in Procs : pc[p] = "loop" /\ call[p].multi \notin disturbed => LoopTold(p)
    /\ \A p \in Procs : pc[p] = "idle" => failed[p] = 0
    /\ \A p \in Procs : pc[p] = "loop" /\ Writing(p) => \A e \in ended : e.call # call[p]
    /\ ended \subseteq EndedCall
    /\ \A e \in ended : e.call.line =< calls
    /\ \A e \in ended : e.call.multi \notin disturbed => CallTold(e)

\* A step that adds no line but c and undoes no Close.
Adds(c) ==
    /\ \A w \in Writers : closes[w] =< closes'[w]
    /\ \A w \in Writers : \A d : d # c => Times(got'[w], d) = Times(got[w], d)

\* The others do not lose by it what they have told, ...
LEMMA LoopKept ==
    ASSUME ProcTypes, ProcTypes', SliceTypes, LoopInv, NEW c, Adds(c),
           NEW q \in Procs, pc[q] = "loop", LoopTold(q), Writing(q) => call[q] # c,
           call'[q] = call[q], pos'[q] = pos[q], failed'[q] = failed[q],
           members'[call[q].multi] = members[call[q].multi]
    PROVE  LoopTold(q)'
<1>1. PICK list \in Seq(Writers) : /\ list = members[call[q].multi]
                                   /\ list = members'[call'[q].multi]
  BY DEF LoopInv, SliceTypes
<1>2. pos[q] \in Nat /\ pos[q] =< Len(list) + 1 /\ pos'[q] =< Len(list) + 1
  BY <1>1 DEF ProcTypes, LoopTold
<1>3. CASE Writing(q)
  <2>1. /\ failed[q] = 0 \/ (failed[q] \in 1..Len(list) /\ pos[q] > Len(list))
        /\ Told(call[q], list, Served(q))
    BY <1>1, <1>3 DEF LoopTold
  <2>2. Served(q)' = Served(q) /\ Writing(q)'
    BY <1>3 DEF Served, Writing
  <2>3. \A w \in Writers : Times(got'[w], call'[q]) = Count(list, Served(q)', w)
    BY <1>3, <2>1, <2>2 DEF Adds, Told
  <2> QED
    BY <1>1, <1>2, <2>1, <2>2, <2>3 DEF LoopTold, Told
<1>4. CASE ~ Writing(q)
  <2>1. \A i \in 1..(pos[q] - 1) : closes[list[i]] > 0
    BY <1>1, <1>4 DEF LoopTold
  <2>2. ASSUME NEW i \in 1..(pos[q] - 1) PROVE closes'[list[i]] > 0
    <3>1. i \in 1..Len(list)
      BY <1>2
    <3>2. PICK w \in Writers : w = list[i]
      BY <3>1
    <3>3. closes[w] > 0 /\ closes[w] =< closes'[w] /\ closes[w] \in Nat /\ closes'[w] \in Nat
      BY <2>1, <3>2 DEF Adds, ProcTypes
    <3> QED
      BY <3>2, <3>3
  <2>3. ~ Writing(q)'
    BY <1>4 DEF Writing
  <2> QED
    BY <1>1, <1>2, <2>2, <2>3 DEF LoopTold
<1> QED
  BY <1>3, <1>4

\* ... nor do the calls that have ended.
LEMMA CallKept ==
    ASSUME ProcTypes, ProcTypes', NEW c, Adds(c), NEW e \in EndedCall, CallTold(e),
           e.call.line # 0 => e.call # c
    PROVE  CallTold(e)'
<1>1. PICK list \in Seq(Writers) : list = e.list
  BY DEF EndedCall
<1>2. CASE e.call.line = 0
  <2>1. ASSUME NEW i \in DOMAIN list PROVE closes'[list[i]] > 0
    <3>1. PICK w \in Writers : w = list[i]
      OBVIOUS
    <3>2. closes[w] > 0
      BY <1>1, <1>2, <3>1 DEF CallTold
    <3>3. closes[w] =< closes'[w] /\ closes[w] \in Nat /\ closes'[w] \in Nat
      BY DEF Adds, ProcTypes
    <3> QED
      BY <3>1, <3>2, <3>3
  <2> QED
    BY <1>1, <1>2, <2>1 DEF CallTold
<1>3. CASE e.call.line # 0
  <2>1. \A w \in Writers : Times(got'[w], e.call) = Times(got[w], e.call)
    BY <1>3 DEF Adds
  <2> QED
    BY <1>3, <2>1 DEF CallTold
<1> QED
  BY <1>2, <1>3

LEMMA NothingAdded == ASSUME ProcTypes, NEW c, UNCHANGED <<got, closes>> PROVE Adds(c)
BY DEF Adds, ProcTypes

\* A call begins with a line that nobody has, or with none.
LEMMA BeginTold ==
    ASSUME MultiWriterAssumption, ProcTypes, ProcTypes', SliceTypes, LoopInv, OrderInv,
           ToldInv, NEW p \in Procs, NEW m \in Multis, NEW c \in CallType, c.multi = m,
           c.line \in {0, calls + 1}, Begin(p, m, c)
    PROVE  ToldInv'
<1>1. /\ pc' = [pc EXCEPT ![p] = "loop"] /\ call' = [call EXCEPT ![p] = c]
      /\ pos' = [pos EXCEPT ![p] = 1] /\ calls' = calls + 1 /\ pc[p] = "idle"
      /\ UNCHANGED <<sliceVars, failed, got, closes, ended>> /\ LockFree(m)
  BY DEF Begin
<1>2. calls \in Nat /\ \A e \in ended : e \in EndedCall /\ e.call.line =< calls
  BY DEF ProcTypes, ToldInv
<1>3. Adds(c)
  BY <1>1, NothingAdded
<1>4. ASSUME NEW q \in Procs, pc'[q] = "loop", q # p
      PROVE  /\ pc[q] = "loop" /\ call'[q] = call[q] /\ pos'[q] = pos[q]
             /\ failed'[q] = failed[q] /\ members' = members
  BY <1>1, <1>4 DEF ProcTypes, sliceVars
<1>5. LoopTold(p)'
  <2>1. PICK list \in Seq(Writers) : list = members'[call'[p].multi]
    BY <1>1 DEF SliceTypes, ProcTypes, sliceVars
  <2>2. pos'[p] = 1 /\ failed'[p] = 0 /\ call'[p] = c /\ Len(list) \in Nat
    BY <1>1 DEF ProcTypes, ToldInv
  <2>3. CASE c.line = 0
    <3>1. ~ Writing(p)'
      BY <2>2, <2>3 DEF Writing
    <3>2. \A i \in 1..(pos'[p] - 1) : closes'[list[i]] > 0
      BY <2>2
    <3> QED
      BY <2>1, <2>2, <3>1, <3>2 DEF LoopTold
  <2>4. CASE c.line = calls + 1
    <3>1. Writing(p)' /\ Served(p)' = 0
      BY <1>2, <2>2, <2>4 DEF Writing, Served
    <3>2. ASSUME NEW w \in Writers PROVE Times(got'[w], c) = 0
      <4>1. PICK s \in Seq(CallType) : s = got[w] /\ s = got'[w]
        BY <1>1 DEF ProcTypes
      <4>2. ASSUME NEW i \in DOMAIN s PROVE s[i] # c
        <5>1. s[i].line =< calls
          BY <4>1 DEF OrderInv, NoneLater
        <5> QED
          BY <1>2, <2>4, <5>1
      <4>3. Times(s, c) = 0
        BY <4>2, TimesNone
      <4> QED
        BY <4>1, <4>3
    <3>3. \A w \in Writers : Count(list, 0, w) = 0
      BY CountNext
    <3>4. \A w \in Writers : Times(got'[w], call'[p]) = Count(list, Served(p)', w)
      BY <2>2, <3>1, <3>2, <3>3
    <3> QED
      BY <2>1, <2>2, <3>1, <3>4 DEF LoopTold, Told
  <2> QED
    BY <2>3, <2>4
<1>6. ASSUME NEW q \in Procs, pc'[q] = "loop", call'[q].multi \notin disturbed'
      PROVE  LoopTold(q)'
  <2>1. CASE q # p
    <3>1. LoopTold(q) /\ (Writing(q) => call[q] # c)
      <4>1. call[q].multi # m
        BY <1>1, <1>4, <1>6, <2>1, FreeApart
      <4> QED
        BY <1>1, <1>4, <1>6, <2>1, <4>1 DEF ToldInv, sliceVars
    <3> QED
      BY <1>3, <1>4, <1>6, <2>1, <3>1, LoopKept
  <2> QED
    BY <1>5, <2>1
<1>7. ASSUME NEW q \in Procs, pc'[q] = "loop", Writing(q)', NEW e \in ended
      PROVE  e.call # call'[q]
  <2>1. CASE q = p
    <3>1. call'[q] = c /\ c.line # 0
      BY <1>1, <1>7, <2>1 DEF Writing, ProcTypes
    <3> QED
      BY <1>2, <3>1
  <2>2. CASE q # p
    BY <1>4, <1>7, <2>2 DEF ToldInv, Writing
  <2> QED
    BY <2>1, <2>2
<1>8. ASSUME NEW e \in ended
      PROVE  /\ e.call.line =< calls'
             /\ e.call.multi \notin disturbed' => CallTold(e)'
  <2>1. e.call.line =< calls'
    <3>1. e.call.line \in Nat
      BY <1>2 DEF EndedCall, CallType
    <3> QED
      BY <1>1, <1>2, <3>1
  <2>2. e.call.line # 0 => e.call # c
    BY <1>2
  <2>3. e.call.multi \notin disturbed' => CallTold(e)'
    BY <1>1, <1>2, <1>3, <2>2, CallKept DEF ToldInv, sliceVars
  <2> QED
    BY <2>1, <2>3
<1>9. \A q \in Procs : pc'[q] = "idle" => failed'[q] = 0
  BY <1>1 DEF ProcTypes, ToldInv
<1> QED
  BY <1>1, <1>6, <1>7, <1>8, <1>9 DEF ToldInv

\* AddWriter and RemoveWriter change the list of no loop.
LEMMA SetTold ==
    ASSUME MultiWriterAssumption, ProcTypes, ProcTypes', SliceTypes, LoopInv, ToldInv,
           NEW p \in Procs, NEW m \in Multis, NEW w \in Writers,
           AddWriter(p, m, w) \/ RemoveWriter(p, m, w)
    PROVE  ToldInv'
<1>1. /\ LockFree(m) /\ calls' = calls + 1
      /\ UNCHANGED <<pc, call, view, pos, failed, got, closes, ended>>
      /\ disturbed \subseteq disturbed'
      /\ \A o \in Multis \ {m} : members'[o] = members[o]
  BY DEF AddWriter, RemoveWriter, SetsSlice, procVars, sliceVars, SliceTypes
<1>2. Adds(NoCall)
  BY <1>1, NothingAdded
<1>3. calls \in Nat /\ \A e \in ended : e \in EndedCall /\ e.call.line =< calls
  BY DEF ProcTypes, ToldInv
<1>4. ASSUME NEW q \in Procs, pc[q] = "loop", call[q].multi \notin disturbed'
      PROVE  LoopTold(q)'
  <2>1. call[q].multi # m /\ call[q].multi \in Multis
    BY <1>1, <1>4, FreeApart DEF LoopInv
  <2>2. LoopTold(q)
    BY <1>1, <1>4 DEF ToldInv
  <2>3. Writing(q) => call[q] # NoCall
    BY DEF Writing, NoCall
  <2> QED
    BY <1>1, <1>2, <1>4, <2>1, <2>2, <2>3, LoopKept
<1>5. ASSUME NEW e \in ended
      PROVE  /\ e.call.line =< calls'
             /\ e.call.multi \notin disturbed' => CallTold(e)'
  <2>1. e.call.line =< calls'
    <3>1. e.call.line \in Nat
      BY <1>3 DEF EndedCall, CallType
    <3> QED
      BY <1>1, <1>3, <3>1
  <2>2. e.call.line # 0 => e.call # NoCall
    BY DEF NoCall
  <2>3. e.call.multi \notin disturbed' => CallTold(e)'
    BY <1>1, <1>2, <1>3, <2>2, CallKept DEF ToldInv
  <2> QED
    BY <2>1, <2>3
<1> QED
  BY <1>1, <1>4, <1>5 DEF ToldInv, Writing

\* Where the loop of an undisturbed MultiWriter is.
LEMMA LoopPlace ==
    ASSUME ProcTypes, SliceTypes, LoopInv, ListsKept, NEW p \in Procs, pc[p] = "loop",
           call[p].multi \notin disturbed
    PROVE  LET list == members[call[p].multi] IN
           /\ list \in Seq(Writers) /\ Len(list) = view[p].len
           /\ \A i \in 1..Len(list) : arrays[view[p].arr][i] = list[i]
<1>1. PICK m \in Multis : m = call[p].multi
  BY DEF LoopInv
<1>2. Content(m) = members[m] /\ view[p] = slice[m]
  BY <1>1 DEF ListsKept, LoopInv
<1> QED
  BY <1>1, <1>2, ContentFacts

\* What a writer is given by p is p's, and no other loop or call that has ended is told
\* less by it.
LEMMA OthersKept ==
    ASSUME MultiWriterAssumption, ProcTypes, ProcTypes', SliceTypes, LoopInv, ToldInv,
           NEW p \in Procs, pc[p] = "loop", NEW c, Adds(c), Writing(p) => c = call[p],
           ~ Writing(p) => c = NoCall,
           UNCHANGED <<sliceVars, pc, call, calls, ended>>,
           \A q \in Procs : q # p => pos'[q] = pos[q] /\ failed'[q] = failed[q],
           call[p].multi \notin disturbed => LoopTold(p)'
    PROVE  ToldInv'
<1>1. ASSUME NEW q \in Procs, pc[q] = "loop", call[q].multi \notin disturbed
      PROVE  LoopTold(q)'
  <2>1. CASE q # p
    <3>1. Writing(q) => call[q] # c
      <4>1. call[q].multi # call[p].multi
        BY <1>1, <2>1, LoopsApart
      <4>2. Writing(q) => call[q] # NoCall
        BY DEF Writing, NoCall
      <4> QED
        BY <4>1, <4>2
    <3>2. LoopTold(q)
      BY <1>1 DEF ToldInv
    <3> QED
      BY <1>1, <2>1, <3>1, <3>2, LoopKept DEF sliceVars
  <2> QED
    BY <1>1, <2>1
<1>2. ASSUME NEW e \in ended, e.call.multi \notin disturbed PROVE CallTold(e)'
  <2>1. e \in EndedCall /\ CallTold(e)
    BY <1>2 DEF ToldInv
  <2>2. e.call.line # 0 => e.call # c
    <3>1. e.call.line # 0 => e.call # NoCall
      BY DEF NoCall
    <3>2. Writing(p) => e.call # call[p]
      BY DEF ToldInv
    <3> QED
      BY <3>1, <3>2
  <2> QED
    BY <2>1, <2>2, CallKept
<1>3. \A q \in Procs : pc[q] = "idle" => failed'[q] = 0
  BY DEF ToldInv
<1> QED
  BY <1>1, <1>2, <1>3 DEF ToldInv, Writing, sliceVars

\* A writer that closes, with or without an error, is the next one of the list.
LEMMA ClosesTold ==
    ASSUME MultiWriterAssumption, ProcTypes, ProcTypes', SliceTypes, LoopInv, ListsKept,
           ToldInv, NEW p \in Procs, InLoop(p), ~ Writing(p),
           UNCHANGED <<sliceVars, pc, call, calls, ended, got>>,
           pos' = [pos EXCEPT ![p] = pos[p] + 1],
           \A q \in Procs : q # p => failed'[q] = failed[q],
           closes' = [closes EXCEPT ![Current(p)] = @ + 1]
    PROVE  ToldInv'
<1>1. pc[p] = "loop"
  BY DEF InLoop
<1>2. PICK w \in Writers : w = Current(p)
  BY CurrentWriter
<1>3. PICK n \in Nat : n = pos[p] /\ n >= 1 /\ n =< view[p].len
  BY DEF ProcTypes, LoopInv, InLoop
<1>4. pos'[p] = n + 1 /\ \A q \in Procs : q # p => pos'[q] = pos[q]
  BY <1>3 DEF ProcTypes
<1>5. Adds(NoCall) /\ closes'[w] > 0
  BY <1>2 DEF Adds, ProcTypes
<1>6. ASSUME call[p].multi \notin disturbed PROVE LoopTold(p)'
  <2>1. PICK list \in Seq(Writers) : /\ list = members[call[p].multi]
                                     /\ Len(list) = view[p].len
                                     /\ \A i \in 1..Len(list) : arrays[view[p].arr][i] = list[i]
    BY <1>1, <1>6, LoopPlace
  <2>2. list[n] = w /\ n =< Len(list) /\ Len(list) \in Nat
    <3>1. Len(list) \in Nat /\ n \in 1..Len(list)
      BY <1>3, <2>1
    <3>2. list[n] = w
      BY <1>2, <1>3, <2>1, <3>1 DEF Current
    <3> QED
      BY <3>1, <3>2
  <2>3. ~ Writing(p)' /\ list = members'[call'[p].multi] /\ LoopTold(p)
    BY <1>1, <1>6, <2>1 DEF Writing, ToldInv, sliceVars
  <2>4. ASSUME NEW i \in 1..(pos'[p] - 1) PROVE closes'[list[i]] > 0
    <3>1. CASE i = n
      BY <1>5, <2>2, <3>1
    <3>2. CASE i # n
      <4>1. i \in 1..(n - 1) /\ i \in 1..Len(list)
        BY <1>4, <2>2, <3>2
      <4>2. PICK x \in Writers : x = list[i]
        BY <4>1
      <4>3. closes[x] > 0
        BY <1>3, <2>1, <2>3, <4>1, <4>2 DEF LoopTold
      <4>4. closes[x] =< closes'[x] /\ closes[x] \in Nat /\ closes'[x] \in Nat
        BY <1>5 DEF Adds, ProcTypes
      <4> QED
        BY <4>2, <4>3, <4>4
    <3> QED
      BY <3>1, <3>2
  <2>5. pos'[p] =< Len(list) + 1
    BY <1>4, <2>2
  <2> QED
    BY <2>3, <2>4, <2>5 DEF LoopTold
<1> QED
  BY <1>1, <1>4, <1>5, <1>6, OthersKept

\* A writer that takes a line or closes is the next one of the list.
LEMMA NextTold ==
    ASSUME MultiWriterAssumption, ProcTypes, ProcTypes', SliceTypes, LoopInv, ListsKept,
           ToldInv, NEW p \in Procs, NextWriter(p)
    PROVE  ToldInv'
<1>1. /\ pc[p] = "loop" /\ InLoop(p)
      /\ UNCHANGED <<sliceVars, pc, call, view, failed, calls, ended>>
      /\ pos' = [pos EXCEPT ![p] = @ + 1]
  BY DEF NextWriter, InLoop
<1>2. PICK w \in Writers : w = Current(p)
  BY <1>1, CurrentWriter
<1>3. PICK n \in Nat : n = pos[p] /\ n >= 1 /\ n =< view[p].len
  BY <1>1 DEF ProcTypes, LoopInv, InLoop
<1>4. pos'[p] = n + 1 /\ \A q \in Procs : q # p => pos'[q] = pos[q]
  BY <1>1, <1>3 DEF ProcTypes
<1>5. ASSUME call[p].multi \notin disturbed
      PROVE  \E list \in Seq(Writers) : /\ list = members[call[p].multi]
                                        /\ list = members'[call'[p].multi]
                                        /\ n =< Len(list) /\ Len(list) \in Nat /\ list[n] = w
                                        /\ LoopTold(p)
  <2>1. PICK list \in Seq(Writers) : /\ list = members[call[p].multi]
                                     /\ Len(list) = view[p].len
                                     /\ \A i \in 1..Len(list) : arrays[view[p].arr][i] = list[i]
    BY <1>1, <1>5, LoopPlace
  <2>2. list[n] = w
    BY <1>2, <1>3, <2>1 DEF Current
  <2> QED
    BY <1>1, <1>3, <1>5, <2>1, <2>2 DEF ToldInv, sliceVars
<1>6. CASE Writing(p)
  <2>1. PICK c \in CallType : c = call[p]
    BY DEF ProcTypes
  <2>2. PICK s \in Seq(CallType) : s = got[w]
    BY DEF ProcTypes
  <2>3. /\ got' = [got EXCEPT ![w] = Append(s, c)] /\ closes' = closes
    BY <1>2, <1>6, <2>1, <2>2 DEF NextWriter
  <2>4. \A d : /\ Times(s, d) \in Nat
               /\ Times(Append(s, c), d) = Times(s, d) + (IF c = d THEN 1 ELSE 0)
    BY TimesAppend
  <2>5. /\ got'[w] = Append(s, c)
        /\ \A x \in Writers : x # w => got'[x] = got[x]
    BY <2>3 DEF ProcTypes
  <2>6. Adds(c)
    <3>1. \A d : d # c => Times(got'[w], d) = Times(got[w], d)
      BY <2>2, <2>4, <2>5
    <3>2. \A x \in Writers : closes[x] =< closes'[x]
      BY <2>3 DEF ProcTypes
    <3> QED
      BY <2>5, <3>1, <3>2 DEF Adds
  <2>7. ASSUME call[p].multi \notin disturbed PROVE LoopTold(p)'
    <3>1. PICK list \in Seq(Writers) : /\ list = members[call[p].multi]
                                       /\ list = members'[call'[p].multi]
                                       /\ n =< Len(list) /\ Len(list) \in Nat /\ list[n] = w
                                       /\ LoopTold(p)
      BY <1>5, <2>7
    <3>2. failed[p] = 0 /\ Served(p) = n - 1 /\ Told(c, list, n - 1)
      BY <1>3, <1>6, <2>1, <3>1 DEF LoopTold, Served
    <3>3. failed'[p] = 0 /\ Served(p)' = n /\ Writing(p)' /\ call'[p] = c
      BY <1>1, <1>4, <1>6, <2>1, <3>2 DEF Served, Writing
    <3>4. ASSUME NEW x \in Writers PROVE Times(got'[x], c) = Count(list, n, x)
      <4>1. /\ Count(list, n - 1, x) \in Nat
            /\ Count(list, (n - 1) + 1, x)
                  = Count(list, n - 1, x) + (IF list[(n - 1) + 1] = x THEN 1 ELSE 0)
        <5>1. n - 1 \in Nat
          BY <1>3
        <5> QED
          BY <5>1, CountNext
      <4>2. (n - 1) + 1 = n
        BY <1>3
      <4>3. Times(got[x], c) = Count(list, n - 1, x)
        BY <3>2 DEF Told
      <4>4. Times(got'[x], c) = Times(got[x], c) + (IF x = w THEN 1 ELSE 0)
        <5>1. CASE x = w
          BY <2>2, <2>4, <2>5, <5>1
        <5>2. CASE x # w
          BY <2>5, <4>1, <4>3, <5>2
        <5> QED
          BY <5>1, <5>2
      <4> QED
        BY <3>1, <4>1, <4>2, <4>3, <4>4
    <3>5. pos'[p] =< Len(list) + 1
      BY <1>4, <3>1
    <3> QED
      BY <3>1, <3>3, <3>4, <3>5 DEF LoopTold, Told
  <2> QED
    BY <1>1, <1>4, <1>6, <2>1, <2>6, <2>7, OthersKept
<1>7. CASE ~ Writing(p)
  BY <1>1, <1>7, ClosesTold DEF NextWriter
<1> QED
  BY <1>6, <1>7

\* The first that fails ends a Write, and what it is given is not there; a Close goes on.
LEMMA FailsTold ==
    ASSUME MultiWriterAssumption, ProcTypes, ProcTypes', SliceTypes, LoopInv, ListsKept,
           ToldInv, NEW p \in Procs, WriterFails(p)
    PROVE  ToldInv'
<1>1. /\ pc[p] = "loop" /\ InLoop(p)
      /\ UNCHANGED <<sliceVars, pc, call, view, calls, got, ended>>
      /\ failed' = [failed EXCEPT ![p] = FirstFailure(p)]
  BY DEF WriterFails, InLoop
<1>2. \A q \in Procs : q # p => failed'[q] = failed[q]
  BY <1>1 DEF ProcTypes
<1>3. CASE Writing(p)
  <2>1. /\ pos' = [pos EXCEPT ![p] = view[p].len + 1] /\ closes' = closes
    BY <1>3 DEF WriterFails, LeavesAtError
  <2>2. PICK n \in Nat : n = pos[p] /\ n >= 1 /\ n =< view[p].len
    BY <1>1 DEF ProcTypes, LoopInv, InLoop
  <2>3. pos'[p] = view[p].len + 1 /\ \A q \in Procs : q # p => pos'[q] = pos[q]
    BY <2>1 DEF ProcTypes
  <2>4. Adds(call[p])
    BY <1>1, <2>1, NothingAdded
  <2>5. ASSUME call[p].multi \notin disturbed PROVE LoopTold(p)'
    <3>1. PICK list \in Seq(Writers) : /\ list = members[call[p].multi]
                                       /\ Len(list) = view[p].len
      BY <1>1, <2>5, LoopPlace
    <3>2. /\ LoopTold(p) /\ list = members'[call'[p].multi] /\ Len(list) \in Nat
          /\ Writing(p)' /\ call'[p] = call[p]
      BY <1>1, <1>3, <2>5, <3>1 DEF ToldInv, sliceVars, Writing
    <3>3. failed[p] = 0 /\ Served(p) = n - 1 /\ Told(call[p], list, n - 1)
      BY <1>3, <2>2, <3>1, <3>2 DEF LoopTold, Served
    <3>4. failed'[p] = n
      BY <1>1, <2>2, <3>3 DEF FirstFailure, ProcTypes
    <3>5. Served(p)' = n - 1 /\ failed'[p] \in 1..Len(list) /\ pos'[p] = Len(list) + 1
      BY <2>2, <2>3, <3>1, <3>2, <3>4 DEF Served
    <3>6. \A x \in Writers : Times(got'[x], call'[p]) = Count(list, Served(p)', x)
      BY <1>1, <3>2, <3>3, <3>5 DEF Told
    <3> QED
      BY <3>2, <3>5, <3>6 DEF LoopTold, Told
  <2> QED
    BY <1>1, <1>2, <1>3, <2>3, <2>4, <2>5, OthersKept
<1>4. CASE ~ Writing(p)
  <2>1. /\ pos' = [pos EXCEPT ![p] = pos[p] + 1]
        /\ closes' = [closes EXCEPT ![Current(p)] = @ + 1]
    BY <1>4 DEF WriterFails, LeavesAtError
  <2> QED
    BY <1>1, <1>2, <1>4, <2>1, ClosesTold
<1> QED
  BY <1>3, <1>4

\* A loop that has come to the end has told all it should.
LEMMA LoopEnds ==
    ASSUME ProcTypes, SliceTypes, LoopInv, ListsKept, ToldInv, NEW p \in Procs,
           pc[p] = "loop", pos[p] > view[p].len, call[p].multi \notin disturbed,
           NEW e \in EndedCall, e.call = call[p], e.list = members[call[p].multi],
           e.failed = failed[p]
    PROVE  CallTold(e)
<1>1. PICK list \in Seq(Writers) : list = members[call[p].multi] /\ Len(list) = view[p].len
  BY LoopPlace
<1>2. LoopTold(p) /\ Len(list) \in Nat /\ pos[p] \in Nat /\ pos[p] = Len(list) + 1
  <2>1. LoopTold(p) /\ Len(list) \in Nat /\ pos[p] \in Nat
    BY DEF ToldInv, ProcTypes
  <2>2. pos[p] =< Len(list) + 1
    BY <1>1, <2>1 DEF LoopTold
  <2> QED
    BY <1>1, <2>1, <2>2
<1>3. CASE ~ Writing(p)
  <2>1. \A i \in 1..Len(list) : closes[list[i]] > 0
    BY <1>1, <1>2, <1>3 DEF LoopTold
  <2> QED
    BY <1>1, <1>3, <2>1 DEF CallTold, Writing
<1>4. CASE Writing(p)
  <2>1. \A w \in Writers : Times(got[w], e.call) = Count(list, Served(p), w)
    BY <1>1, <1>2, <1>4 DEF LoopTold, Told
  <2>2. CASE failed[p] = 0
    <3>1. Served(p) = Len(list)
      BY <1>2, <2>2 DEF Served
    <3>2. \A w \in Writers : Times(list, w) = Count(list, Len(list), w)
      BY TimesCount
    <3>3. \A w \in Writers : Times(got[w], e.call) = Times(list, w)
      BY <2>1, <3>1, <3>2
    <3> QED
      BY <1>1, <1>4, <2>2, <3>3 DEF CallTold, Writing
  <2>3. CASE failed[p] # 0
    <3>1. PICK n \in 0..Len(list) : n = failed[p] - 1 /\ n = Served(p)
      BY <1>1, <1>2, <1>4, <2>3 DEF LoopTold, Served
    <3>2. \A w \in Writers : Times(SubSeq(list, 1, n), w) = Count(list, n, w)
      BY TimesFirst
    <3>3. \A w \in Writers : Times(got[w], e.call) = Times(SubSeq(list, 1, n), w)
      BY <2>1, <3>1, <3>2
    <3> QED
      BY <1>1, <1>4, <2>3, <3>1, <3>3 DEF CallTold, Writing
  <2> QED
    BY <2>2, <2>3
<1> QED
  BY <1>3, <1>4

LEMMA ReturnTold ==
    ASSUME MultiWriterAssumption, ProcTypes, ProcTypes', SliceTypes, LoopInv, ListsKept,
           OrderInv, ToldInv, NEW p \in Procs, Return(p)
    PROVE  ToldInv'
<1> DEFINE e == [call |-> call[p], list |-> members[call[p].multi], failed |-> failed[p]]
<1>1. /\ pc[p] = "loop" /\ pos[p] > view[p].len
      /\ UNCHANGED <<sliceVars, calls, got, closes>>
      /\ ended' = ended \cup {e}
      /\ pc' = [pc EXCEPT ![p] = "idle"] /\ call' = [call EXCEPT ![p] = NoCall]
      /\ pos' = [pos EXCEPT ![p] = 0] /\ failed' = [failed EXCEPT ![p] = 0]
  BY DEF Return
<1>2. /\ e \in EndedCall /\ e.call = call[p] /\ e.list = members[call[p].multi]
      /\ e.failed = failed[p]
  <2>1. members[call[p].multi] \in Seq(Writers)
    BY <1>1 DEF LoopInv, SliceTypes
  <2> QED
    BY <2>1 DEF EndedCall, ProcTypes
<1> HIDE DEF e
<1>3. e.call.multi \notin disturbed => CallTold(e)
  BY <1>1, <1>2, LoopEnds
<1>4. Adds(NoCall)
  BY <1>1, NothingAdded
<1>5. ASSUME NEW q \in Procs, pc'[q] = "loop"
      PROVE  /\ q # p /\ pc[q] = "loop" /\ call'[q] = call[q] /\ pos'[q] = pos[q]
             /\ failed'[q] = failed[q] /\ members' = members
  BY <1>1, <1>5 DEF ProcTypes, sliceVars
<1>6. ASSUME NEW q \in Procs, pc'[q] = "loop", call'[q].multi \notin disturbed'
      PROVE  LoopTold(q)'
  <2>1. LoopTold(q) /\ (Writing(q) => call[q] # NoCall)
    BY <1>1, <1>5, <1>6 DEF ToldInv, Writing, NoCall, sliceVars
  <2> QED
    BY <1>4, <1>5, <1>6, <2>1, LoopKept
<1>7. ASSUME NEW q \in Procs, pc'[q] = "loop", Writing(q)', NEW d \in ended'
      PROVE  d.call # call'[q]
  <2>1. Writing(q) /\ pc[q] = "loop" /\ call'[q] = call[q]
    BY <1>5, <1>7 DEF Writing
  <2>2. CASE d \in ended
    BY <2>1, <2>2 DEF ToldInv
  <2>3. CASE d = e
    <3>1. call[q].multi # call[p].multi
      BY <1>1, <1>5, <1>7, LoopsApart
    <3> QED
      BY <1>2, <2>1, <2>3, <3>1
  <2> QED
    BY <1>1, <1>7, <2>2, <2>3
<1>8. ASSUME NEW d \in ended'
      PROVE  /\ d \in EndedCall /\ d.call.line =< calls'
             /\ d.call.multi \notin disturbed' => CallTold(d)'
  <2>1. d \in EndedCall /\ d.call.line =< calls /\ (d.call.multi \notin disturbed => CallTold(d))
    <3>1. CASE d \in ended
      BY <3>1 DEF ToldInv
    <3>2. CASE d = e
      BY <1>1, <1>2, <1>3, <3>2 DEF OrderInv
    <3> QED
      BY <1>1, <1>8, <3>1, <3>2
  <2>2. d.call.line # 0 => d.call # NoCall
    BY DEF NoCall
  <2>3. d.call.multi \notin disturbed' => CallTold(d)'
    BY <1>1, <1>4, <2>1, <2>2, CallKept DEF sliceVars
  <2> QED
    BY <1>1, <2>1, <2>3
<1>9. \A q \in Procs : pc'[q] = "idle" => failed'[q] = 0
  BY <1>1 DEF ProcTypes, ToldInv
<1> QED
  BY <1>6, <1>7, <1>8, <1>9 DEF ToldInv

--------------------------------------------------------------------------------
(* The theorems.                                                            *)

Types == SliceTypes /\ ProcTypes

Inv == Types /\ LoopInv /\ ListsKept /\ OrderInv

\* Slices at the beginning: those of one list, in one array or in one each.
LEMMA InitSlices ==
    ASSUME MultiWriterAssumption, Init
    PROVE  SliceTypes /\ ListsKept
<1>1. PICK list \in Lists, shared \in BOOLEAN, room \in 0..MaxRoom :
        /\ arrays = LET array == list \o [i \in 1..room |-> None]
                    IN IF shared THEN <<array>> ELSE [m \in Multis |-> array]
        /\ slice = [m \in Multis |->
                      [arr |-> IF shared THEN 1 ELSE m, len |-> Len(list)]]
        /\ members = [m \in Multis |-> list]
  BY DEF Init
<1>2. /\ NumMultis \in Nat /\ NumMultis >= 1 /\ Multis = 1..NumMultis
      /\ room \in Nat /\ list \in Seq(Writers) /\ disturbed = {}
  BY DEF MultiWriterAssumption, Multis, Init
<1>3. PICK R : R = [i \in 1..room |-> None]
  OBVIOUS
<1>4. R \in Seq(Place) /\ list \in Seq(Place)
  <2>1. None \in Place /\ \A w \in Writers : w \in Place
    BY DEF Place
  <2> QED
    BY <1>2, <1>3, <2>1
<1>5. PICK A \in Seq(Place) : A = list \o R
  <2>1. list \o R \in Seq(Place)
    BY <1>4, ConcatProperties
  <2> QED
    BY <2>1, Zenon
<1>6. Len(list) \in Nat /\ Len(list) =< Len(A) /\ \A i \in 1..Len(list) : A[i] = list[i]
  BY <1>4, <1>5, ConcatProperties
<1>7. arrays = IF shared THEN <<A>> ELSE [m \in Multis |-> A]
  BY <1>1, <1>3, <1>5
<1>8. PICK k \in Nat : /\ arrays \in Seq(Seq(Place)) /\ DOMAIN arrays = 1..k
                       /\ \A a \in 1..k : arrays[a] = A
                       /\ \A m \in Multis : (IF shared THEN 1 ELSE m) \in 1..k
  <2>1. CASE shared
    <3>1. arrays = <<A>>
      BY <1>7, <2>1
    <3>2. arrays \in Seq(Seq(Place)) /\ DOMAIN arrays = 1..1 /\ arrays[1] = A
      BY <3>1
    <3> QED
      BY <2>1, <3>2
  <2>2. CASE ~ shared
    <3>1. arrays = [m \in 1..NumMultis |-> A]
      BY <1>2, <1>7, <2>2
    <3>2. arrays \in Seq(Seq(Place)) /\ DOMAIN arrays = 1..NumMultis
      BY <1>2, <3>1
    <3> QED
      BY <1>2, <2>2, <3>1, <3>2
  <2> QED
    BY <2>1, <2>2
<1>9. ASSUME NEW m \in Multis
      PROVE  /\ slice[m] \in SliceType /\ Fits(slice[m])
             /\ Content(m) = list /\ members[m] = list
  <2>1. PICK a \in 1..k : slice[m] = [arr |-> a, len |-> Len(list)]
    BY <1>1, <1>8
  <2>2. slice[m] \in SliceType
    BY <1>6, <1>8, <2>1 DEF SliceType
  <2>3. \A i \in 1..Len(list) : A[i] \in Writers
    BY <1>2, <1>6
  <2>4. Fits(slice[m])
    BY <1>6, <1>8, <2>1, <2>3 DEF Fits
  <2>5. Content(m) = SubSeq(A, 1, Len(list))
    BY <1>8, <2>1 DEF Content
  <2>6. SubSeq(A, 1, Len(list)) = list
    <3>1. PICK C \in Seq(Place) : /\ C = SubSeq(A, 1, Len(list)) /\ Len(C) = Len(list)
                                  /\ \A i \in 1..Len(list) : C[i] = A[i]
      BY <1>6, FirstPlaces
    <3>2. C = list
      BY <1>4, <1>6, <3>1, SameElements
    <3> QED
      BY <3>1, <3>2
  <2> QED
    BY <1>1, <2>2, <2>4, <2>5, <2>6
<1>10. slice \in [Multis -> SliceType] /\ members \in [Multis -> Seq(Writers)]
  BY <1>1, <1>2, <1>9
<1> QED
  BY <1>2, <1>8, <1>9, <1>10 DEF SliceTypes, ListsKept

\* What a call of Write or Close begins with.
LEMMA BeginCall ==
    ASSUME ProcTypes, NEW p, NEW m \in Multis, Write(p, m) \/ Close(p, m)
    PROVE  \E c \in CallType : c.multi = m /\ c.line \in {0, calls + 1} /\ Begin(p, m, c)
<1>1. calls \in Nat /\ m \in Nat
  BY DEF ProcTypes, Multis
<1>2. /\ [multi |-> m, line |-> calls + 1] \in CallType
      /\ [multi |-> m, line |-> 0] \in CallType
  BY <1>1 DEF CallType
<1>3. CASE Write(p, m)
  BY <1>2, <1>3 DEF Write
<1>4. CASE Close(p, m)
  BY <1>2, <1>4 DEF Close
<1> QED
  BY <1>3, <1>4

\* The invariant holds at the beginning.
LEMMA InitInv == MultiWriterAssumption /\ Init => Inv
<1> SUFFICES ASSUME MultiWriterAssumption, Init PROVE Inv
  OBVIOUS
<1>1. SliceTypes /\ ListsKept
  BY InitSlices
<1>2. ProcTypes
  <2>1. NoCall \in CallType /\ NoSlice \in SliceType
    BY DEF NoCall, NoSlice, CallType, SliceType
  <2> QED
    BY <2>1 DEF Init, ProcTypes
<1>3. LoopInv /\ OrderInv
  BY DEF Init, LoopInv, OrderInv, InOrder, NoneLater
<1> QED
  BY <1>1, <1>2, <1>3 DEF Inv, Types

\* Every step keeps it.
LEMMA NextInv == MultiWriterAssumption /\ Inv /\ [Next]_vars => Inv'
<1> SUFFICES ASSUME MultiWriterAssumption, Inv, [Next]_vars PROVE Inv'
  OBVIOUS
<1> USE DEF Inv, Types
<1>1. ASSUME NEW p \in Procs, NEW m \in Multis, Write(p, m) \/ Close(p, m) PROVE Inv'
  <2>1. PICK c \in CallType : c.multi = m /\ c.line \in {0, calls + 1} /\ Begin(p, m, c)
    BY <1>1, BeginCall
  <2>2. UNCHANGED sliceVars
    BY <2>1 DEF Begin
  <2>3. SliceTypes' /\ ListsKept'
    BY <2>2 DEF SliceTypes, Fits, ListsKept, Content, sliceVars
  <2> QED
    BY <2>1, <2>3, BeginStep, BeginOrder
<1>2. ASSUME NEW p \in Procs, NEW m \in Multis, NEW w \in Writers,
             AddWriter(p, m, w) \/ RemoveWriter(p, m, w)
      PROVE  Inv'
  <2>1. SliceTypes'
    BY <1>2, SlicesTyped
  <2>2. ListsKept'
    BY <1>2, <2>1, ListsStep
  <2> QED
    BY <1>2, <2>1, <2>2, SetStep, SetOrder
<1>3. ASSUME NEW p \in Procs, Loop(p) PROVE Inv'
  <2>1. UNCHANGED sliceVars
    BY <1>3 DEF Loop, NextWriter, WriterFails, Return
  <2>2. SliceTypes' /\ ListsKept'
    BY <2>1 DEF SliceTypes, Fits, ListsKept, Content, sliceVars
  <2> QED
    BY <1>3, <2>2, WriterStep, WriterOrder, ReturnStep, ReturnOrder DEF Loop
<1>4. CASE UNCHANGED vars
  BY <1>4 DEF vars, sliceVars, procVars, SliceTypes, Fits, ProcTypes, LoopInv, ListsKept,
              Content, OrderInv, InOrder, NoneLater, Writing
<1> QED
  BY <1>1, <1>2, <1>3, <1>4 DEF Next, Terminated

\* The invariant.
THEOREM Invariance == Spec => []Inv
<1>1. Init => Inv
  BY InitInv, MultiWriterAssumption
<1>2. Inv /\ [Next]_vars => Inv'
  BY NextInv, MultiWriterAssumption
<1> QED
  BY <1>1, <1>2, PTL DEF Spec

\* Every variable keeps its type, and a slice has writers in its places.
THEOREM TypesTheorem == Spec => []Types
<1>1. Inv => Types
  BY DEF Inv
<1> QED
  BY <1>1, Invariance, PTL

\* A MultiWriter that no other of its array has disturbed has the writers it was made
\* from and given, in order (NewMultiWriter, AddWriter, RemoveWriter).
THEOREM ListsKeptTheorem == Spec => []ListsKept
<1>1. Inv => ListsKept
  BY DEF Inv
<1> QED
  BY <1>1, Invariance, PTL

\* The loops of Write and Close never meet a place of an array without a writer, even
\* while another MultiWriter of the array removes from it.
LoopsMeetWriters == \A p \in Procs : InLoop(p) => Current(p) \in Writers
THEOREM LoopsMeetWritersTheorem == Spec => []LoopsMeetWriters
<1>1. Inv => LoopsMeetWriters
  BY CurrentWriter DEF Inv, Types, LoopsMeetWriters
<1> QED
  BY <1>1, Invariance, PTL

\* Lines of concurrent Writes to one MultiWriter reach all its writers in one order,
\* which is that of the calls.
THEOREM SameOrderTheorem == Spec => []SameOrder
<1>1. ASSUME Inv PROVE SameOrder
  <2>1. SUFFICES ASSUME NEW w \in Writers, NEW i \in DOMAIN got[w], NEW j \in DOMAIN got[w],
                        i < j, got[w][i] # got[w][j], got[w][i].multi = got[w][j].multi,
                        NEW o \in Writers, Before(o, got[w][j], got[w][i])
                 PROVE  FALSE
    BY DEF SameOrder
  <2>2. PICK k, l \in DOMAIN got[o] : k < l /\ got[o][k] = got[w][j] /\ got[o][l] = got[w][i]
    BY <2>1 DEF Before
  <2>3. got[w][i].line =< got[w][j].line
    BY <1>1, <2>1 DEF Inv, OrderInv, InOrder
  <2>4. got[w][j].line =< got[w][i].line
    BY <1>1, <2>1, <2>2 DEF Inv, OrderInv, InOrder
  <2>5. PICK c \in CallType : c = got[w][i]
    BY <1>1, <2>1 DEF Inv, Types, ProcTypes
  <2>6. PICK d \in CallType : d = got[w][j]
    BY <1>1, <2>1 DEF Inv, Types, ProcTypes
  <2>7. c.line = d.line /\ c.multi = d.multi /\ c # d
    BY <2>1, <2>3, <2>4, <2>5, <2>6 DEF CallType
  <2> QED
    BY <2>7 DEF CallType
<1> QED
  BY <1>1, Invariance, PTL


\* Loops and calls that have ended have told their writers: at the beginning, ...
LEMMA InitTold == MultiWriterAssumption /\ Init => ToldInv
BY DEF Init, ToldInv

\* ... and after every step.
LEMMA NextToldInv == MultiWriterAssumption /\ Inv /\ Inv' /\ ToldInv /\ [Next]_vars => ToldInv'
<1> SUFFICES ASSUME MultiWriterAssumption, Inv, Inv', ToldInv, [Next]_vars PROVE ToldInv'
  OBVIOUS
<1>a. SliceTypes /\ ProcTypes /\ ProcTypes' /\ LoopInv /\ ListsKept /\ OrderInv
  BY DEF Inv, Types
<1>1. ASSUME NEW p \in Procs, NEW m \in Multis, Write(p, m) \/ Close(p, m) PROVE ToldInv'
  <2>1. PICK c \in CallType : c.multi = m /\ c.line \in {0, calls + 1} /\ Begin(p, m, c)
    BY <1>a, <1>1, BeginCall
  <2> QED
    BY <1>a, <2>1, BeginTold
<1>2. ASSUME NEW p \in Procs, NEW m \in Multis, NEW w \in Writers,
             AddWriter(p, m, w) \/ RemoveWriter(p, m, w)
      PROVE  ToldInv'
  BY <1>a, <1>2, SetTold
<1>3. ASSUME NEW p \in Procs, Loop(p) PROVE ToldInv'
  BY <1>a, <1>3, NextTold, FailsTold, ReturnTold DEF Loop
<1>4. CASE UNCHANGED vars
  BY <1>4 DEF vars, sliceVars, procVars, ToldInv, LoopTold, Told, Served, Writing, CallTold
<1> QED
  BY <1>1, <1>2, <1>3, <1>4 DEF Next, Terminated

\* A Write that returned reached each writer of its list, as often as it is in there, or
\* those before the first that failed and no other; a Close reached all, also after a
\* failure (Write, Close).
THEOREM EveryMemberCalledTheorem == Spec => []EveryMemberCalled
<1>1. Init => ToldInv
  BY InitTold, MultiWriterAssumption
<1>2. Inv /\ Inv' /\ ToldInv /\ [Next]_vars => ToldInv'
  BY NextToldInv, MultiWriterAssumption
<1>3. ToldInv => EveryMemberCalled
  BY DEF ToldInv, CallTold, EveryMemberCalled
<1> QED
  BY <1>1, <1>2, <1>3, Invariance, PTL DEF Spec

================================================================================
