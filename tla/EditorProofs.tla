---------------------------- MODULE EditorProofs ----------------------------
(***************************************************************************)
(* Proofs about the editor: its tabs and their saves (EditorAutosave), in  *)
(* any number of tabs, for any image, gestures, crop frames, number of     *)
(* edits and number of troubles; and the canvas of one tab (EditorCanvas), *)
(* for any image, pointer positions, frames, texts, documents of other     *)
(* clients and number of actions.                                          *)
(*                                                                         *)
(* The saves.  Leave out the shape being drawn and those dropped as too    *)
(* small: what remains on a canvas changes only in steps that make the tab *)
(* dirty, and a save clears the flag in the step that takes the document   *)
(* to send.  So a tab that is not dirty shows what it is sending, and,     *)
(* once the answer is in, what its revision stores.  The server keeps      *)
(* documents as they come and an editor loads them in drawing order, so    *)
(* "shows" is equality in that order, which every change has to keep.      *)
(* What a save replaces is the revision its tab loaded or stored, and all  *)
(* of that was on its canvas.                                              *)
(*                                                                         *)
(* The canvas.  Leave out the object that a gesture holds: the document of *)
(* what remains is the top of the history, and each remaining object is    *)
(* one that a save would not change in a way that shows: a redaction block *)
(* is on whole pixels and opaque, a label has a size that the schema takes,*)
(* the blocks lie below, all are scaled for the width of the crop.  A      *)
(* gesture that ends writes its object back in that form and then pushes.  *)
(* From there a rounded coordinate is a unit off at most, and so every     *)
(* object paints the marks the server draws for its shape.                 *)
(*                                                                         *)
(* The provers have no induction over data: the facts about sequences rest *)
(* on LeastOf, which has a least element of a set of numbers from the      *)
(* well-founded order of the subsets of a finite set.                      *)
(***************************************************************************)
EXTENDS EditorAutosave, EditorCanvas, FiniteSetTheorems, SequenceTheorems, TLAPS
-----------------------------------------------------------------------------
(* Induction, over sets of numbers and of sequences.                          *)

(* Of a set of numbers with a member, that and what lies below it is finite;   *)
(* by strict inclusion one of the sets of members up to one is the least.      *)
LEMMA LeastOf ==
    ASSUME NEW S \in SUBSET Nat, S # {}
    PROVE  \E m \in S : \A n \in S : m <= n
<1> PICK top \in S : TRUE
    OBVIOUS
<1> DEFINE Low == {n \in S : n <= top}
           UpTo(n) == {k \in S : k <= n}
           UpTos == {UpTo(n) : n \in Low}
           Strict == StrictSubsetOrdering(Low)
<1>1. IsFiniteSet(Low)
    <2>1. IsFiniteSet(0..top)
        BY FS_Interval
    <2>2. Low \subseteq 0..top
        <3> SUFFICES ASSUME NEW n \in S, n <= top PROVE n \in 0..top
            OBVIOUS
        <3>1. n \in Nat /\ top \in Nat
            OBVIOUS
        <3> QED
            BY <3>1
    <2> QED
        BY <2>1, <2>2, FS_Subset
<1>2. IsWellFoundedOn(Strict, SUBSET Low)
    <2> HIDE DEF Low
    <2> QED
        BY <1>1, FS_StrictSubsetOrderingWellFounded, FS_FiniteSubsetsOfFinite
<1>3. \A n \in Low : UpTo(n) \in SUBSET Low
    <2> SUFFICES ASSUME NEW n \in Low, NEW k \in S, k <= n PROVE k \in Low
        OBVIOUS
    <2> QED
        OBVIOUS
<1>4. UpTos \subseteq SUBSET Low /\ UpTos # {}
    <2>1. top \in Low
        OBVIOUS
    <2> HIDE DEF Low, UpTo
    <2> QED
        BY <1>3, <2>1
<1>5. PICK T \in UpTos : \A U \in UpTos : ~(<<U, T>> \in Strict)
    <2> HIDE DEF UpTos, Strict, Low
    <2> QED
        BY <1>2, <1>4, WFMin
<1>6. PICK m \in Low : T = UpTo(m)
    <2> HIDE DEF UpTo, Low
    <2> QED
        OBVIOUS
<1>7. \A n \in S : m <= n
    <2> SUFFICES ASSUME NEW n \in S, n < m PROVE FALSE
        OBVIOUS
    <2>1. n < m
        OBVIOUS
    <2>2. n \in Low
        OBVIOUS
    <2>3. UpTo(n) \subseteq UpTo(m) /\ m \in UpTo(m) /\ m \notin UpTo(n)
        <3>1. n \in Nat /\ m \in Nat
            OBVIOUS
        <3>2. \A k \in Nat : k <= n => k <= m
            BY <2>1, <3>1
        <3>3. ~(m <= n)
            BY <2>1, <3>1
        <3>4. UpTo(n) \subseteq UpTo(m)
            <4> SUFFICES ASSUME NEW k \in S, k <= n PROVE k <= m
                OBVIOUS
            <4>1. k \in Nat
                OBVIOUS
            <4> QED
                BY <3>2, <4>1
        <3>5. m \in S /\ m <= m
            BY <3>1
        <3>6. m \in UpTo(m)
            BY <3>5
        <3>7. m \notin UpTo(n)
            BY <3>3
        <3> QED
            BY <3>4, <3>6, <3>7
    <2>4. UpTo(n) \in UpTos /\ UpTo(n) \in SUBSET Low /\ UpTo(m) \in SUBSET Low
        <3> HIDE DEF UpTo, Low
        <3> QED
            BY <1>3, <2>2
    <2>5. <<UpTo(n), UpTo(m)>> \in Strict
        <3> HIDE DEF UpTo, Low
        <3> QED
            BY <2>3, <2>4 DEF StrictSubsetOrdering
    <2> HIDE DEF UpTo, Strict, UpTos, Low
    <2> QED
        BY <1>5, <1>6, <2>4, <2>5
<1> QED
    BY <1>7

\* A set with zero and every successor has every number.
LEMMA NumbersFollow ==
    ASSUME NEW S, 0 \in S, \A n \in Nat : n \in S => n + 1 \in S
    PROVE  \A n \in Nat : n \in S
<1> SUFFICES ASSUME NEW n \in Nat, n \notin S PROVE FALSE
    OBVIOUS
<1> DEFINE Out == {k \in Nat : k \notin S}
<1>1. PICK m \in Out : \A k \in Out : m <= k
    <2>1. Out \in SUBSET Nat /\ Out # {}
        OBVIOUS
    <2> HIDE DEF Out
    <2> QED
        BY <2>1, LeastOf
<1>2. m \in Nat /\ m # 0 /\ m \notin S
    OBVIOUS
<1>3. m - 1 \in Nat /\ m - 1 \in S
    <2>1. m - 1 \in Nat /\ ~(m <= m - 1)
        BY <1>2
    <2> QED
        BY <1>1, <2>1
<1> QED
    BY <1>2, <1>3

(* Sequences: what holds of the empty one and of one that grew.               *)
LEMMA SequencesFollow ==
    ASSUME NEW T, NEW S, <<>> \in S,
           \A s \in Seq(T), x \in T : s \in S => Append(s, x) \in S
    PROVE  \A s \in Seq(T) : s \in S
<1> DEFINE Ns == {n \in Nat : \A s \in Seq(T) : Len(s) = n => s \in S}
<1>1. 0 \in Ns
    <2> SUFFICES ASSUME NEW s \in Seq(T), Len(s) = 0 PROVE s \in S
        OBVIOUS
    <2>1. s = <<>>
        BY EmptySeq
    <2> QED
        BY <2>1
<1>2. \A n \in Nat : n \in Ns => n + 1 \in Ns
    <2> SUFFICES ASSUME NEW n \in Nat, n \in Ns, NEW s \in Seq(T), Len(s) = n + 1 PROVE s \in S
        OBVIOUS
    <2>1. PICK q \in Seq(T), x \in T : s = Append(q, x)
        <3>1. s # <<>>
            BY EmptySeq
        <3> QED
            BY <3>1, SequenceEmptyOrAppend
    <2>2. Len(q) = n
        BY <2>1, AppendProperties, LenProperties
    <2> QED
        BY <2>1, <2>2
<1>3. \A n \in Nat : n \in Ns
    <2> HIDE DEF Ns
    <2> QED
        BY <1>1, <1>2, NumbersFollow
<1> QED
    BY <1>3, LenProperties
-----------------------------------------------------------------------------
(* Only: what it keeps.                                                       *)

\* The functions whose last value Only is.
Filters(f, n, seq, S) ==
    f = [i \in 0..n |-> IF i = 0 THEN <<>>
                        ELSE IF seq[i] \in S THEN Append(f[i - 1], seq[i]) ELSE f[i - 1]]

\* There is one, so the CHOOSE behind Only finds it.
LEMMA FilterExists ==
    ASSUME NEW seq, NEW S
    PROVE  \A n \in Nat : \E f : Filters(f, n, seq, S)
<1> DEFINE Ns == {n \in Nat : \E f : Filters(f, n, seq, S)}
<1>1. 0 \in Ns
    <2>1. PICK f : f = [i \in 0..0 |-> <<>>]
        OBVIOUS
    <2>2. Filters(f, 0, seq, S)
        BY <2>1 DEF Filters
    <2> QED
        BY <2>2
<1>2. \A n \in Nat : n \in Ns => n + 1 \in Ns
    <2> SUFFICES ASSUME NEW n \in Nat, n \in Ns PROVE n + 1 \in Ns
        OBVIOUS
    <2>1. PICK f : Filters(f, n, seq, S)
        OBVIOUS
    <2>2. PICK g : g = [i \in 0..(n + 1) |->
                          IF i = n + 1
                          THEN IF seq[n + 1] \in S THEN Append(f[n], seq[n + 1]) ELSE f[n]
                          ELSE f[i]]
        OBVIOUS
    <2>3. Filters(g, n + 1, seq, S)
        <3>1. \A i \in 0..n : g[i] = f[i]
            BY <2>2
        <3>2. g[n + 1] = IF seq[n + 1] \in S THEN Append(f[n], seq[n + 1]) ELSE f[n]
            BY <2>2
        <3>3. \A i \in 0..n : f[i] = IF i = 0 THEN <<>>
                        ELSE IF seq[i] \in S THEN Append(f[i - 1], seq[i]) ELSE f[i - 1]
            BY <2>1 DEF Filters
        <3>4. \A i \in 0..(n + 1) : g[i] = IF i = 0 THEN <<>>
                        ELSE IF seq[i] \in S THEN Append(g[i - 1], seq[i]) ELSE g[i - 1]
            <4> SUFFICES ASSUME NEW i \in 0..(n + 1)
                         PROVE  g[i] = IF i = 0 THEN <<>>
                                  ELSE IF seq[i] \in S THEN Append(g[i - 1], seq[i]) ELSE g[i - 1]
                OBVIOUS
            <4>1. CASE i = n + 1
                <5>1. i # 0 /\ i - 1 = n /\ n \in 0..n
                    BY <4>1
                <5>2. g[i - 1] = f[n]
                    BY <3>1, <5>1
                <5> QED
                    BY <3>2, <4>1, <5>1, <5>2
            <4>2. CASE i \in 0..n
                <5>1. g[i] = f[i] /\ (i # 0 => g[i - 1] = f[i - 1])
                    BY <3>1, <4>2
                <5> QED
                    BY <3>3, <4>2, <5>1
            <4> QED
                BY <4>1, <4>2
        <3> QED
            BY <2>2, <3>4 DEF Filters
    <2> QED
        BY <2>3
<1> HIDE DEF Ns
<1>3. \A n \in Nat : n \in Ns
    BY <1>1, <1>2, NumbersFollow
<1> QED
    BY <1>3 DEF Ns

LEMMA OnlyIsFilter ==
    ASSUME NEW T, NEW seq \in Seq(T), NEW S
    PROVE  \E f : Filters(f, Len(seq), seq, S) /\ Only(seq, S) = f[Len(seq)]
<1>1. Len(seq) \in Nat
    BY LenProperties
<1>2. \E f : Filters(f, Len(seq), seq, S)
    BY <1>1, FilterExists
<1>3. Filters(CHOOSE f : Filters(f, Len(seq), seq, S), Len(seq), seq, S)
    BY <1>2, Zenon
<1>4. Only(seq, S) = (CHOOSE f : Filters(f, Len(seq), seq, S))[Len(seq)]
    BY DEF Only, Filters
<1> QED
    BY <1>3, <1>4

LEMMA FilterStep ==
    ASSUME NEW f, NEW n \in Nat, NEW seq, NEW S, Filters(f, n, seq, S)
    PROVE  /\ f[0] = <<>>
           /\ \A i \in 0..n : i + 1 \in 0..n =>
                f[i + 1] = IF seq[i + 1] \in S THEN Append(f[i], seq[i + 1]) ELSE f[i]
<1>1. \A i \in 0..n : f[i] = IF i = 0 THEN <<>>
          ELSE IF seq[i] \in S THEN Append(f[i - 1], seq[i]) ELSE f[i - 1]
    BY DEF Filters
<1>2. f[0] = <<>>
    BY <1>1
<1>3. ASSUME NEW i \in 0..n, i + 1 \in 0..n
      PROVE  f[i + 1] = IF seq[i + 1] \in S THEN Append(f[i], seq[i + 1]) ELSE f[i]
    <2>1. i + 1 # 0 /\ (i + 1) - 1 = i
        OBVIOUS
    <2> QED
        BY <1>1, <1>3, <2>1
<1> QED
    BY <1>2, <1>3

\* On a common beginning two filters agree.
LEMMA FiltersAgree ==
    ASSUME NEW S, NEW seq, NEW more, NEW n \in Nat, NEW m \in Nat, n <= m,
           \A i \in 1..n : more[i] = seq[i],
           NEW f, Filters(f, n, seq, S), NEW g, Filters(g, m, more, S)
    PROVE  g[n] = f[n]
<1> DEFINE Ns == {i \in Nat : i <= n => g[i] = f[i]}
<1>1. 0 \in Ns
    BY FilterStep
<1>2. \A i \in Nat : i \in Ns => i + 1 \in Ns
    <2> SUFFICES ASSUME NEW i \in Nat, i \in Ns, i + 1 <= n PROVE g[i + 1] = f[i + 1]
        OBVIOUS
    <2>1. i \in 0..n /\ i + 1 \in 0..n /\ i \in 0..m /\ i + 1 \in 0..m /\ i + 1 \in 1..n
        OBVIOUS
    <2>2. f[i + 1] = IF seq[i + 1] \in S THEN Append(f[i], seq[i + 1]) ELSE f[i]
        BY <2>1, FilterStep
    <2>3. g[i + 1] = IF more[i + 1] \in S THEN Append(g[i], more[i + 1]) ELSE g[i]
        BY <2>1, FilterStep
    <2>4. g[i] = f[i]
        BY <2>1
    <2> QED
        BY <2>1, <2>2, <2>3, <2>4
<1>3. n \in Ns
    <2> HIDE DEF Ns
    <2> QED
        BY <1>1, <1>2, NumbersFollow
<1> QED
    BY <1>3

LEMMA OnlyEmpty == ASSUME NEW S PROVE Only(<<>>, S) = <<>>
<1>1. <<>> \in Seq({}) /\ Len(<<>>) = 0
    BY EmptySeq
<1>2. PICK f : Filters(f, 0, <<>>, S) /\ Only(<<>>, S) = f[0]
    BY <1>1, OnlyIsFilter
<1> QED
    BY <1>2, FilterStep

LEMMA OnlyAppend ==
    ASSUME NEW T, NEW seq \in Seq(T), NEW x \in T, NEW S
    PROVE  Only(Append(seq, x), S) = IF x \in S THEN Append(Only(seq, S), x) ELSE Only(seq, S)
<1>1. PICK n : n = Len(seq)
    OBVIOUS
<1>2. PICK more : more = Append(seq, x)
    OBVIOUS
<1>3. /\ n \in Nat /\ more \in Seq(T) /\ Len(more) = n + 1 /\ more[n + 1] = x
      /\ \A i \in 1..n : more[i] = seq[i]
    BY <1>1, <1>2, LenProperties, AppendProperties
<1>4. PICK f : Filters(f, n, seq, S) /\ Only(seq, S) = f[n]
    BY <1>1, OnlyIsFilter
<1>5. PICK g : Filters(g, n + 1, more, S) /\ Only(more, S) = g[n + 1]
    BY <1>3, OnlyIsFilter
<1>6. g[n] = f[n]
    BY <1>3, <1>4, <1>5, FiltersAgree
<1>7. g[n + 1] = IF more[n + 1] \in S THEN Append(g[n], more[n + 1]) ELSE g[n]
    <2>1. n \in 0..(n + 1) /\ n + 1 \in 0..(n + 1) /\ n + 1 \in Nat
        BY <1>3
    <2> QED
        BY <1>5, <2>1, FilterStep
<1> QED
    BY <1>2, <1>3, <1>4, <1>5, <1>6, <1>7

LEMMA OnlySeq ==
    ASSUME NEW T, NEW seq \in Seq(T), NEW S
    PROVE  Only(seq, S) \in Seq(T) /\ Len(Only(seq, S)) <= Len(seq)
<1> DEFINE Ss == {s \in Seq(T) : Only(s, S) \in Seq(T) /\ Len(Only(s, S)) <= Len(s)}
<1>1. <<>> \in Ss
    <2>1. PICK o : o = Only(<<>>, S)
        OBVIOUS
    <2>2. o = <<>> /\ <<>> \in Seq(T)
        BY <2>1, OnlyEmpty, EmptySeq
    <2>3. Len(o) = Len(<<>>) /\ Len(<<>>) \in Nat
        BY <2>2, LenProperties
    <2>4. Len(o) <= Len(<<>>)
        BY <2>3
    <2> QED
        BY <2>1, <2>2, <2>4
<1>2. ASSUME NEW s \in Seq(T), NEW x \in T, s \in Ss PROVE Append(s, x) \in Ss
    <2>1. PICK o : o = Only(s, S)
        OBVIOUS
    <2>2. o \in Seq(T) /\ Len(o) <= Len(s) /\ Len(o) \in Nat /\ Len(s) \in Nat
        BY <1>2, <2>1, LenProperties
    <2>3. Append(s, x) \in Seq(T) /\ Len(Append(s, x)) = Len(s) + 1
        BY AppendProperties
    <2>4. Append(o, x) \in Seq(T) /\ Len(Append(o, x)) = Len(o) + 1
        BY <2>2, AppendProperties
    <2>5. Only(Append(s, x), S) = o \/ Only(Append(s, x), S) = Append(o, x)
        BY <2>1, OnlyAppend
    <2> QED
        BY <2>2, <2>3, <2>4, <2>5
<1> HIDE DEF Ss
<1>3. seq \in Ss
    BY <1>1, <1>2, SequencesFollow
<1> QED
    BY <1>3 DEF Ss

LEMMA OnlyKept ==
    ASSUME NEW T, NEW seq \in Seq(T), NEW S
    PROVE  Only(seq, S) \in Seq(T \cap S)
<1> DEFINE Ss == {s \in Seq(T) : Only(s, S) \in Seq(T \cap S)}
<1>1. <<>> \in Ss
    BY OnlyEmpty, EmptySeq
<1>2. ASSUME NEW s \in Seq(T), NEW x \in T, s \in Ss PROVE Append(s, x) \in Ss
    <2>1. Append(s, x) \in Seq(T)
        BY AppendProperties
    <2>2. CASE x \in S
        <3>1. Append(Only(s, S), x) \in Seq(T \cap S)
            BY <1>2, <2>2, AppendProperties
        <3>2. Only(Append(s, x), S) = Append(Only(s, S), x)
            BY <2>2, OnlyAppend
        <3> QED
            BY <2>1, <3>1, <3>2
    <2>3. CASE x \notin S
        <3>1. Only(Append(s, x), S) = Only(s, S)
            BY <2>3, OnlyAppend
        <3> QED
            BY <1>2, <2>1, <3>1
    <2> QED
        BY <2>2, <2>3
<1> HIDE DEF Ss
<1>3. seq \in Ss
    BY <1>1, <1>2, SequencesFollow
<1> QED
    BY <1>3 DEF Ss

\* What matters of S is what may be in the sequence.
LEMMA OnlyAlike ==
    ASSUME NEW T, NEW seq \in Seq(T), NEW S, NEW R, \A x \in T : x \in S <=> x \in R
    PROVE  Only(seq, S) = Only(seq, R)
<1> DEFINE Ss == {s \in Seq(T) : Only(s, S) = Only(s, R)}
<1>1. <<>> \in Ss
    BY OnlyEmpty, EmptySeq
<1>2. ASSUME NEW s \in Seq(T), NEW x \in T, s \in Ss PROVE Append(s, x) \in Ss
    <2>1. Append(s, x) \in Seq(T)
        BY AppendProperties
    <2>2. Only(Append(s, x), S) = IF x \in S THEN Append(Only(s, S), x) ELSE Only(s, S)
        BY OnlyAppend
    <2>3. Only(Append(s, x), R) = IF x \in R THEN Append(Only(s, R), x) ELSE Only(s, R)
        BY OnlyAppend
    <2>4. Only(s, S) = Only(s, R) /\ (x \in S <=> x \in R)
        BY <1>2
    <2>5. Only(Append(s, x), S) = Only(Append(s, x), R)
        BY <2>2, <2>3, <2>4
    <2> QED
        BY <2>1, <2>5
<1> HIDE DEF Ss
<1>3. seq \in Ss
    BY <1>1, <1>2, SequencesFollow
<1> QED
    BY <1>3 DEF Ss

\* A filter that takes everything, and one that takes nothing.
LEMMA OnlyAll ==
    ASSUME NEW T, NEW seq \in Seq(T), NEW S, T \subseteq S
    PROVE  Only(seq, S) = seq
<1> DEFINE Ss == {s \in Seq(T) : Only(s, S) = s}
<1>1. <<>> \in Ss
    BY OnlyEmpty, EmptySeq
<1>2. ASSUME NEW s \in Seq(T), NEW x \in T, s \in Ss PROVE Append(s, x) \in Ss
    <2>1. Append(s, x) \in Seq(T)
        BY AppendProperties
    <2>2. Only(Append(s, x), S) = Append(s, x)
        BY <1>2, OnlyAppend
    <2> QED
        BY <2>1, <2>2
<1> HIDE DEF Ss
<1>3. seq \in Ss
    BY <1>1, <1>2, SequencesFollow
<1> QED
    BY <1>3 DEF Ss

LEMMA OnlyNone ==
    ASSUME NEW T, NEW seq \in Seq(T), NEW S, T \cap S = {}
    PROVE  Only(seq, S) = <<>>
<1> DEFINE Ss == {s \in Seq(T) : Only(s, S) = <<>>}
<1>1. <<>> \in Ss
    BY OnlyEmpty, EmptySeq
<1>2. ASSUME NEW s \in Seq(T), NEW x \in T, s \in Ss PROVE Append(s, x) \in Ss
    <2>1. Append(s, x) \in Seq(T) /\ x \notin S
        BY AppendProperties
    <2>2. Only(Append(s, x), S) = <<>>
        BY <1>2, <2>1, OnlyAppend
    <2> QED
        BY <2>1, <2>2
<1> HIDE DEF Ss
<1>3. seq \in Ss
    BY <1>1, <1>2, SequencesFollow
<1> QED
    BY <1>3 DEF Ss

\* Filters compose.
LEMMA OnlyOnly ==
    ASSUME NEW T, NEW seq \in Seq(T), NEW S, NEW R
    PROVE  Only(Only(seq, S), R) = Only(seq, S \cap R)
<1> DEFINE Ss == {s \in Seq(T) : Only(Only(s, S), R) = Only(s, S \cap R)}
<1>1. <<>> \in Ss
    BY OnlyEmpty, EmptySeq
<1>2. ASSUME NEW s \in Seq(T), NEW x \in T, s \in Ss PROVE Append(s, x) \in Ss
    <2>1. Append(s, x) \in Seq(T) /\ Only(s, S) \in Seq(T)
        BY AppendProperties, OnlySeq
    <2>2. Only(Append(Only(s, S), x), R)
            = IF x \in R THEN Append(Only(Only(s, S), R), x) ELSE Only(Only(s, S), R)
        BY <2>1, OnlyAppend
    <2>3. Only(Append(s, x), S) = IF x \in S THEN Append(Only(s, S), x) ELSE Only(s, S)
        BY OnlyAppend
    <2>4. Only(Append(s, x), S \cap R)
            = IF x \in S \cap R THEN Append(Only(s, S \cap R), x) ELSE Only(s, S \cap R)
        BY OnlyAppend
    <2>5. Only(Only(s, S), R) = Only(s, S \cap R)
        BY <1>2
    <2>6. Only(Only(Append(s, x), S), R) = Only(Append(s, x), S \cap R)
        <3>1. CASE x \in S
            <4>1. Only(Only(Append(s, x), S), R) = Only(Append(Only(s, S), x), R)
                BY <2>3, <3>1
            <4>2. x \in S \cap R <=> x \in R
                BY <3>1
            <4> QED
                BY <2>2, <2>4, <2>5, <4>1, <4>2
        <3>2. CASE x \notin S
            <4>1. Only(Only(Append(s, x), S), R) = Only(Only(s, S), R)
                BY <2>3, <3>2
            <4>2. x \notin S \cap R
                BY <3>2
            <4> QED
                BY <2>4, <2>5, <4>1, <4>2
        <3> QED
            BY <3>1, <3>2
    <2> QED
        BY <2>1, <2>6
<1> HIDE DEF Ss
<1>3. seq \in Ss
    BY <1>1, <1>2, SequencesFollow
<1> QED
    BY <1>3 DEF Ss

LEMMA ConcatAppend ==
    ASSUME NEW T, NEW s \in Seq(T), NEW q \in Seq(T), NEW x \in T
    PROVE  s \o Append(q, x) = Append(s \o q, x)
<1>1. <<x>> \in Seq(T) /\ s \o q \in Seq(T)
    BY ConcatProperties
<1>2. Append(q, x) = q \o <<x>> /\ Append(s \o q, x) = (s \o q) \o <<x>>
    BY <1>1, AppendIsConcat
<1> QED
    BY <1>1, <1>2, ConcatAssociative

\* A filter goes through a concatenation.
LEMMA OnlyConcat ==
    ASSUME NEW T, NEW seq \in Seq(T), NEW more \in Seq(T), NEW S
    PROVE  Only(seq \o more, S) = Only(seq, S) \o Only(more, S)
<1> DEFINE Ss == {s \in Seq(T) : Only(seq \o s, S) = Only(seq, S) \o Only(s, S)}
<1>1. Only(seq, S) \in Seq(T)
    BY OnlySeq
<1>2. <<>> \in Ss
    <2>1. <<>> \in Seq(T) /\ Only(<<>>, S) = <<>>
        BY OnlyEmpty, EmptySeq
    <2>2. seq \o <<>> = seq /\ Only(seq, S) \o <<>> = Only(seq, S)
        BY <1>1, ConcatEmptySeq
    <2> QED
        BY <2>1, <2>2
<1>3. ASSUME NEW s \in Seq(T), NEW x \in T, s \in Ss PROVE Append(s, x) \in Ss
    <2>1. Append(s, x) \in Seq(T) /\ seq \o s \in Seq(T) /\ Only(s, S) \in Seq(T)
        BY AppendProperties, ConcatProperties, OnlySeq
    <2>2. seq \o Append(s, x) = Append(seq \o s, x)
        BY ConcatAppend
    <2>3. Only(Append(seq \o s, x), S)
            = IF x \in S THEN Append(Only(seq \o s, S), x) ELSE Only(seq \o s, S)
        BY <2>1, OnlyAppend
    <2>4. Only(Append(s, x), S) = IF x \in S THEN Append(Only(s, S), x) ELSE Only(s, S)
        BY OnlyAppend
    <2>5. Only(seq, S) \o Append(Only(s, S), x) = Append(Only(seq, S) \o Only(s, S), x)
        BY <1>1, <2>1, ConcatAppend
    <2>6. Only(seq \o s, S) = Only(seq, S) \o Only(s, S)
        BY <1>3
    <2>7. Only(seq \o Append(s, x), S) = Only(seq, S) \o Only(Append(s, x), S)
        BY <2>2, <2>3, <2>4, <2>5, <2>6
    <2> QED
        BY <2>1, <2>7
<1> HIDE DEF Ss
<1>4. more \in Ss
    BY <1>2, <1>3, SequencesFollow
<1> QED
    BY <1>4 DEF Ss
-----------------------------------------------------------------------------
(* Drawing order.                                                             *)

BlocksIn(T) == {s \in T : s.kind = "redact"}
RestIn(T) == T \ BlocksIn(T)

\* In drawing order: blocks, then everything else.
Layered(x, T) == \E a \in Seq(BlocksIn(T)), b \in Seq(RestIn(T)) : x = a \o b

LEMMA MembersOf ==
    ASSUME NEW T, NEW x \in Seq(T)
    PROVE  Members(x) \subseteq T /\ x \in Seq(Members(x))
<1>1. Members(x) \subseteq T
    BY ElementOfSeq, LenProperties DEF Members
<1>2. /\ Len(x) \in Nat /\ DOMAIN x = 1..Len(x) /\ x = [i \in 1..Len(x) |-> x[i]]
    BY LenProperties
<1>3. \A i \in 1..Len(x) : x[i] \in Members(x)
    BY <1>2 DEF Members
<1>4. [i \in 1..Len(x) |-> x[i]] \in Seq(Members(x))
    BY <1>2, <1>3, IsASeq
<1> QED
    BY <1>1, <1>2, <1>4

LEMMA OnlyOfMembers ==
    ASSUME NEW T, NEW x \in Seq(T), NEW H
    PROVE  Only(x, Members(x) \ H) = Only(x, T \ H)
<1>1. x \in Seq(Members(x)) /\ Members(x) \subseteq T
    BY MembersOf
<1>2. \A s \in Members(x) : s \in Members(x) \ H <=> s \in T \ H
    BY <1>1
<1> QED
    BY <1>1, <1>2, OnlyAlike

\* The same drawing order, whichever set the shapes are taken from.
LEMMA RenderOrderIs ==
    ASSUME NEW T, NEW x \in Seq(T)
    PROVE  RenderOrder(x) = Only(x, BlocksIn(T)) \o Only(x, RestIn(T))
<1>1. x \in Seq(Members(x)) /\ Members(x) \subseteq T
    BY MembersOf
<1>2. \A s \in Members(x) : s \in Blocks(x) <=> s \in BlocksIn(T)
    BY <1>1 DEF Blocks, BlocksIn
<1>3. \A s \in Members(x) : s \in Members(x) \ Blocks(x) <=> s \in RestIn(T)
    BY <1>1, <1>2 DEF RestIn
<1>4. Only(x, Blocks(x)) = Only(x, BlocksIn(T))
    BY <1>1, <1>2, OnlyAlike
<1>5. Only(x, Members(x) \ Blocks(x)) = Only(x, RestIn(T))
    BY <1>1, <1>3, OnlyAlike
<1> QED
    BY <1>4, <1>5 DEF RenderOrder

LEMMA KindsApart ==
    ASSUME NEW T
    PROVE  /\ BlocksIn(T) \subseteq T /\ RestIn(T) \subseteq T
           /\ BlocksIn(T) \cap RestIn(T) = {}
           /\ T \cap BlocksIn(T) = BlocksIn(T) /\ T \cap RestIn(T) = RestIn(T)
BY DEF BlocksIn, RestIn

\* It sorts.
LEMMA RenderOrderSorts ==
    ASSUME NEW T, NEW x \in Seq(T)
    PROVE  RenderOrder(x) \in Seq(T) /\ Layered(RenderOrder(x), T)
<1>1. Only(x, BlocksIn(T)) \in Seq(BlocksIn(T)) /\ Only(x, RestIn(T)) \in Seq(RestIn(T))
    BY OnlyKept, KindsApart
<1>2. Only(x, BlocksIn(T)) \in Seq(T) /\ Only(x, RestIn(T)) \in Seq(T)
    BY OnlySeq
<1> QED
    BY <1>1, <1>2, RenderOrderIs, ConcatProperties DEF Layered

LEMMA SplitIsSeq ==
    ASSUME NEW T, NEW a \in Seq(BlocksIn(T)), NEW b \in Seq(RestIn(T))
    PROVE  a \in Seq(T) /\ b \in Seq(T) /\ a \o b \in Seq(T)
<1>1. a \in Seq(T) /\ b \in Seq(T)
    BY KindsApart, SeqMonotonic
<1> QED
    BY <1>1, ConcatProperties

LEMMA SplitIsSorted ==
    ASSUME NEW T, NEW a \in Seq(BlocksIn(T)), NEW b \in Seq(RestIn(T))
    PROVE  Only(a \o b, BlocksIn(T)) = a /\ Only(a \o b, RestIn(T)) = b
<1>1. a \in Seq(T) /\ b \in Seq(T)
    BY SplitIsSeq
<1>2. /\ Only(a, BlocksIn(T)) = a /\ Only(b, BlocksIn(T)) = <<>>
      /\ Only(a, RestIn(T)) = <<>> /\ Only(b, RestIn(T)) = b
    <2>1. Only(a, BlocksIn(T)) = a /\ Only(b, RestIn(T)) = b
        BY OnlyAll
    <2>2. Only(b, BlocksIn(T)) = <<>> /\ Only(a, RestIn(T)) = <<>>
        BY KindsApart, OnlyNone
    <2> QED
        BY <2>1, <2>2
<1>3. a \o <<>> = a /\ <<>> \o b = b
    BY ConcatEmptySeq
<1>4. Only(a \o b, BlocksIn(T)) = Only(a, BlocksIn(T)) \o Only(b, BlocksIn(T))
    BY <1>1, OnlyConcat
<1>5. Only(a \o b, RestIn(T)) = Only(a, RestIn(T)) \o Only(b, RestIn(T))
    BY <1>1, OnlyConcat
<1> QED
    BY <1>2, <1>3, <1>4, <1>5

\* What is sorted is its own drawing order.
LEMMA LayeredStays ==
    ASSUME NEW T, NEW x, Layered(x, T)
    PROVE  RenderOrder(x) = x
<1>1. PICK a \in Seq(BlocksIn(T)), b \in Seq(RestIn(T)) : x = a \o b
    BY DEF Layered
<1>2. x \in Seq(T)
    BY <1>1, SplitIsSeq
<1>3. RenderOrder(x) = Only(x, BlocksIn(T)) \o Only(x, RestIn(T))
    BY <1>2, RenderOrderIs
<1>4. Only(x, BlocksIn(T)) = a /\ Only(x, RestIn(T)) = b
    BY <1>1, SplitIsSorted
<1> QED
    BY <1>1, <1>3, <1>4

LEMMA LayeredGrows ==
    ASSUME NEW T, NEW U, T \subseteq U, NEW x, Layered(x, T)
    PROVE  Layered(x, U)
<1>1. PICK a \in Seq(BlocksIn(T)), b \in Seq(RestIn(T)) : x = a \o b
    BY DEF Layered
<1>2. BlocksIn(T) \subseteq BlocksIn(U) /\ RestIn(T) \subseteq RestIn(U)
    BY DEF BlocksIn, RestIn
<1>3. a \in Seq(BlocksIn(U)) /\ b \in Seq(RestIn(U))
    BY <1>2, SeqMonotonic
<1> QED
    BY <1>1, <1>3 DEF Layered

LEMMA LayeredOnly ==
    ASSUME NEW T, NEW x, Layered(x, T), NEW S
    PROVE  Layered(Only(x, S), T)
<1>1. PICK a \in Seq(BlocksIn(T)), b \in Seq(RestIn(T)) : x = a \o b
    BY DEF Layered
<1>2. Only(x, S) = Only(a, S) \o Only(b, S)
    BY <1>1, SplitIsSeq, OnlyConcat
<1>3. Only(a, S) \in Seq(BlocksIn(T)) /\ Only(b, S) \in Seq(RestIn(T))
    BY OnlySeq
<1> QED
    BY <1>2, <1>3 DEF Layered

\* The two parts of a concatenation.
LEMMA Halves ==
    ASSUME NEW T, NEW a \in Seq(T), NEW b \in Seq(T)
    PROVE  SubSeq(a \o b, 1, Len(a)) = a /\ SubSeq(a \o b, Len(a) + 1, Len(a \o b)) = b
<1>1. Len(a) \in Nat /\ Len(b) \in Nat /\ a \o b \in Seq(T) /\ Len(a \o b) = Len(a) + Len(b)
    BY LenProperties, ConcatProperties
<1>2. SubSeq(a \o b, 1, Len(a)) = a
    <2>1. CASE Len(a) = 0
        <3>1. a = <<>>
            BY <2>1, EmptySeq
        <3>2. SubSeq(a \o b, 1, 0) = <<>>
            BY SubSeqEmpty
        <3> QED
            BY <2>1, <3>1, <3>2
    <2>2. CASE Len(a) # 0
        <3>1. 1 \in 1..Len(a) /\ Len(a) \in 1..Len(a)
            BY <1>1, <2>2
        <3> QED
            BY <3>1, SubSeqOfConcat1, SubSeqFull
    <2> QED
        BY <2>1, <2>2
<1>3. SubSeq(a \o b, Len(a) + 1, Len(a \o b)) = b
    <2>1. PICK n : n = Len(a)
        OBVIOUS
    <2>2. PICK m : m = Len(b)
        OBVIOUS
    <2>3. CASE m = 0
        <3>1. b = <<>>
            BY <2>3, <2>2, EmptySeq
        <3>2. n + 1 \in Int /\ n \in Int /\ n < n + 1
            BY <1>1, <2>1
        <3>3. SubSeq(a \o b, n + 1, n) = <<>>
            BY <3>2, SubSeqEmpty
        <3>4. Len(a \o b) = n
            BY <1>1, <2>1, <2>2, <2>3
        <3> QED
            BY <2>1, <3>1, <3>3, <3>4
    <2>4. CASE m # 0
        <3>1. n + 1 \in (n + 1)..(n + m) /\ n + m \in (n + 1)..(n + m) /\ (n + 1) - n = 1 /\ (n + m) - n = m
            BY <1>1, <2>1, <2>2, <2>4
        <3>2. SubSeq(a \o b, n + 1, n + m) = SubSeq(b, (n + 1) - n, (n + m) - n)
            BY <2>1, <2>2, <3>1, SubSeqOfConcat2
        <3>3. SubSeq(b, 1, m) = b
            BY <2>2, SubSeqFull
        <3> QED
            BY <1>1, <2>1, <2>2, <3>1, <3>2, <3>3
    <2> QED
        BY <2>3, <2>4
<1> QED
    BY <1>2, <1>3

\* Where a new shape goes.
LEMMA AddShapeTo ==
    ASSUME NEW T, NEW a \in Seq(BlocksIn(T)), NEW b \in Seq(RestIn(T)), NEW s \in T
    PROVE  AddShape(a \o b, s) = IF s \in BlocksIn(T) THEN Append(a, s) \o b ELSE a \o Append(b, s)
<1>1. a \in Seq(T) /\ b \in Seq(T) /\ a \o b \in Seq(T)
    BY SplitIsSeq
<1>2. CASE s \notin BlocksIn(T)
    <2>1. s.kind # "redact"
        BY <1>2 DEF BlocksIn
    <2>2. AddShape(a \o b, s) = Append(a \o b, s)
        BY <2>1 DEF AddShape
    <2>3. Append(a \o b, s) = a \o Append(b, s)
        <3>1. PICK q : q = a \o Append(b, s)
            OBVIOUS
        <3>2. q = Append(a \o b, s)
            BY <1>1, <3>1, ConcatAppend
        <3> QED
            BY <3>1, <3>2
    <2> QED
        BY <1>2, <2>2, <2>3
<1>3. CASE s \in BlocksIn(T)
    <2>1. s.kind = "redact"
        BY <1>3 DEF BlocksIn
    <2>2. PICK x : x = a \o b
        OBVIOUS
    <2>3. Only(x, Blocks(x)) = a
        <3>1. x \in Seq(Members(x)) /\ Members(x) \subseteq T
            BY <1>1, <2>2, MembersOf
        <3>2. \A o \in Members(x) : o \in Blocks(x) <=> o \in BlocksIn(T)
            BY <3>1 DEF Blocks, BlocksIn
        <3>3. Only(x, Blocks(x)) = Only(x, BlocksIn(T))
            BY <3>1, <3>2, OnlyAlike
        <3> QED
            BY <2>2, <3>3, SplitIsSorted
    <2>4. AddShape(x, s) = SubSeq(x, 1, Len(a)) \o <<s>> \o SubSeq(x, Len(a) + 1, Len(x))
        BY <2>1, <2>3 DEF AddShape
    <2>5. SubSeq(x, 1, Len(a)) = a /\ SubSeq(x, Len(a) + 1, Len(x)) = b
        BY <1>1, <2>2, Halves
    <2>6. Append(a, s) = a \o <<s>>
        BY <1>1, AppendIsConcat
    <2> QED
        BY <1>3, <2>2, <2>4, <2>5, <2>6
<1> QED
    BY <1>2, <1>3

LEMMA AddShapeKeepsOrder ==
    ASSUME NEW T, NEW x, Layered(x, T), NEW s \in T
    PROVE  Layered(AddShape(x, s), T) /\ AddShape(x, s) \in Seq(T)
<1>1. PICK a \in Seq(BlocksIn(T)), b \in Seq(RestIn(T)) : x = a \o b
    BY DEF Layered
<1>2. AddShape(x, s) = IF s \in BlocksIn(T) THEN Append(a, s) \o b ELSE a \o Append(b, s)
    BY <1>1, AddShapeTo
<1>3. CASE s \in BlocksIn(T)
    <2>1. Append(a, s) \in Seq(BlocksIn(T))
        BY <1>3, AppendProperties
    <2>2. AddShape(x, s) = Append(a, s) \o b
        BY <1>2, <1>3
    <2>3. Append(a, s) \o b \in Seq(T)
        BY <2>1, SplitIsSeq
    <2>4. Layered(Append(a, s) \o b, T)
        BY <2>1 DEF Layered
    <2> QED
        BY <2>2, <2>3, <2>4
<1>4. CASE s \notin BlocksIn(T)
    <2>1. Append(b, s) \in Seq(RestIn(T))
        <3>1. s \in RestIn(T)
            BY <1>4 DEF RestIn
        <3> QED
            BY <3>1, AppendProperties
    <2>2. AddShape(x, s) = a \o Append(b, s)
        BY <1>2, <1>4
    <2>3. a \o Append(b, s) \in Seq(T)
        BY <2>1, SplitIsSeq
    <2>4. Layered(a \o Append(b, s), T)
        BY <2>1 DEF Layered
    <2> QED
        BY <2>2, <2>3, <2>4
<1> QED
    BY <1>3, <1>4

\* Who does not look at the new shape sees no change.
LEMMA AddShapeAside ==
    ASSUME NEW T, NEW x, Layered(x, T), NEW s \in T, NEW S, s \notin S
    PROVE  Only(AddShape(x, s), S) = Only(x, S)
<1>1. PICK a \in Seq(BlocksIn(T)), b \in Seq(RestIn(T)) : x = a \o b
    BY DEF Layered
<1>2. AddShape(x, s) = IF s \in BlocksIn(T) THEN Append(a, s) \o b ELSE a \o Append(b, s)
    BY <1>1, AddShapeTo
<1>3. a \in Seq(T) /\ b \in Seq(T)
    BY SplitIsSeq
<1>4. Append(a, s) \in Seq(T) /\ Append(b, s) \in Seq(T)
    BY <1>3, AppendProperties
<1>5. Only(Append(a, s), S) = Only(a, S) /\ Only(Append(b, s), S) = Only(b, S)
    BY <1>3, OnlyAppend
<1>6. Only(x, S) = Only(a, S) \o Only(b, S)
    BY <1>1, <1>3, OnlyConcat
<1>7. Only(Append(a, s) \o b, S) = Only(a, S) \o Only(b, S)
    <2>1. Only(Append(a, s) \o b, S) = Only(Append(a, s), S) \o Only(b, S)
        <3>1. PICK more : more = Append(a, s)
            OBVIOUS
        <3>2. more \in Seq(T)
            BY <1>4, <3>1
        <3>3. Only(more \o b, S) = Only(more, S) \o Only(b, S)
            BY <1>3, <3>2, OnlyConcat
        <3> QED
            BY <3>1, <3>3
    <2> QED
        BY <1>5, <2>1
<1>8. Only(a \o Append(b, s), S) = Only(a, S) \o Only(b, S)
    <2>1. Only(a \o Append(b, s), S) = Only(a, S) \o Only(Append(b, s), S)
        <3>1. PICK more : more = Append(b, s)
            OBVIOUS
        <3>2. more \in Seq(T)
            BY <1>4, <3>1
        <3>3. Only(a \o more, S) = Only(a, S) \o Only(more, S)
            BY <1>3, <3>2, OnlyConcat
        <3> QED
            BY <3>1, <3>3
    <2> QED
        BY <1>5, <2>1
<1> QED
    BY <1>2, <1>6, <1>7, <1>8

\* What is left without a shape.
LEMMA DroppedIs ==
    ASSUME NEW T, NEW x \in Seq(T), NEW s
    PROVE  /\ Dropped(x, s) = Only(x, T \ {s})
           /\ Dropped(x, s) \in Seq(T)
           /\ Layered(x, T) => Layered(Dropped(x, s), T)
<1>1. Dropped(x, s) = Only(x, T \ {s})
    BY OnlyOfMembers DEF Dropped
<1> QED
    BY <1>1, OnlySeq, LayeredOnly

\* A shape that changes in its place and keeps its kind.
LEMMA ReplacedKeepsOrder ==
    ASSUME NEW T, NEW x, Layered(x, T), NEW i \in DOMAIN x, NEW s \in T, s.kind = x[i].kind
    PROVE  Layered([x EXCEPT ![i] = s], T) /\ [x EXCEPT ![i] = s] \in Seq(T)
<1>1. PICK a \in Seq(BlocksIn(T)), b \in Seq(RestIn(T)) : x = a \o b
    BY DEF Layered
<1>2. a \in Seq(T) /\ b \in Seq(T) /\ x \in Seq(T)
    BY <1>1, SplitIsSeq
<1>3. /\ Len(a) \in Nat /\ Len(b) \in Nat /\ Len(x) = Len(a) + Len(b) /\ DOMAIN x = 1..Len(x)
      /\ DOMAIN a = 1..Len(a) /\ DOMAIN b = 1..Len(b)
    BY <1>1, <1>2, LenProperties, ConcatProperties
<1>4. \A j \in 1..(Len(a) + Len(b)) : x[j] = IF j <= Len(a) THEN a[j] ELSE b[j - Len(a)]
    BY <1>1, <1>2, ConcatProperties
<1>5. PICK y : y = [x EXCEPT ![i] = s]
    OBVIOUS
<1>6. y \in Seq(T) /\ Len(y) = Len(x) /\ \A j \in 1..Len(x) : y[j] = IF j = i THEN s ELSE x[j]
    <2>1. i \in 1..Len(x)
        BY <1>3
    <2> QED
        BY <1>2, <1>3, <1>5, <2>1, ExceptSeq
<1>7. CASE i <= Len(a)
    <2>1. i \in 1..Len(a) /\ x[i] = a[i] /\ a[i] \in BlocksIn(T)
        BY <1>3, <1>4, <1>7, ElementOfSeq
    <2>2. s \in BlocksIn(T)
        BY <2>1 DEF BlocksIn
    <2>3. PICK c : c = [a EXCEPT ![i] = s]
        OBVIOUS
    <2>4. c \in Seq(BlocksIn(T)) /\ Len(c) = Len(a) /\ \A j \in 1..Len(a) : c[j] = IF j = i THEN s ELSE a[j]
        BY <2>1, <2>2, <2>3, ExceptSeq
    <2>5. c \in Seq(T)
        BY <2>4, KindsApart, SeqMonotonic
    <2>6. /\ c \o b \in Seq(T) /\ Len(c \o b) = Len(c) + Len(b)
           /\ \A j \in 1..(Len(c) + Len(b)) :
                (c \o b)[j] = IF j <= Len(c) THEN c[j] ELSE b[j - Len(c)]
        BY <1>2, <2>5, ConcatProperties
    <2>7. /\ c \o b \in Seq(T) /\ Len(c \o b) = Len(a) + Len(b)
          /\ \A j \in 1..(Len(a) + Len(b)) : (c \o b)[j] = IF j <= Len(a) THEN c[j] ELSE b[j - Len(a)]
        BY <2>4, <2>6
    <2>8. \A j \in 1..Len(y) : y[j] = (c \o b)[j]
        <3> SUFFICES ASSUME NEW j \in 1..(Len(a) + Len(b)) PROVE y[j] = (c \o b)[j]
            BY <1>3, <1>6
        <3>1. CASE j <= Len(a)
            <4>1. j \in 1..Len(a) /\ j \in 1..Len(x)
                BY <1>3, <3>1
            <4> QED
                BY <1>4, <1>6, <2>4, <2>7, <3>1, <4>1
        <3>2. CASE ~(j <= Len(a))
            <4>1. j \in 1..Len(x) /\ j # i
                BY <1>3, <1>7, <3>2
            <4> QED
                BY <1>4, <1>6, <2>7, <3>2, <4>1
        <3> QED
            BY <3>1, <3>2
    <2>9. y = c \o b
        BY <1>3, <1>6, <2>7, <2>8, SeqEqual
    <2> QED
        BY <1>5, <1>6, <2>4, <2>9 DEF Layered
<1>8. CASE ~(i <= Len(a))
    <2>1. PICK k : k = i - Len(a)
        OBVIOUS
    <2>2. i \in Nat /\ k \in 1..Len(b) /\ x[i] = b[k] /\ b[k] \in RestIn(T)
        <3>1. i \in 1..(Len(a) + Len(b)) /\ k \in 1..Len(b)
            BY <1>3, <1>8, <2>1
        <3> QED
            BY <1>3, <1>4, <1>8, <2>1, <3>1, ElementOfSeq
    <2>3. s \in RestIn(T)
        BY <2>2 DEF BlocksIn, RestIn
    <2>4. PICK c : c = [b EXCEPT ![k] = s]
        OBVIOUS
    <2>5. c \in Seq(RestIn(T)) /\ Len(c) = Len(b) /\ \A j \in 1..Len(b) : c[j] = IF j = k THEN s ELSE b[j]
        BY <2>2, <2>3, <2>4, ExceptSeq
    <2>6. c \in Seq(T)
        BY <2>5, KindsApart, SeqMonotonic
    <2>7. /\ a \o c \in Seq(T) /\ Len(a \o c) = Len(a) + Len(c)
           /\ \A j \in 1..(Len(a) + Len(c)) :
                (a \o c)[j] = IF j <= Len(a) THEN a[j] ELSE c[j - Len(a)]
        BY <1>2, <2>6, ConcatProperties
    <2>8. /\ a \o c \in Seq(T) /\ Len(a \o c) = Len(a) + Len(b)
          /\ \A j \in 1..(Len(a) + Len(b)) : (a \o c)[j] = IF j <= Len(a) THEN a[j] ELSE c[j - Len(a)]
        BY <2>5, <2>7
    <2>9. \A j \in 1..Len(y) : y[j] = (a \o c)[j]
        <3> SUFFICES ASSUME NEW j \in 1..(Len(a) + Len(b)) PROVE y[j] = (a \o c)[j]
            BY <1>3, <1>6
        <3>1. CASE j <= Len(a)
            <4>1. j \in 1..Len(x) /\ j # i
                BY <1>3, <1>8, <3>1
            <4> QED
                BY <1>4, <1>6, <2>8, <3>1, <4>1
        <3>2. CASE ~(j <= Len(a))
            <4>1. j \in 1..Len(x) /\ j - Len(a) \in 1..Len(b) /\ (j = i <=> j - Len(a) = k)
                BY <1>3, <2>1, <2>2, <3>2
            <4> QED
                BY <1>4, <1>6, <2>5, <2>8, <3>2, <4>1
        <3> QED
            BY <3>1, <3>2
    <2>10. y = a \o c
        BY <1>3, <1>6, <2>8, <2>9, SeqEqual
    <2> QED
        BY <1>5, <1>6, <2>5, <2>10 DEF Layered
<1> QED
    BY <1>7, <1>8
-----------------------------------------------------------------------------
(* The inductive invariant: of one tab, as a record r, over the revisions     *)
(* stored and the number of edits made.                                       *)

Crops == {CropOf(g) : g \in Frames} \cup {NoCrop}
Docs(S) == [shapes : Seq(S), crop : Crops]

Hidden(r) == {r.drawing} \cup r.discarded
Visible(H, shapes) == Only(shapes, Members(shapes) \ H)

\* Document d shows what document e does, those in H aside.
Same(H, d, e) == Visible(H, d.shapes) = Visible(H, RenderOrder(e.shapes)) /\ d.crop = e.crop

\* A revision that is stored and whose shapes are all in S.
Known(S, docs, rev) == rev \in 0..(Len(docs) - 1) /\ docs[rev + 1] \in Docs(S)

Drawn(s, n) == {"id", "kind"} \subseteq DOMAIN s /\ s.id \in 1..n

PutFits(c, S, docs) == c.kind = "put" => Known(S, docs, c.rev) /\ c.doc \in Docs(S)

CallFits(c, S, docs) ==
    /\ PutFits(c, S, docs)
    /\ c.kind = "answer" /\ c.code = 200 => Known(S, docs, c.rev)
    /\ c.kind = "reload" /\ c.code = 200 =>
         c.rev \in 0..(Len(docs) - 1) /\ c.doc = docs[c.rev + 1]

CanvasFits(r, docs) ==
    /\ r.doc \in Docs(r.seen) /\ Layered(r.doc.shapes, r.seen)
    /\ r.undo \in Seq(Docs(r.seen)) /\ r.redo \in Seq(Docs(r.seen))
    /\ Known(r.seen, docs, r.rev)

\* What holds of a tab whether or not there is something to save.
Held(r, docs, n) ==
    /\ DOMAIN r = DOMAIN OpenTab
    /\ \A s \in r.seen : Drawn(s, n)
    /\ r.open => CanvasFits(r, docs)
    /\ CallFits(r.call, r.seen, docs)
    /\ PutFits(r.beacon, r.seen, docs)

\* What the canvas shows: the document of its revision, or the one being sent.
Unchanged(r, docs) == ~r.adrift => Same(Hidden(r), r.doc, docs[r.rev + 1])
Sent(r) == r.call.kind = "put" => Same(Hidden(r), r.doc, r.call.doc)
Landed(r, docs) ==
    r.call.kind = "answer" /\ r.call.code = 200 => Same(Hidden(r), r.doc, docs[r.call.rev + 1])

Clean(r, docs) ==
    r.open /\ ~r.dirty /\ ~r.gone => /\ ~r.saving => Unchanged(r, docs)
                                     /\ Sent(r) /\ Landed(r, docs)

Fits(r, docs, n) == Held(r, docs, n) /\ Clean(r, docs)

AllSeen == UNION {tab[t].seen : t \in Tabs}

ServerFits ==
    /\ DOMAIN server = {"viewId", "live", "docs"}
    /\ server.docs \in Seq(Docs(AllSeen)) /\ Len(server.docs) >= 1

EditorInv ==
    /\ edits \in Nat /\ ServerFits
    /\ tab = [t \in Tabs |-> tab[t]]
    /\ \A t \in Tabs : Fits(tab[t], server.docs, edits)
-----------------------------------------------------------------------------
(* Documents.                                                                 *)

LEMMA DocsAre ==
    ASSUME NEW S, NEW d
    PROVE  /\ d \in Docs(S) => d.shapes \in Seq(S) /\ d.crop \in Crops
           /\ d \in Docs(S) => DOMAIN d = {"shapes", "crop"}
BY DEF Docs

LEMMA DocsGrow ==
    ASSUME NEW S, NEW U, S \subseteq U
    PROVE  \A d \in Docs(S) : d \in Docs(U)
BY SeqMonotonic DEF Docs

LEMMA HistoryGrows ==
    ASSUME NEW S, NEW U, S \subseteq U
    PROVE  \A h \in Seq(Docs(S)) : h \in Seq(Docs(U))
<1>1. Docs(S) \subseteq Docs(U)
    BY DocsGrow
<1> QED
    BY <1>1, SeqMonotonic

LEMMA EmptyDocIs ==
    ASSUME NEW S
    PROVE  EmptyDoc \in Docs(S) /\ Layered(EmptyDoc.shapes, S)
<1>1. <<>> \in Seq(S) /\ <<>> \in Seq(BlocksIn(S)) /\ <<>> \in Seq(RestIn(S))
    BY EmptySeq
<1>2. EmptyDoc.shapes = <<>> /\ EmptyDoc \in Docs(S)
    BY <1>1 DEF EmptyDoc, Docs, Crops
<1>3. <<>> \o <<>> = <<>>
    BY <1>1, ConcatEmptySeq
<1> QED
    BY <1>1, <1>2, <1>3 DEF Layered

LEMMA LoadedIs ==
    ASSUME NEW S, NEW d \in Docs(S)
    PROVE  /\ Loaded(d) \in Docs(S) /\ Layered(Loaded(d).shapes, S)
           /\ Loaded(d).shapes = RenderOrder(d.shapes) /\ Loaded(d).crop = d.crop
<1>1. d.shapes \in Seq(S) /\ d.crop \in Crops
    BY DocsAre
<1>2. RenderOrder(d.shapes) \in Seq(S) /\ Layered(RenderOrder(d.shapes), S)
    BY <1>1, RenderOrderSorts
<1> QED
    BY <1>1, <1>2 DEF Loaded, Docs

\* A canvas in drawing order shows itself; what was loaded shows what it is.
LEMMA ShowsItself ==
    ASSUME NEW S, NEW H, NEW d, Layered(d.shapes, S)
    PROVE  Same(H, d, d)
<1>1. RenderOrder(d.shapes) = d.shapes
    BY LayeredStays
<1> QED
    BY <1>1 DEF Same

LEMMA ShowsWhatWasLoaded ==
    ASSUME NEW S, NEW H, NEW d \in Docs(S)
    PROVE  Same(H, Loaded(d), d)
BY LoadedIs DEF Same

\* A shape hidden from both sides may come ...
LEMMA SameBesideNew ==
    ASSUME NEW S, NEW U, S \subseteq U, NEW H, NEW d \in Docs(S), Layered(d.shapes, S), NEW e \in Docs(S),
           NEW s \in U, s \notin S, NEW c, c.shapes = AddShape(d.shapes, s), c.crop = d.crop,
           NEW G, \A o \in S : o \in G <=> o \in H, s \in G, Same(H, d, e)
    PROVE  Same(G, c, e)
<1>1. d.shapes \in Seq(U) /\ Layered(d.shapes, U) /\ d.shapes \in Seq(S) /\ e.shapes \in Seq(S)
    BY DocsAre, SeqMonotonic, LayeredGrows
<1>2. c.shapes \in Seq(U)
    BY <1>1, AddShapeKeepsOrder
<1>3. Visible(G, c.shapes) = Only(c.shapes, U \ G)
    BY <1>2, OnlyOfMembers DEF Visible
<1>4. Only(c.shapes, U \ G) = Only(d.shapes, U \ G)
    <2>1. s \notin U \ G
        OBVIOUS
    <2> QED
        BY <1>1, <2>1, AddShapeAside
<1>5. Only(d.shapes, U \ G) = Only(d.shapes, S \ H)
    <2>1. \A o \in S : o \in U \ G <=> o \in S \ H
        OBVIOUS
    <2> QED
        BY <1>1, <2>1, OnlyAlike
<1>6. Visible(H, d.shapes) = Only(d.shapes, S \ H)
    BY <1>1, OnlyOfMembers DEF Visible
<1>7. PICK x : x = RenderOrder(e.shapes)
    OBVIOUS
<1>8. x \in Seq(S)
    BY <1>1, <1>7, RenderOrderSorts
<1>9. Visible(G, x) = Visible(H, x)
    <2>1. Visible(G, x) = Only(x, S \ G) /\ Visible(H, x) = Only(x, S \ H)
        BY <1>8, OnlyOfMembers DEF Visible
    <2>2. \A o \in S : o \in S \ G <=> o \in S \ H
        OBVIOUS
    <2>3. Only(x, S \ G) = Only(x, S \ H)
        BY <1>8, <2>2, OnlyAlike
    <2> QED
        BY <2>1, <2>3
<1> QED
    BY <1>3, <1>4, <1>5, <1>6, <1>7, <1>9 DEF Same

\* ... or go.
LEMMA SameWithoutDropped ==
    ASSUME NEW S, NEW H, NEW d \in Docs(S), NEW e \in Docs(S), NEW s, s \in H,
           NEW c, c.shapes = Dropped(d.shapes, s), c.crop = d.crop,
           NEW G, \A o \in S : o \in G <=> o \in H, Same(H, d, e)
    PROVE  Same(G, c, e)
<1>1. d.shapes \in Seq(S) /\ e.shapes \in Seq(S)
    BY DocsAre
<1>2. c.shapes = Only(d.shapes, S \ {s}) /\ c.shapes \in Seq(S)
    BY <1>1, DroppedIs
<1>3. Visible(G, c.shapes) = Only(c.shapes, S \ G)
    BY <1>2, OnlyOfMembers DEF Visible
<1>4. Only(c.shapes, S \ G) = Only(d.shapes, (S \ {s}) \cap (S \ G))
    BY <1>1, <1>2, OnlyOnly
<1>5. Only(d.shapes, (S \ {s}) \cap (S \ G)) = Only(d.shapes, S \ H)
    <2>1. \A o \in S : o \in (S \ {s}) \cap (S \ G) <=> o \in S \ H
        OBVIOUS
    <2> QED
        BY <1>1, <2>1, OnlyAlike
<1>6. Visible(H, d.shapes) = Only(d.shapes, S \ H)
    BY <1>1, OnlyOfMembers DEF Visible
<1>7. PICK x : x = RenderOrder(e.shapes)
    OBVIOUS
<1>8. x \in Seq(S)
    BY <1>1, <1>7, RenderOrderSorts
<1>9. Visible(G, x) = Visible(H, x)
    <2>1. Visible(G, x) = Only(x, S \ G) /\ Visible(H, x) = Only(x, S \ H)
        BY <1>8, OnlyOfMembers DEF Visible
    <2>2. \A o \in S : o \in S \ G <=> o \in S \ H
        OBVIOUS
    <2>3. Only(x, S \ G) = Only(x, S \ H)
        BY <1>8, <2>2, OnlyAlike
    <2> QED
        BY <2>1, <2>3
<1> QED
    BY <1>3, <1>4, <1>5, <1>6, <1>7, <1>9 DEF Same
-----------------------------------------------------------------------------
(* What a tab does to itself.                                                 *)

LEMMA FieldsAre ==
    DOMAIN OpenTab = {"open", "viewId", "rev", "doc", "undo", "redo", "drawing", "dirty", "saving",
                      "gone", "timer", "call", "rotation", "beacon", "seen", "discarded", "adrift"}
BY DEF OpenTab

\* Two tabs that agree on the fields a part speaks of.
LEMMA HeldElsewhere ==
    ASSUME NEW r, NEW q, NEW docs, NEW n, Held(r, docs, n), DOMAIN q = DOMAIN r,
           q.open = r.open, q.seen = r.seen, q.doc = r.doc, q.undo = r.undo, q.redo = r.redo,
           q.rev = r.rev, q.call = r.call, q.beacon = r.beacon
    PROVE  Held(q, docs, n)
BY DEF Held, CanvasFits

LEMMA CleanElsewhere ==
    ASSUME NEW r, NEW q, NEW docs, Clean(r, docs),
           q.open = r.open, q.doc = r.doc, q.rev = r.rev, q.call = r.call,
           q.drawing = r.drawing, q.discarded = r.discarded, q.dirty = r.dirty, q.gone = r.gone,
           q.saving = r.saving, q.adrift = r.adrift
    PROVE  Clean(q, docs)
<1>1. Hidden(q) = Hidden(r)
    BY DEF Hidden
<1> QED
    BY <1>1 DEF Clean, Unchanged, Sent, Landed

LEMMA DirtyIsClean ==
    ASSUME NEW r, NEW docs, r.dirty \/ r.gone \/ ~r.open
    PROVE  Clean(r, docs)
BY DEF Clean

\* The canvas is replaced.
LEMMA HeldRedrawn ==
    ASSUME NEW r, NEW q, NEW docs, NEW n, Held(r, docs, n), DOMAIN q = DOMAIN r,
           q.seen = r.seen, q.call = r.call, q.beacon = r.beacon,
           q.open => CanvasFits(q, docs)
    PROVE  Held(q, docs, n)
BY DEF Held

LEMMA MarkedFits ==
    ASSUME NEW r, NEW docs, NEW n, Held(r, docs, n)
    PROVE  Fits(MarkDirty(r), docs, n)
<1>1. PICK q : q = MarkDirty(r)
    OBVIOUS
<1>2. DOMAIN r = DOMAIN OpenTab
    BY DEF Held
<1>3. /\ DOMAIN q = DOMAIN r /\ q.dirty = TRUE
      /\ q.open = r.open /\ q.seen = r.seen /\ q.doc = r.doc /\ q.undo = r.undo /\ q.redo = r.redo
      /\ q.rev = r.rev /\ q.call = r.call /\ q.beacon = r.beacon
    BY <1>1, <1>2, FieldsAre DEF MarkDirty
<1>4. Held(q, docs, n)
    BY <1>3, HeldElsewhere
<1>5. Clean(q, docs)
    BY <1>3, DirtyIsClean
<1> QED
    BY <1>1, <1>4, <1>5 DEF Fits

\* A commit, which makes the tab dirty.
LEMMA CommittedFits ==
    ASSUME NEW r, NEW docs, NEW n, Held(r, docs, n), r.open
    PROVE  Fits(Committed(r), docs, n)
<1>1. PICK q : q = [r EXCEPT !.undo = Append(@, r.doc), !.redo = <<>>]
    OBVIOUS
<1>2. DOMAIN r = DOMAIN OpenTab /\ CanvasFits(r, docs)
    BY DEF Held
<1>3. /\ DOMAIN q = DOMAIN r /\ q.undo = Append(r.undo, r.doc) /\ q.redo = <<>>
      /\ q.open = r.open /\ q.seen = r.seen /\ q.doc = r.doc
      /\ q.rev = r.rev /\ q.call = r.call /\ q.beacon = r.beacon
    BY <1>1, <1>2, FieldsAre
<1>4. q.undo \in Seq(Docs(r.seen)) /\ q.redo \in Seq(Docs(r.seen))
    BY <1>2, <1>3, AppendProperties, EmptySeq DEF CanvasFits
<1>5. CanvasFits(q, docs)
    BY <1>2, <1>3, <1>4 DEF CanvasFits
<1>6. Held(q, docs, n)
    BY <1>3, <1>5, HeldRedrawn
<1>7. Committed(r) = MarkDirty(r) \/ Committed(r) = MarkDirty(q)
    BY <1>1 DEF Committed
<1> QED
    BY <1>6, <1>7, MarkedFits

\* A new document of the shapes there are.
LEMMA RedrawnFits ==
    ASSUME NEW r, NEW docs, NEW n, Held(r, docs, n), r.open,
           NEW d \in Docs(r.seen), Layered(d.shapes, r.seen)
    PROVE  Held([r EXCEPT !.doc = d], docs, n)
<1>1. PICK q : q = [r EXCEPT !.doc = d]
    OBVIOUS
<1>2. DOMAIN r = DOMAIN OpenTab /\ CanvasFits(r, docs)
    BY DEF Held
<1>3. /\ DOMAIN q = DOMAIN r /\ q.undo = r.undo /\ q.redo = r.redo /\ q.doc = d
      /\ q.open = r.open /\ q.seen = r.seen /\ q.rev = r.rev /\ q.call = r.call /\ q.beacon = r.beacon
    BY <1>1, <1>2, FieldsAre
<1>4. CanvasFits(q, docs)
    BY <1>2, <1>3 DEF CanvasFits
<1> QED
    BY <1>1, <1>3, <1>4, HeldRedrawn

\* What has been seen grows by shapes drawn.
LEMMA SeenGrows ==
    ASSUME NEW r, NEW docs, NEW n, NEW m, Held(r, docs, n), NEW U, r.seen \subseteq U,
           \A s \in U : Drawn(s, m)
    PROVE  Held([r EXCEPT !.seen = U], docs, m)
<1>1. PICK q : q = [r EXCEPT !.seen = U]
    OBVIOUS
<1>2. DOMAIN r = DOMAIN OpenTab
    BY DEF Held
<1>3. /\ DOMAIN q = DOMAIN r /\ q.undo = r.undo /\ q.redo = r.redo /\ q.doc = r.doc
      /\ q.open = r.open /\ q.seen = U /\ q.rev = r.rev /\ q.call = r.call /\ q.beacon = r.beacon
    BY <1>1, <1>2, FieldsAre
<1>4. \A d \in Docs(r.seen) : d \in Docs(U)
    BY DocsGrow
<1>5. \A rev : Known(r.seen, docs, rev) => Known(U, docs, rev)
    BY <1>4 DEF Known
<1>6. \A c : PutFits(c, r.seen, docs) => PutFits(c, U, docs)
    BY <1>4, <1>5 DEF PutFits
<1>7. ASSUME r.open PROVE CanvasFits(q, docs)
    <2>1. CanvasFits(r, docs)
        BY <1>7 DEF Held
    <2>2. r.doc \in Docs(U) /\ Layered(r.doc.shapes, U) /\ Known(U, docs, r.rev)
        BY <1>4, <1>5, <2>1, LayeredGrows DEF CanvasFits
    <2>3. r.undo \in Seq(Docs(U)) /\ r.redo \in Seq(Docs(U))
        BY <2>1, HistoryGrows DEF CanvasFits
    <2> QED
        BY <1>3, <2>2, <2>3 DEF CanvasFits
<1>8. CallFits(q.call, q.seen, docs) /\ PutFits(q.beacon, q.seen, docs)
    BY <1>3, <1>5, <1>6 DEF Held, CallFits
<1> QED
    BY <1>1, <1>2, <1>3, <1>7, <1>8 DEF Held

\* The server grows by a revision, the edits by some.
LEMMA DocsAppended ==
    ASSUME NEW r, NEW n \in Nat, NEW m \in Nat, n <= m, NEW D, NEW docs \in Seq(D), NEW d \in D,
           Fits(r, docs, n)
    PROVE  Fits(r, Append(docs, d), m)
<1>1. PICK more : more = Append(docs, d)
    OBVIOUS
<1>2. /\ Len(docs) \in Nat /\ Len(more) = Len(docs) + 1 /\ \A i \in 1..Len(docs) : more[i] = docs[i]
    BY <1>1, LenProperties, AppendProperties
<1>3. \A rev \in 0..(Len(docs) - 1) : rev \in 0..(Len(more) - 1) /\ more[rev + 1] = docs[rev + 1]
    BY <1>2
<1>4. \A S, rev : Known(S, docs, rev) => Known(S, more, rev) /\ more[rev + 1] = docs[rev + 1]
    BY <1>3 DEF Known
<1>5. \A s : Drawn(s, n) => Drawn(s, m)
    BY DEF Drawn
<1>6. \A c, S : PutFits(c, S, docs) => PutFits(c, S, more)
    BY <1>4 DEF PutFits
<1>7. CallFits(r.call, r.seen, more)
    BY <1>3, <1>4, <1>6 DEF Fits, Held, CallFits
<1>8. r.open => CanvasFits(r, more) /\ more[r.rev + 1] = docs[r.rev + 1]
    BY <1>4 DEF Fits, Held, CanvasFits
<1>9. Held(r, more, m)
    BY <1>5, <1>6, <1>7, <1>8 DEF Fits, Held
<1>10. Clean(r, more)
    <2>1. r.call.kind = "answer" /\ r.call.code = 200 => more[r.call.rev + 1] = docs[r.call.rev + 1]
        BY <1>4 DEF Fits, Held, CallFits
    <2>2. Clean(r, docs)
        BY DEF Fits
    <2>3. r.open /\ Unchanged(r, docs) => Unchanged(r, more)
        BY <1>8 DEF Unchanged
    <2>4. Landed(r, docs) => Landed(r, more)
        BY <2>1 DEF Landed
    <2> QED
        BY <2>2, <2>3, <2>4 DEF Clean
<1> QED
    BY <1>1, <1>9, <1>10 DEF Fits

LEMMA EditsGrow ==
    ASSUME NEW r, NEW n \in Nat, NEW m \in Nat, n <= m, NEW docs, Held(r, docs, n)
    PROVE  Held(r, docs, m)
BY DEF Held, Drawn
LEMMA DrawnIsNew ==
    ASSUME NEW r, NEW docs, NEW n \in Nat, Held(r, docs, n)
    PROVE  /\ NoShape \notin r.seen
           /\ \A s : s.id = n + 1 => s \notin r.seen
<1>1. \A s \in r.seen : s.id \in 1..n
    BY DEF Held, Drawn
<1>2. NoShape.id = 0
    BY DEF NoShape
<1>3. 0 \notin 1..n /\ n + 1 \notin 1..n
    OBVIOUS
<1> QED
    BY <1>1, <1>2, <1>3

\* What the tab compares its canvas with is of shapes it has seen.
LEMMA ComparedIsSeen ==
    ASSUME NEW r, NEW docs, NEW n, Held(r, docs, n), r.open
    PROVE  /\ r.doc \in Docs(r.seen) /\ Layered(r.doc.shapes, r.seen)
           /\ docs[r.rev + 1] \in Docs(r.seen)
           /\ r.call.kind = "put" => r.call.doc \in Docs(r.seen)
           /\ r.call.kind = "answer" /\ r.call.code = 200 => docs[r.call.rev + 1] \in Docs(r.seen)
BY DEF Held, CanvasFits, CallFits, PutFits, Known

\* A gesture puts its shape on the canvas.
LEMMA BegunFits ==
    ASSUME NEW r, NEW docs, NEW n \in Nat, Fits(r, docs, n), r.open, r.drawing = NoShape,
           NEW s, Drawn(s, n + 1), s.id = n + 1
    PROVE  Fits([r EXCEPT !.doc.shapes = AddShape(@, s), !.drawing = s, !.seen = @ \cup {s}], docs, n + 1)
<1>1. PICK q : q = [r EXCEPT !.doc.shapes = AddShape(@, s), !.drawing = s, !.seen = @ \cup {s}]
    OBVIOUS
<1>2. PICK U : U = r.seen \cup {s}
    OBVIOUS
<1>3. PICK wider : wider = [r EXCEPT !.seen = U]
    OBVIOUS
<1>4. PICK d : d = [r.doc EXCEPT !.shapes = AddShape(r.doc.shapes, s)]
    OBVIOUS
<1>5. PICK drawn : drawn = [wider EXCEPT !.doc = d]
    OBVIOUS
<1>6. Held(r, docs, n) /\ Clean(r, docs) /\ DOMAIN r = DOMAIN OpenTab
    BY DEF Fits, Held
<1>7. s \notin r.seen /\ NoShape \notin r.seen
    BY <1>6, DrawnIsNew
<1>8. Held(wider, docs, n + 1)
    <2>1. \A o \in U : Drawn(o, n + 1)
        <3>1. \A o \in r.seen : Drawn(o, n)
            BY <1>6 DEF Held
        <3>2. \A o \in r.seen : Drawn(o, n + 1)
            BY <3>1 DEF Drawn
        <3> QED
            BY <1>2, <3>2
    <2> QED
        BY <1>2, <1>3, <1>6, <2>1, SeenGrows
<1>9. DOMAIN wider = DOMAIN OpenTab /\ wider.open = r.open /\ wider.seen = U /\ wider.doc = r.doc
    BY <1>3, <1>6, FieldsAre
<1>10. r.doc \in Docs(r.seen) /\ Layered(r.doc.shapes, r.seen)
    BY <1>6, ComparedIsSeen
<1>11. d.shapes = AddShape(r.doc.shapes, s) /\ d.crop = r.doc.crop /\ d \in Docs(U) /\ Layered(d.shapes, U)
    <2>1. DOMAIN r.doc = {"shapes", "crop"} /\ r.doc.crop \in Crops
        BY <1>10, DocsAre
    <2>2. d.shapes = AddShape(r.doc.shapes, s) /\ d.crop = r.doc.crop /\ d = [shapes |-> d.shapes, crop |-> d.crop]
        BY <1>4, <2>1
    <2>3. Layered(r.doc.shapes, U)
        BY <1>2, <1>10, LayeredGrows
    <2>4. d.shapes \in Seq(U) /\ Layered(d.shapes, U)
        BY <1>2, <2>2, <2>3, AddShapeKeepsOrder
    <2> QED
        BY <2>1, <2>2, <2>4 DEF Docs
<1>12. Held(drawn, docs, n + 1)
    BY <1>5, <1>8, <1>9, <1>11, RedrawnFits
<1>13. /\ DOMAIN q = DOMAIN OpenTab /\ q.doc = d /\ q.drawing = s /\ q.seen = U
       /\ q.open = r.open /\ q.undo = r.undo /\ q.redo = r.redo /\ q.rev = r.rev /\ q.call = r.call
       /\ q.beacon = r.beacon /\ q.discarded = r.discarded /\ q.dirty = r.dirty /\ q.gone = r.gone
       /\ q.saving = r.saving /\ q.adrift = r.adrift
    BY <1>1, <1>2, <1>4, <1>6, FieldsAre
<1>14. /\ DOMAIN drawn = DOMAIN OpenTab /\ drawn.doc = d /\ drawn.seen = U
       /\ drawn.open = r.open /\ drawn.undo = r.undo /\ drawn.redo = r.redo /\ drawn.rev = r.rev
       /\ drawn.call = r.call /\ drawn.beacon = r.beacon
    BY <1>3, <1>5, <1>6, FieldsAre
<1>15. Held(q, docs, n + 1)
    <2>1. PICK m : m = n + 1
        OBVIOUS
    <2>2. Held(drawn, docs, m)
        BY <1>12, <2>1
    <2>3. Held(q, docs, m)
        BY <1>13, <1>14, <2>2, HeldElsewhere
    <2> QED
        BY <2>1, <2>3
<1>16. ASSUME NEW e \in Docs(r.seen), Same(Hidden(r), r.doc, e)
       PROVE  Same(Hidden(q), q.doc, e)
    <2>1. \A o \in r.seen : o \in Hidden(q) <=> o \in Hidden(r)
        BY <1>7, <1>13 DEF Hidden
    <2>2. s \in Hidden(q) /\ s \in U /\ r.seen \subseteq U
        BY <1>2, <1>13 DEF Hidden
    <2>3. Same(Hidden(q), d, e)
        BY <1>7, <1>10, <1>11, <1>16, <2>1, <2>2, SameBesideNew
    <2> QED
        BY <1>13, <2>3
<1>17. Clean(q, docs)
    <2>1. /\ docs[r.rev + 1] \in Docs(r.seen)
          /\ r.call.kind = "put" => r.call.doc \in Docs(r.seen)
          /\ r.call.kind = "answer" /\ r.call.code = 200 => docs[r.call.rev + 1] \in Docs(r.seen)
        BY <1>6, ComparedIsSeen
    <2>2. Unchanged(r, docs) => Unchanged(q, docs)
        BY <1>13, <1>16, <2>1 DEF Unchanged
    <2>3. Sent(r) => Sent(q)
        BY <1>13, <1>16, <2>1 DEF Sent
    <2>4. Landed(r, docs) => Landed(q, docs)
        BY <1>13, <1>16, <2>1 DEF Landed
    <2> QED
        BY <1>6, <1>13, <2>2, <2>3, <2>4 DEF Clean
<1> QED
    BY <1>1, <1>15, <1>17 DEF Fits

LEMMA WithoutShape ==
    ASSUME NEW r, NEW docs, NEW n, Held(r, docs, n), r.open, NEW s
    PROVE  Held([r EXCEPT !.doc.shapes = Dropped(@, s)], docs, n)
<1>1. PICK d : d = [r.doc EXCEPT !.shapes = Dropped(r.doc.shapes, s)]
    OBVIOUS
<1>2. r.doc \in Docs(r.seen) /\ Layered(r.doc.shapes, r.seen) /\ DOMAIN r = DOMAIN OpenTab
    BY DEF Held, CanvasFits
<1>3. DOMAIN r.doc = {"shapes", "crop"} /\ r.doc.crop \in Crops /\ r.doc.shapes \in Seq(r.seen)
    BY <1>2, DocsAre
<1>4. d = [shapes |-> Dropped(r.doc.shapes, s), crop |-> r.doc.crop]
    BY <1>1, <1>3
<1>5. Dropped(r.doc.shapes, s) \in Seq(r.seen) /\ Layered(Dropped(r.doc.shapes, s), r.seen)
    BY <1>2, <1>3, DroppedIs
<1>6. d \in Docs(r.seen) /\ Layered(d.shapes, r.seen)
    BY <1>3, <1>4, <1>5 DEF Docs
<1>7. [r EXCEPT !.doc.shapes = Dropped(@, s)] = [r EXCEPT !.doc = d]
    BY <1>1, <1>2, FieldsAre
<1> QED
    BY <1>6, <1>7, RedrawnFits

\* A shape drawn too small goes.
LEMMA DiscardedFits ==
    ASSUME NEW r, NEW docs, NEW n \in Nat, Fits(r, docs, n), r.open, NEW s, s = r.drawing
    PROVE  Fits([r EXCEPT !.drawing = NoShape, !.doc.shapes = Dropped(@, s), !.discarded = @ \cup {s}], docs, n)
<1>1. PICK q : q = [r EXCEPT !.drawing = NoShape, !.doc.shapes = Dropped(@, s), !.discarded = @ \cup {s}]
    OBVIOUS
<1>2. PICK rest : rest = [r EXCEPT !.doc.shapes = Dropped(@, s)]
    OBVIOUS
<1>3. Held(r, docs, n) /\ Clean(r, docs) /\ DOMAIN r = DOMAIN OpenTab
    BY DEF Fits, Held
<1>4. r.doc \in Docs(r.seen) /\ NoShape \notin r.seen
    BY <1>3, ComparedIsSeen, DrawnIsNew
<1>5. DOMAIN r.doc = {"shapes", "crop"}
    BY <1>4, DocsAre
<1>6. /\ DOMAIN q = DOMAIN OpenTab /\ q.doc.shapes = Dropped(r.doc.shapes, s) /\ q.doc.crop = r.doc.crop
      /\ q.drawing = NoShape /\ q.seen = r.seen /\ q.discarded = r.discarded \cup {s}
      /\ q.open = r.open /\ q.undo = r.undo /\ q.redo = r.redo /\ q.rev = r.rev /\ q.call = r.call
      /\ q.beacon = r.beacon /\ q.dirty = r.dirty /\ q.gone = r.gone
      /\ q.saving = r.saving /\ q.adrift = r.adrift
    BY <1>1, <1>3, <1>5, FieldsAre
<1>7. /\ DOMAIN rest = DOMAIN OpenTab /\ rest.doc = q.doc /\ rest.seen = r.seen
      /\ rest.open = r.open /\ rest.undo = r.undo /\ rest.redo = r.redo /\ rest.rev = r.rev
      /\ rest.call = r.call /\ rest.beacon = r.beacon
    BY <1>1, <1>2, <1>3, FieldsAre
<1>8. Held(q, docs, n)
    <2>1. Held(rest, docs, n)
        BY <1>2, <1>3, WithoutShape
    <2> QED
        BY <1>6, <1>7, <2>1, HeldElsewhere
<1>9. ASSUME NEW e \in Docs(r.seen), Same(Hidden(r), r.doc, e)
      PROVE  Same(Hidden(q), q.doc, e)
    <2>1. \A o \in r.seen : o \in Hidden(q) <=> o \in Hidden(r)
        BY <1>4, <1>6 DEF Hidden
    <2>2. s \in Hidden(r)
        BY DEF Hidden
    <2> QED
        BY <1>4, <1>6, <1>9, <2>1, <2>2, SameWithoutDropped
<1>10. Clean(q, docs)
    <2>1. /\ docs[r.rev + 1] \in Docs(r.seen)
          /\ r.call.kind = "put" => r.call.doc \in Docs(r.seen)
          /\ r.call.kind = "answer" /\ r.call.code = 200 => docs[r.call.rev + 1] \in Docs(r.seen)
        BY <1>3, ComparedIsSeen
    <2>2. Unchanged(r, docs) => Unchanged(q, docs)
        BY <1>6, <1>9, <2>1 DEF Unchanged
    <2>3. Sent(r) => Sent(q)
        BY <1>6, <1>9, <2>1 DEF Sent
    <2>4. Landed(r, docs) => Landed(q, docs)
        BY <1>6, <1>9, <2>1 DEF Landed
    <2> QED
        BY <1>3, <1>6, <2>2, <2>3, <2>4 DEF Clean
<1> QED
    BY <1>1, <1>8, <1>10 DEF Fits

\* A shape moves.
LEMMA MovedHolds ==
    ASSUME NEW r, NEW docs, NEW n \in Nat, Held(r, docs, n), r.open, NEW i \in DOMAIN r.doc.shapes,
           NEW s, s = [r.doc.shapes[i] EXCEPT !.x = @ + Px]
    PROVE  Held([r EXCEPT !.doc.shapes[i] = s, !.seen = @ \cup {s}], docs, n)
<1>1. PICK q : q = [r EXCEPT !.doc.shapes[i] = s, !.seen = @ \cup {s}]
    OBVIOUS
<1>2. PICK U : U = r.seen \cup {s}
    OBVIOUS
<1>3. PICK wider : wider = [r EXCEPT !.seen = U]
    OBVIOUS
<1>4. PICK x : x = [r.doc.shapes EXCEPT ![i] = s]
    OBVIOUS
<1>5. PICK d : d = [r.doc EXCEPT !.shapes = x]
    OBVIOUS
<1>6. r.doc \in Docs(r.seen) /\ Layered(r.doc.shapes, r.seen) /\ DOMAIN r = DOMAIN OpenTab
    BY DEF Held, CanvasFits
<1>7. DOMAIN r.doc = {"shapes", "crop"} /\ r.doc.crop \in Crops /\ r.doc.shapes \in Seq(r.seen)
    BY <1>6, DocsAre
<1>8. r.doc.shapes[i] \in r.seen
    BY <1>7, LenProperties, ElementOfSeq
<1>9. Drawn(s, n) /\ s.kind = r.doc.shapes[i].kind
    <2>1. Drawn(r.doc.shapes[i], n)
        BY <1>8 DEF Held
    <2> QED
        BY <2>1 DEF Drawn
<1>10. Held(wider, docs, n)
    <2>1. \A o \in U : Drawn(o, n)
        BY <1>2, <1>9 DEF Held
    <2> QED
        BY <1>2, <1>3, <2>1, SeenGrows
<1>11. x \in Seq(U) /\ Layered(x, U)
    <2>1. Layered(r.doc.shapes, U)
        BY <1>2, <1>6, LayeredGrows
    <2> QED
        BY <1>2, <1>4, <1>9, <2>1, ReplacedKeepsOrder
<1>12. d \in Docs(U) /\ Layered(d.shapes, U)
    <2>1. d = [shapes |-> x, crop |-> r.doc.crop]
        BY <1>5, <1>7
    <2> QED
        BY <1>7, <1>11, <2>1 DEF Docs
<1>13. DOMAIN wider = DOMAIN OpenTab /\ wider.open = r.open /\ wider.seen = U
    BY <1>3, <1>6, FieldsAre
<1>14. Held([wider EXCEPT !.doc = d], docs, n)
    BY <1>10, <1>12, <1>13, RedrawnFits
<1>15. q = [wider EXCEPT !.doc = d]
    <2>1. /\ DOMAIN q = DOMAIN r /\ q.doc = d /\ q.seen = U
          /\ \A f \in DOMAIN r : f \notin {"doc", "seen"} => q[f] = r[f]
        BY <1>1, <1>2, <1>4, <1>5, <1>6, FieldsAre
    <2>2. PICK p : p = [wider EXCEPT !.doc = d]
        OBVIOUS
    <2>3. /\ DOMAIN p = DOMAIN r /\ p.doc = d /\ p.seen = U
          /\ \A f \in DOMAIN r : f \notin {"doc", "seen"} => p[f] = r[f]
        BY <1>3, <1>6, <2>2, FieldsAre
    <2>4. q = [f \in DOMAIN q |-> q[f]] /\ p = [f \in DOMAIN p |-> p[f]]
        BY <1>1, <2>2
    <2>5. \A f \in DOMAIN r : q[f] = p[f]
        BY <2>1, <2>3
    <2> QED
        BY <2>1, <2>2, <2>3, <2>4, <2>5
<1> QED
    BY <1>1, <1>14, <1>15
-----------------------------------------------------------------------------
(* Saving and loading.                                                        *)

LEMMA SaveFits ==
    ASSUME NEW r, NEW docs, NEW n, Fits(r, docs, n), r.open
    PROVE  Fits(SaveBegins(r), docs, n)
<1>1. PICK q : q = [r EXCEPT !.saving = TRUE, !.dirty = FALSE, !.timer = FALSE, !.call = Put(r)]
    OBVIOUS
<1>2. Held(r, docs, n) /\ DOMAIN r = DOMAIN OpenTab /\ CanvasFits(r, docs)
    BY DEF Fits, Held
<1>3. /\ DOMAIN q = DOMAIN OpenTab /\ q.saving = TRUE /\ q.call = Put(r)
      /\ q.open = r.open /\ q.undo = r.undo /\ q.redo = r.redo /\ q.rev = r.rev /\ q.doc = r.doc
      /\ q.beacon = r.beacon /\ q.seen = r.seen /\ q.discarded = r.discarded /\ q.drawing = r.drawing
    BY <1>1, <1>2, FieldsAre
<1>4. q.call.kind = "put" /\ q.call.rev = r.rev /\ q.call.doc = r.doc
    BY <1>3 DEF Put
<1>5. CallFits(q.call, q.seen, docs)
    BY <1>2, <1>3, <1>4 DEF CallFits, PutFits, CanvasFits
<1>6. CanvasFits(q, docs)
    BY <1>2, <1>3 DEF CanvasFits
<1>7. Held(q, docs, n)
    BY <1>2, <1>3, <1>5, <1>6 DEF Held
<1>8. Same(Hidden(q), q.doc, q.call.doc)
    BY <1>2, <1>3, <1>4, ShowsItself DEF CanvasFits
<1>9. Clean(q, docs)
    BY <1>3, <1>4, <1>8 DEF Clean, Sent, Landed
<1>10. SaveBegins(r) = r \/ SaveBegins(r) = q
    BY <1>1 DEF SaveBegins
<1> QED
    BY <1>7, <1>9, <1>10 DEF Fits

LEMMA NoCallFits ==
    ASSUME NEW S, NEW docs, NEW c, c.kind \notin {"put", "answer", "reload"}
    PROVE  CallFits(c, S, docs) /\ PutFits(c, S, docs)
BY DEF CallFits, PutFits

LEMMA SettledHolds ==
    ASSUME NEW r, NEW docs, NEW n, Held(r, docs, n)
    PROVE  Held(Settles(r), docs, n)
<1>1. PICK q : q = Settles(r)
    OBVIOUS
<1>2. DOMAIN r = DOMAIN OpenTab
    BY DEF Held
<1>3. /\ DOMAIN q = DOMAIN OpenTab /\ q.call = NoCall
      /\ q.open = r.open /\ q.undo = r.undo /\ q.redo = r.redo /\ q.rev = r.rev /\ q.doc = r.doc
      /\ q.beacon = r.beacon /\ q.seen = r.seen
    BY <1>1, <1>2, FieldsAre DEF Settles
<1>4. CallFits(q.call, q.seen, docs)
    BY <1>3, NoCallFits DEF NoCall
<1>5. r.open => CanvasFits(q, docs)
    BY <1>3 DEF Held, CanvasFits
<1> QED
    BY <1>1, <1>3, <1>4, <1>5 DEF Held

LEMMA SettledFits ==
    ASSUME NEW r, NEW docs, NEW n, Held(r, docs, n),
           r.open /\ ~r.dirty /\ ~r.gone => Unchanged(r, docs)
    PROVE  Fits(Settles(r), docs, n)
<1>1. PICK q : q = Settles(r)
    OBVIOUS
<1>2. DOMAIN r = DOMAIN OpenTab
    BY DEF Held
<1>3. /\ q.call = NoCall /\ q.open = r.open /\ q.rev = r.rev /\ q.doc = r.doc /\ q.adrift = r.adrift
      /\ q.discarded = r.discarded /\ q.drawing = r.drawing /\ q.dirty = r.dirty /\ q.gone = r.gone
    BY <1>1, <1>2, FieldsAre DEF Settles
<1>4. Unchanged(r, docs) => Unchanged(q, docs)
    BY <1>3 DEF Unchanged, Hidden
<1>5. Sent(q) /\ Landed(q, docs)
    BY <1>3 DEF Sent, Landed, NoCall
<1>6. Clean(q, docs)
    BY <1>3, <1>4, <1>5 DEF Clean
<1> QED
    BY <1>1, <1>6, SettledHolds DEF Fits

\* A 200 takes the tab to the revision it saved.
Lands(r) == [r EXCEPT !.rev = r.call.rev, !.adrift = FALSE]

LEMMA AnsweredFits ==
    ASSUME NEW r, NEW docs, NEW n, Fits(r, docs, n), r.open, r.call.kind = "answer", r.call.code = 200,
           NEW q, q = Lands(r)
    PROVE  Fits(Settles(q), docs, n)
<1>1. Held(r, docs, n) /\ Clean(r, docs) /\ DOMAIN r = DOMAIN OpenTab /\ CanvasFits(r, docs)
    BY DEF Fits, Held
<1>2. /\ DOMAIN q = DOMAIN OpenTab /\ q.rev = r.call.rev
      /\ q.open = r.open /\ q.undo = r.undo /\ q.redo = r.redo /\ q.doc = r.doc /\ q.call = r.call
      /\ q.beacon = r.beacon /\ q.seen = r.seen /\ q.discarded = r.discarded /\ q.drawing = r.drawing
      /\ q.dirty = r.dirty /\ q.gone = r.gone
    BY <1>1, FieldsAre DEF Lands
<1>3. Known(r.seen, docs, r.call.rev)
    BY <1>1 DEF Held, CallFits
<1>4. CanvasFits(q, docs)
    BY <1>1, <1>2, <1>3 DEF CanvasFits
<1>5. Held(q, docs, n)
    BY <1>1, <1>2, <1>4, HeldRedrawn
<1>6. Landed(r, docs) => Unchanged(q, docs)
    BY <1>2 DEF Landed, Unchanged, Hidden
<1>7. q.open /\ ~q.dirty /\ ~q.gone => Unchanged(q, docs)
    BY <1>1, <1>2, <1>6 DEF Clean
<1> QED
    BY <1>5, <1>7, SettledFits

\* A conflict asks for the document instead.
LEMMA ConflictFits ==
    ASSUME NEW r, NEW docs, NEW n, Fits(r, docs, n), NEW c, c.kind \notin {"put", "answer", "reload"}
    PROVE  Fits([r EXCEPT !.call = c], docs, n)
<1>1. PICK q : q = [r EXCEPT !.call = c]
    OBVIOUS
<1>2. Held(r, docs, n) /\ Clean(r, docs) /\ DOMAIN r = DOMAIN OpenTab
    BY DEF Fits, Held
<1>3. /\ DOMAIN q = DOMAIN OpenTab /\ q.rev = r.rev /\ q.call = c
      /\ q.open = r.open /\ q.undo = r.undo /\ q.redo = r.redo /\ q.doc = r.doc
      /\ q.beacon = r.beacon /\ q.seen = r.seen /\ q.discarded = r.discarded /\ q.drawing = r.drawing
      /\ q.dirty = r.dirty /\ q.gone = r.gone /\ q.saving = r.saving /\ q.adrift = r.adrift
    BY <1>1, <1>2, FieldsAre
<1>4. CallFits(q.call, q.seen, docs)
    BY <1>3, NoCallFits
<1>5. r.open => CanvasFits(q, docs)
    BY <1>2, <1>3 DEF Held, CanvasFits
<1>6. Held(q, docs, n)
    BY <1>2, <1>3, <1>4, <1>5 DEF Held
<1>7. Unchanged(r, docs) => Unchanged(q, docs)
    BY <1>3 DEF Unchanged, Hidden
<1>8. Clean(q, docs)
    BY <1>2, <1>3, <1>7 DEF Clean, Sent, Landed
<1> QED
    BY <1>1, <1>6, <1>8 DEF Fits

\* Flags that stop a tab or make it dirty.
LEMMA FlaggedFits ==
    ASSUME NEW r, NEW docs, NEW n, Held(r, docs, n)
    PROVE  /\ Fits(Gone(r), docs, n) /\ Fits(Settles(Gone(r)), docs, n)
           /\ Fits(Settles([r EXCEPT !.dirty = TRUE, !.timer = TRUE]), docs, n)
           /\ Fits(Settles([r EXCEPT !.adrift = TRUE]), docs, n)
<1>1. DOMAIN r = DOMAIN OpenTab
    BY DEF Held
<1>2. PICK g : g = Gone(r)
    OBVIOUS
<1>3. PICK d : d = [r EXCEPT !.dirty = TRUE, !.timer = TRUE]
    OBVIOUS
<1>4. PICK a : a = [r EXCEPT !.adrift = TRUE]
    OBVIOUS
<1>5. /\ DOMAIN g = DOMAIN r /\ g.gone = TRUE
      /\ g.open = r.open /\ g.seen = r.seen /\ g.doc = r.doc /\ g.undo = r.undo /\ g.redo = r.redo
      /\ g.rev = r.rev /\ g.call = r.call /\ g.beacon = r.beacon
    BY <1>1, <1>2, FieldsAre DEF Gone
<1>6. /\ DOMAIN d = DOMAIN r /\ d.dirty = TRUE
      /\ d.open = r.open /\ d.seen = r.seen /\ d.doc = r.doc /\ d.undo = r.undo /\ d.redo = r.redo
      /\ d.rev = r.rev /\ d.call = r.call /\ d.beacon = r.beacon
    BY <1>1, <1>3, FieldsAre
<1>7. /\ DOMAIN a = DOMAIN r /\ a.adrift = TRUE
      /\ a.open = r.open /\ a.seen = r.seen /\ a.doc = r.doc /\ a.undo = r.undo /\ a.redo = r.redo
      /\ a.rev = r.rev /\ a.call = r.call /\ a.beacon = r.beacon
    BY <1>1, <1>4, FieldsAre
<1>8. Held(g, docs, n) /\ Held(d, docs, n) /\ Held(a, docs, n)
    BY <1>5, <1>6, <1>7, HeldElsewhere
<1>9. Fits(g, docs, n)
    BY <1>5, <1>8, DirtyIsClean DEF Fits
<1>10. Fits(Settles(g), docs, n) /\ Fits(Settles(d), docs, n)
    BY <1>5, <1>6, <1>8, SettledFits
<1>11. Fits(Settles(a), docs, n)
    <2>1. Unchanged(a, docs)
        BY <1>7 DEF Unchanged
    <2> QED
        BY <1>8, <2>1, SettledFits
<1> QED
    BY <1>2, <1>3, <1>4, <1>9, <1>10, <1>11

\* A reload takes the tab to a stored document.
LEMMA ReloadedFits ==
    ASSUME NEW r, NEW n, NEW S, NEW docs \in Seq(Docs(S)), \A s \in S : Drawn(s, n),
           Fits(r, docs, n), r.open, r.call.kind = "reload", r.call.code = 200
    PROVE  Fits(Settles(Reloads(r)), docs, n) /\ Reloads(r).seen \subseteq r.seen \cup S
<1>1. PICK q : q = Reloads(r)
    OBVIOUS
<1>2. PICK U : U = r.seen \cup ShapesOf(r.call.doc)
    OBVIOUS
<1>3. PICK wider : wider = [r EXCEPT !.seen = U]
    OBVIOUS
<1>4. PICK d : d = Loaded(r.call.doc)
    OBVIOUS
<1>5. Held(r, docs, n) /\ DOMAIN r = DOMAIN OpenTab
    BY DEF Fits, Held
<1>6. r.call.rev \in 0..(Len(docs) - 1) /\ r.call.doc = docs[r.call.rev + 1]
    BY <1>5 DEF Held, CallFits
<1>7. r.call.doc \in Docs(S)
    <2>1. Len(docs) \in Nat /\ r.call.rev + 1 \in 1..Len(docs)
        BY <1>6, LenProperties
    <2> QED
        BY <1>6, <2>1, ElementOfSeq
<1>8. ShapesOf(r.call.doc) \subseteq S /\ r.call.doc \in Docs(ShapesOf(r.call.doc))
    <2>1. /\ r.call.doc.shapes \in Seq(S) /\ r.call.doc.crop \in Crops
          /\ r.call.doc = [shapes |-> r.call.doc.shapes, crop |-> r.call.doc.crop]
        BY <1>7 DEF Docs
    <2> QED
        BY <2>1, MembersOf DEF ShapesOf, Docs
<1>9. r.call.doc \in Docs(U) /\ r.seen \subseteq U
    BY <1>2, <1>8, DocsGrow
<1>10. Held(wider, docs, n)
    <2>1. \A o \in U : Drawn(o, n)
        BY <1>2, <1>5, <1>8 DEF Held
    <2> QED
        BY <1>3, <1>5, <1>9, <2>1, SeenGrows
<1>11. d \in Docs(U) /\ Layered(d.shapes, U)
    BY <1>4, <1>9, LoadedIs
<1>12. /\ DOMAIN q = DOMAIN OpenTab /\ q.seen = U /\ q.doc = d /\ q.rev = r.call.rev
       /\ q.undo = <<d>> /\ q.redo = <<>> /\ q.open = r.open /\ q.call = r.call /\ q.beacon = r.beacon
    BY <1>1, <1>2, <1>4, <1>5, FieldsAre DEF Reloads
<1>13. DOMAIN wider = DOMAIN OpenTab /\ wider.seen = U /\ wider.call = r.call /\ wider.beacon = r.beacon
    BY <1>3, <1>5, FieldsAre
<1>14. CanvasFits(q, docs)
    <2>1. <<d>> \in Seq(Docs(U)) /\ <<>> \in Seq(Docs(U))
        BY <1>11, EmptySeq
    <2>2. Known(U, docs, r.call.rev)
        BY <1>6, <1>9 DEF Known
    <2> QED
        BY <1>11, <1>12, <2>1, <2>2 DEF CanvasFits
<1>15. Held(q, docs, n)
    BY <1>10, <1>12, <1>13, <1>14, HeldRedrawn
<1>16. Unchanged(q, docs)
    <2>1. Same(Hidden(q), d, r.call.doc)
        BY <1>4, <1>9, ShowsWhatWasLoaded
    <2> QED
        BY <1>6, <1>12, <2>1 DEF Unchanged
<1>17. Fits(Settles(q), docs, n)
    BY <1>15, <1>16, SettledFits
<1> QED
    BY <1>1, <1>2, <1>8, <1>12, <1>17

\* What a closing tab leaves behind.
LEMMA ClosedFits ==
    ASSUME NEW r, NEW docs, NEW n, Fits(r, docs, n), r.open, NEW rotation
    PROVE  Fits([OpenTab EXCEPT !.open = FALSE, !.seen = r.seen, !.viewId = r.viewId,
                            !.beacon = IF r.dirty THEN Put(r) ELSE NoCall,
                            !.call = IF r.call.kind = "put" THEN r.call ELSE NoCall,
                            !.rotation = rotation], docs, n)
<1>1. PICK q : q = [OpenTab EXCEPT !.open = FALSE, !.seen = r.seen, !.viewId = r.viewId,
                            !.beacon = IF r.dirty THEN Put(r) ELSE NoCall,
                            !.call = IF r.call.kind = "put" THEN r.call ELSE NoCall,
                            !.rotation = rotation]
    OBVIOUS
<1>2. Held(r, docs, n) /\ CanvasFits(r, docs)
    BY DEF Fits, Held
<1>3. /\ DOMAIN q = DOMAIN OpenTab /\ q.open = FALSE /\ q.seen = r.seen
      /\ q.beacon = (IF r.dirty THEN Put(r) ELSE NoCall)
      /\ q.call = (IF r.call.kind = "put" THEN r.call ELSE NoCall)
    BY <1>1, FieldsAre
<1>4. PutFits(Put(r), r.seen, docs)
    BY <1>2 DEF Put, PutFits, CanvasFits
<1>5. CallFits(NoCall, r.seen, docs) /\ PutFits(NoCall, r.seen, docs)
    BY NoCallFits DEF NoCall
<1>6. PutFits(q.beacon, q.seen, docs)
    BY <1>3, <1>4, <1>5
<1>7. CallFits(q.call, q.seen, docs)
    BY <1>2, <1>3, <1>5 DEF Held
<1>8. Held(q, docs, n)
    BY <1>2, <1>3, <1>6, <1>7 DEF Held
<1>9. Clean(q, docs)
    BY <1>3, DirtyIsClean
<1> QED
    BY <1>1, <1>8, <1>9 DEF Fits
-----------------------------------------------------------------------------
(* The steps.                                                                 *)

LEMMA SeenKept ==
    ASSUME NEW r, DOMAIN r = DOMAIN OpenTab
    PROVE  /\ MarkDirty(r).seen = r.seen /\ Committed(r).seen = r.seen /\ SaveBegins(r).seen = r.seen
           /\ Settles(r).seen = r.seen /\ Gone(r).seen = r.seen
<1>1. PICK q : q = [r EXCEPT !.undo = Append(@, r.doc), !.redo = <<>>]
    OBVIOUS
<1>2. DOMAIN q = DOMAIN OpenTab /\ q.seen = r.seen
    BY <1>1, FieldsAre
<1>3. \A p : DOMAIN p = DOMAIN OpenTab => MarkDirty(p).seen = p.seen
    BY FieldsAre DEF MarkDirty
<1>4. Committed(r) = MarkDirty(r) \/ Committed(r) = MarkDirty(q)
    BY <1>1 DEF Committed
<1>5. SaveBegins(r).seen = r.seen /\ Settles(r).seen = r.seen /\ Gone(r).seen = r.seen
    BY FieldsAre DEF SaveBegins, Settles, Gone
<1> QED
    BY <1>2, <1>3, <1>4, <1>5

\* The invariant, tab by tab.
LEMMA InvParts ==
    ASSUME EditorInv, NEW t \in Tabs
    PROVE  /\ Fits(tab[t], server.docs, edits) /\ Held(tab[t], server.docs, edits)
           /\ DOMAIN tab[t] = DOMAIN OpenTab /\ edits \in Nat
           /\ tab[t].open => CanvasFits(tab[t], server.docs)
           /\ server.docs \in Seq(Docs(AllSeen)) /\ tab[t].seen \subseteq AllSeen
BY DEF EditorInv, ServerFits, Fits, Held, AllSeen

\* A step of one tab.
LEMMA TabStep ==
    ASSUME EditorInv, NEW t \in Tabs, NEW r, tab' = [tab EXCEPT ![t] = r], UNCHANGED server,
           edits' \in Nat, edits <= edits', Fits(r, server.docs, edits'), tab[t].seen \subseteq r.seen
    PROVE  EditorInv'
<1>1. tab' = [u \in Tabs |-> tab'[u]] /\ tab'[t] = r /\ \A u \in Tabs : u # t => tab'[u] = tab[u]
    BY DEF EditorInv
<1>2. AllSeen \subseteq AllSeen'
    <2>1. \A u \in Tabs : tab[u].seen \subseteq tab'[u].seen
        BY <1>1
    <2> QED
        BY <2>1 DEF AllSeen
<1>3. ServerFits'
    BY <1>2, HistoryGrows DEF EditorInv, ServerFits
<1>4. ASSUME NEW u \in Tabs PROVE Fits(tab'[u], server.docs, edits')
    <2>1. CASE u = t
        BY <1>1, <2>1
    <2>2. CASE u # t
        <3>1. Fits(tab[u], server.docs, edits) /\ edits \in Nat
            BY DEF EditorInv
        <3>2. Held(tab[u], server.docs, edits')
            BY <3>1, EditsGrow DEF Fits
        <3> QED
            BY <1>1, <2>2, <3>1, <3>2 DEF Fits
    <2> QED
        BY <2>1, <2>2
<1> QED
    BY <1>1, <1>3, <1>4 DEF EditorInv

\* A step of the server: a revision more, or none.
LEMMA ServerStep ==
    ASSUME EditorInv, NEW t \in Tabs, NEW r, tab' = [tab EXCEPT ![t] = r], UNCHANGED edits,
           DOMAIN server' = DOMAIN server,
           server'.docs = server.docs \/ \E d \in Docs(tab[t].seen) : server'.docs = Append(server.docs, d),
           r.seen = tab[t].seen, Fits(r, server'.docs, edits)
    PROVE  EditorInv'
<1>1. tab' = [u \in Tabs |-> tab'[u]] /\ tab'[t] = r /\ \A u \in Tabs : u # t => tab'[u] = tab[u]
    BY DEF EditorInv
<1>2. AllSeen' = AllSeen
    <2>1. \A u \in Tabs : tab[u].seen = tab'[u].seen
        BY <1>1
    <2> QED
        BY <2>1 DEF AllSeen
<1>3. server.docs \in Seq(Docs(AllSeen)) /\ Len(server.docs) >= 1 /\ edits \in Nat
    BY DEF EditorInv, ServerFits
<1>4. \A d \in Docs(tab[t].seen) : d \in Docs(AllSeen)
    BY InvParts, DocsGrow
<1>5. ServerFits'
    <2>1. server'.docs \in Seq(Docs(AllSeen)) /\ Len(server'.docs) >= 1
        <3>1. ASSUME NEW d \in Docs(AllSeen), server'.docs = Append(server.docs, d)
              PROVE  server'.docs \in Seq(Docs(AllSeen)) /\ Len(server'.docs) >= 1
            <4>1. Len(server'.docs) = Len(server.docs) + 1 /\ Len(server.docs) \in Nat
                BY <1>3, <3>1, AppendProperties, LenProperties
            <4>2. server'.docs \in Seq(Docs(AllSeen))
                BY <1>3, <3>1, AppendProperties
            <4> QED
                BY <4>1, <4>2
        <3> QED
            BY <1>3, <1>4, <3>1
    <2> QED
        BY <1>2, <2>1 DEF EditorInv, ServerFits
<1>6. ASSUME NEW u \in Tabs PROVE Fits(tab'[u], server'.docs, edits)
    <2>1. CASE u = t
        BY <1>1, <2>1
    <2>2. CASE u # t
        <3>1. Fits(tab[u], server.docs, edits)
            BY DEF EditorInv
        <3>2. edits <= edits
            BY <1>3
        <3>3. \A d \in Docs(AllSeen) : Fits(tab[u], Append(server.docs, d), edits)
            BY <1>3, <3>1, <3>2, DocsAppended
        <3> QED
            BY <1>1, <1>4, <2>2, <3>1, <3>3
    <2> QED
        BY <2>1, <2>2
<1> QED
    BY <1>1, <1>3, <1>5, <1>6 DEF EditorInv

\* One lemma for each action.
LEMMA InitFits == ASSUME Init PROVE EditorInv
<1>1. /\ DOMAIN server = {"viewId", "live", "docs"} /\ server.docs = <<EmptyDoc>>
      /\ tab = [t \in Tabs |-> OpenTab] /\ edits = 0
    BY DEF Init
<1>2. \A S : EmptyDoc \in Docs(S) /\ Layered(EmptyDoc.shapes, S)
    BY EmptyDocIs
<1>3. server.docs \in Seq(Docs(AllSeen)) /\ Len(server.docs) = 1 /\ server.docs[1] = EmptyDoc
    <2>1. EmptyDoc \in Docs(AllSeen)
        BY <1>2
    <2> QED
        BY <1>1, <2>1
<1>4. /\ OpenTab.rev = 0 /\ OpenTab.doc = EmptyDoc /\ OpenTab.undo = <<EmptyDoc>> /\ OpenTab.redo = <<>>
      /\ OpenTab.seen = {} /\ OpenTab.call = NoCall /\ OpenTab.beacon = NoCall
    BY DEF OpenTab
<1>5. CanvasFits(OpenTab, server.docs)
    <2>1. <<EmptyDoc>> \in Seq(Docs({})) /\ <<>> \in Seq(Docs({}))
        BY <1>2, EmptySeq
    <2>2. Known({}, server.docs, 0)
        <3>1. 0 \in 0..(Len(server.docs) - 1) /\ server.docs[0 + 1] = EmptyDoc
            BY <1>3
        <3> QED
            BY <1>2, <3>1 DEF Known
    <2> QED
        BY <1>2, <1>4, <2>1, <2>2 DEF CanvasFits
<1>6. Held(OpenTab, server.docs, 0)
    BY <1>4, <1>5, NoCallFits DEF Held, NoCall
<1>7. Clean(OpenTab, server.docs)
    <2>1. Same(Hidden(OpenTab), OpenTab.doc, EmptyDoc)
        BY <1>2, <1>4, ShowsItself
    <2>2. server.docs[OpenTab.rev + 1] = EmptyDoc
        BY <1>3, <1>4
    <2> QED
        BY <1>4, <2>1, <2>2 DEF Clean, Unchanged, Sent, Landed, NoCall
<1>8. \A t \in Tabs : Fits(tab[t], server.docs, 0)
    BY <1>1, <1>6, <1>7 DEF Fits
<1>9. ServerFits
    BY <1>1, <1>3 DEF ServerFits
<1> QED
    BY <1>1, <1>8, <1>9 DEF EditorInv

LEMMA BeginShapeFits == ASSUME EditorInv, NEW t \in Tabs, NEW g, BeginShape(t, g) PROVE EditorInv'
<1>1. PICK s : s = NewShape(g)
    OBVIOUS
<1>2. PICK r : r = [tab[t] EXCEPT !.doc.shapes = AddShape(@, s), !.drawing = s, !.seen = @ \cup {s}]
    OBVIOUS
<1>3. /\ tab[t].open /\ tab[t].drawing = NoShape /\ edits' = edits + 1 /\ UNCHANGED server
      /\ tab' = [tab EXCEPT ![t] = r]
    BY <1>1, <1>2 DEF BeginShape, Changed, Becomes
<1>4. edits \in Nat /\ DOMAIN tab[t] = DOMAIN OpenTab /\ Fits(tab[t], server.docs, edits)
    BY InvParts
<1>5. Drawn(s, edits + 1) /\ s.id = edits + 1
    BY <1>1, <1>4 DEF NewShape, Drawn
<1>6. Fits(r, server.docs, edits + 1)
    BY <1>2, <1>3, <1>4, <1>5, BegunFits
<1>7. r.seen = tab[t].seen \cup {s}
    BY <1>2, <1>4, FieldsAre
<1>8. edits' \in Nat /\ edits <= edits' /\ Fits(r, server.docs, edits')
    BY <1>3, <1>4, <1>6
<1> QED
    BY <1>3, <1>7, <1>8, TabStep

\* A change of the document that is committed.
LEMMA CommittedStep ==
    ASSUME EditorInv, NEW t \in Tabs, NEW r, r.open, edits' \in Nat, edits <= edits', UNCHANGED server,
           Held(r, server.docs, edits'), tab[t].seen \subseteq r.seen, tab' = [tab EXCEPT ![t] = Committed(r)]
    PROVE  EditorInv'
<1>1. Fits(Committed(r), server.docs, edits') /\ Committed(r).seen = r.seen
    BY CommittedFits, SeenKept DEF Held
<1>2. PICK q : q = Committed(r)
    OBVIOUS
<1> QED
    BY <1>1, <1>2, TabStep

LEMMA MarkedStep ==
    ASSUME EditorInv, NEW t \in Tabs, NEW r, edits' \in Nat, edits <= edits', UNCHANGED server,
           Held(r, server.docs, edits'), tab[t].seen \subseteq r.seen, tab' = [tab EXCEPT ![t] = MarkDirty(r)]
    PROVE  EditorInv'
<1>1. Fits(MarkDirty(r), server.docs, edits') /\ MarkDirty(r).seen = r.seen
    BY MarkedFits, SeenKept DEF Held
<1>2. PICK q : q = MarkDirty(r)
    OBVIOUS
<1> QED
    BY <1>1, <1>2, TabStep

LEMMA EndShapeFits == ASSUME EditorInv, NEW t \in Tabs, EndShape(t) PROVE EditorInv'
<1>1. PICK s : s = tab[t].drawing
    OBVIOUS
<1>2. PICK up : up = [tab[t] EXCEPT !.drawing = NoShape]
    OBVIOUS
<1>3. PICK small : small = [tab[t] EXCEPT !.drawing = NoShape, !.doc.shapes = Dropped(@, s), !.discarded = @ \cup {s}]
    OBVIOUS
<1>4. /\ edits \in Nat /\ DOMAIN tab[t] = DOMAIN OpenTab /\ Fits(tab[t], server.docs, edits)
      /\ Held(tab[t], server.docs, edits)
    BY InvParts
<1>5. tab[t].open /\ UNCHANGED <<server, edits>> /\ edits' \in Nat /\ edits <= edits'
    BY <1>4 DEF EndShape
<1>6. CASE tab' = [tab EXCEPT ![t] = small]
    <2>1. small.seen = tab[t].seen
        BY <1>3, <1>4, FieldsAre
    <2>2. Fits(small, server.docs, edits)
        BY <1>1, <1>3, <1>4, <1>5, DiscardedFits
    <2> QED
        BY <1>5, <1>6, <2>1, <2>2, TabStep
<1>7. CASE tab' = [tab EXCEPT ![t] = Committed(up)]
    <2>1. /\ DOMAIN up = DOMAIN tab[t] /\ up.open = tab[t].open /\ up.seen = tab[t].seen
          /\ up.doc = tab[t].doc /\ up.undo = tab[t].undo /\ up.redo = tab[t].redo /\ up.rev = tab[t].rev
          /\ up.call = tab[t].call /\ up.beacon = tab[t].beacon
        BY <1>2, <1>4, FieldsAre
    <2>2. Held(up, server.docs, edits)
        BY <1>4, <2>1, HeldElsewhere
    <2> QED
        BY <1>5, <1>7, <2>1, <2>2, CommittedStep
<1>8. tab' = [tab EXCEPT ![t] = small] \/ tab' = [tab EXCEPT ![t] = Committed(up)]
    <2>1. tab' = [tab EXCEPT ![t] = IF TooSmall(s)
                     THEN [up EXCEPT !.doc.shapes = Dropped(@, s), !.discarded = @ \cup {s}]
                     ELSE Committed(up)]
        BY <1>1, <1>2 DEF EndShape, Becomes
    <2>2. [up EXCEPT !.doc.shapes = Dropped(@, s), !.discarded = @ \cup {s}] = small
        BY <1>2, <1>3, <1>4, FieldsAre
    <2> QED
        BY <2>1, <2>2
<1> QED
    BY <1>6, <1>7, <1>8

LEMMA DeleteShapeFits == ASSUME EditorInv, NEW t \in Tabs, DeleteShape(t) PROVE EditorInv'
<1>1. PICK i \in DOMAIN tab[t].doc.shapes :
        tab' = [tab EXCEPT ![t] =
                  Committed([tab[t] EXCEPT !.doc.shapes = Dropped(@, tab[t].doc.shapes[i])])]
    BY DEF DeleteShape, Becomes
<1>2. PICK s : s = tab[t].doc.shapes[i]
    OBVIOUS
<1>3. PICK r : r = [tab[t] EXCEPT !.doc.shapes = Dropped(@, s)]
    OBVIOUS
<1>4. tab[t].open /\ UNCHANGED server /\ edits' = edits + 1
    BY DEF DeleteShape, Changed
<1>5. edits \in Nat /\ DOMAIN tab[t] = DOMAIN OpenTab /\ Held(tab[t], server.docs, edits)
    BY InvParts
<1>6. edits' \in Nat /\ edits <= edits'
    BY <1>4, <1>5
<1>7. Held(tab[t], server.docs, edits')
    BY <1>5, <1>6, EditsGrow
<1>8. Held(r, server.docs, edits')
    BY <1>3, <1>4, <1>7, WithoutShape
<1>9. r.seen = tab[t].seen /\ r.open
    BY <1>3, <1>4, <1>5, FieldsAre
<1> QED
    BY <1>1, <1>2, <1>3, <1>4, <1>6, <1>8, <1>9, CommittedStep

LEMMA MoveShapeFits == ASSUME EditorInv, NEW t \in Tabs, MoveShape(t) PROVE EditorInv'
<1>1. PICK i \in DOMAIN tab[t].doc.shapes :
        LET s == [tab[t].doc.shapes[i] EXCEPT !.x = @ + Px]
        IN tab' = [tab EXCEPT ![t] = Committed([tab[t] EXCEPT !.doc.shapes[i] = s, !.seen = @ \cup {s}])]
    BY DEF MoveShape, Becomes
<1>2. PICK s : s = [tab[t].doc.shapes[i] EXCEPT !.x = @ + Px]
    OBVIOUS
<1>3. PICK r : r = [tab[t] EXCEPT !.doc.shapes[i] = s, !.seen = @ \cup {s}]
    OBVIOUS
<1>4. tab[t].open /\ UNCHANGED server /\ edits' = edits + 1
    BY DEF MoveShape, Changed
<1>5. edits \in Nat /\ DOMAIN tab[t] = DOMAIN OpenTab /\ Held(tab[t], server.docs, edits)
    BY InvParts
<1>6. edits' \in Nat /\ edits <= edits'
    BY <1>4, <1>5
<1>7. Held(tab[t], server.docs, edits')
    BY <1>5, <1>6, EditsGrow
<1>8. Held(r, server.docs, edits')
    BY <1>2, <1>3, <1>4, <1>6, <1>7, MovedHolds
<1>9. r.seen = tab[t].seen \cup {s} /\ r.open
    BY <1>3, <1>4, <1>5, FieldsAre
<1>10. tab' = [tab EXCEPT ![t] = Committed(r)]
    BY <1>1, <1>2, <1>3
<1> QED
    BY <1>4, <1>6, <1>8, <1>9, <1>10, CommittedStep

LEMMA ChangeCropFits ==
    ASSUME EditorInv, NEW t \in Tabs, NEW crop \in Crops, ChangeCrop(t, crop) PROVE EditorInv'
<1>1. PICK cropped : cropped = [tab[t].doc EXCEPT !.crop = crop]
    OBVIOUS
<1>2. PICK d : d = Loaded(cropped)
    OBVIOUS
<1>3. PICK r : r = [tab[t] EXCEPT !.doc = d]
    OBVIOUS
<1>4. tab[t].open /\ UNCHANGED server /\ edits' = edits + 1 /\ tab' = [tab EXCEPT ![t] = Committed(r)]
    BY <1>1, <1>2, <1>3 DEF ChangeCrop, Changed, Becomes
<1>5. edits \in Nat /\ DOMAIN tab[t] = DOMAIN OpenTab /\ Held(tab[t], server.docs, edits)
    BY InvParts
<1>6. edits' \in Nat /\ edits <= edits'
    BY <1>4, <1>5
<1>7. Held(tab[t], server.docs, edits')
    BY <1>5, <1>6, EditsGrow
<1>8. cropped \in Docs(tab[t].seen)
    <2>1. tab[t].doc \in Docs(tab[t].seen)
        BY <1>4, <1>5 DEF Held, CanvasFits
    <2> QED
        BY <1>1, <2>1 DEF Docs
<1>9. d \in Docs(tab[t].seen) /\ Layered(d.shapes, tab[t].seen)
    BY <1>2, <1>8, LoadedIs
<1>10. Held(r, server.docs, edits')
    BY <1>3, <1>4, <1>7, <1>9, RedrawnFits
<1>11. r.seen = tab[t].seen /\ r.open
    BY <1>3, <1>4, <1>5, FieldsAre
<1> QED
    BY <1>4, <1>6, <1>10, <1>11, CommittedStep
LEMMA HistoryParts ==
    ASSUME NEW D, NEW h \in Seq(D), h # <<>>
    PROVE  /\ Len(h) \in Nat /\ Len(h) >= 1 /\ h[Len(h)] \in D /\ SubSeq(h, 1, Len(h) - 1) \in Seq(D)
           /\ Len(h) >= 2 => h[Len(h) - 1] \in D
<1>1. PICK n : n = Len(h)
    OBVIOUS
<1>2. n \in Nat /\ n >= 1
    BY <1>1, LenProperties, EmptySeq
<1>3. \A i \in 1..n : h[i] \in D
    BY <1>1, ElementOfSeq
<1>4. n \in 1..n /\ (n >= 2 => n - 1 \in 1..n) /\ \A i \in 1..(n - 1) : i \in 1..n
    BY <1>2
<1>5. SubSeq(h, 1, n - 1) \in Seq(D)
    <2>1. PICK m : m = n - 1
        OBVIOUS
    <2>2. 1 \in Int /\ m \in Int /\ \A i \in 1..m : h[i] \in D
        BY <1>2, <1>3, <1>4, <2>1
    <2>3. SubSeq(h, 1, m) \in Seq(D)
        BY <2>2, SubSeqProperties
    <2> QED
        BY <2>1, <2>3
<1> QED
    BY <1>1, <1>2, <1>3, <1>4, <1>5

LEMMA UndoChangeFits == ASSUME EditorInv, NEW t \in Tabs, UndoChange(t) PROVE EditorInv'
<1>1. PICK r : r = tab[t]
    OBVIOUS
<1>2. PICK n : n = Len(r.undo)
    OBVIOUS
<1>3. PICK d : d = Loaded(r.undo[n - 1])
    OBVIOUS
<1>4. PICK q : q = [r EXCEPT !.redo = Append(@, r.undo[n]), !.undo = SubSeq(@, 1, n - 1), !.doc = d]
    OBVIOUS
<1>5. r.open /\ n >= 2 /\ UNCHANGED server /\ edits' = edits + 1 /\ tab' = [tab EXCEPT ![t] = MarkDirty(q)]
    BY <1>1, <1>2, <1>3, <1>4 DEF UndoChange, Changed, Becomes
<1>6. edits \in Nat /\ DOMAIN r = DOMAIN OpenTab /\ Held(r, server.docs, edits) /\ CanvasFits(r, server.docs)
    BY <1>1, <1>5, InvParts
<1>7. edits' \in Nat /\ edits <= edits'
    BY <1>5, <1>6
<1>8. Held(r, server.docs, edits')
    BY <1>6, <1>7, EditsGrow
<1>9. r.undo \in Seq(Docs(r.seen)) /\ r.redo \in Seq(Docs(r.seen)) /\ r.undo # <<>>
    <2>1. r.undo = <<>> => n = 0
        BY <1>2, EmptySeq
    <2> QED
        BY <1>5, <1>6, <2>1 DEF CanvasFits
<1>10. r.undo[n] \in Docs(r.seen) /\ r.undo[n - 1] \in Docs(r.seen) /\ SubSeq(r.undo, 1, n - 1) \in Seq(Docs(r.seen))
    BY <1>2, <1>5, <1>9, HistoryParts
<1>11. d \in Docs(r.seen) /\ Layered(d.shapes, r.seen)
    BY <1>3, <1>10, LoadedIs
<1>12. /\ DOMAIN q = DOMAIN r /\ q.doc = d /\ q.undo = SubSeq(r.undo, 1, n - 1) /\ q.redo = Append(r.redo, r.undo[n])
       /\ q.open = r.open /\ q.seen = r.seen /\ q.rev = r.rev /\ q.call = r.call /\ q.beacon = r.beacon
    BY <1>4, <1>6, FieldsAre
<1>13. CanvasFits(q, server.docs)
    BY <1>6, <1>9, <1>10, <1>11, <1>12, AppendProperties DEF CanvasFits
<1>14. Held(q, server.docs, edits')
    BY <1>8, <1>12, <1>13, HeldRedrawn
<1> QED
    BY <1>1, <1>5, <1>7, <1>12, <1>14, MarkedStep

LEMMA RedoChangeFits == ASSUME EditorInv, NEW t \in Tabs, RedoChange(t) PROVE EditorInv'
<1>1. PICK r : r = tab[t]
    OBVIOUS
<1>2. PICK n : n = Len(r.redo)
    OBVIOUS
<1>3. PICK d : d = Loaded(r.redo[n])
    OBVIOUS
<1>4. PICK q : q = [r EXCEPT !.undo = Append(@, r.redo[n]), !.redo = SubSeq(@, 1, n - 1), !.doc = d]
    OBVIOUS
<1>5. r.open /\ r.redo # <<>> /\ UNCHANGED <<server, edits>> /\ tab' = [tab EXCEPT ![t] = MarkDirty(q)]
    BY <1>1, <1>2, <1>3, <1>4 DEF RedoChange, Becomes
<1>6. edits \in Nat /\ DOMAIN r = DOMAIN OpenTab /\ Held(r, server.docs, edits) /\ CanvasFits(r, server.docs)
    BY <1>1, <1>5, InvParts
<1>7. edits' \in Nat /\ edits <= edits' /\ Held(r, server.docs, edits')
    BY <1>5, <1>6
<1>8. r.undo \in Seq(Docs(r.seen)) /\ r.redo \in Seq(Docs(r.seen))
    BY <1>6 DEF CanvasFits
<1>9. r.redo[n] \in Docs(r.seen) /\ SubSeq(r.redo, 1, n - 1) \in Seq(Docs(r.seen))
    BY <1>2, <1>5, <1>8, HistoryParts
<1>10. d \in Docs(r.seen) /\ Layered(d.shapes, r.seen)
    BY <1>3, <1>9, LoadedIs
<1>11. /\ DOMAIN q = DOMAIN r /\ q.doc = d /\ q.redo = SubSeq(r.redo, 1, n - 1) /\ q.undo = Append(r.undo, r.redo[n])
       /\ q.open = r.open /\ q.seen = r.seen /\ q.rev = r.rev /\ q.call = r.call /\ q.beacon = r.beacon
    BY <1>4, <1>6, FieldsAre
<1>12. CanvasFits(q, server.docs)
    BY <1>6, <1>8, <1>9, <1>10, <1>11, AppendProperties DEF CanvasFits
<1>13. Held(q, server.docs, edits')
    BY <1>7, <1>11, <1>12, HeldRedrawn
<1> QED
    BY <1>1, <1>5, <1>7, <1>11, <1>13, MarkedStep

\* Timers, the link and its rotation say nothing about documents.
Beside == {"viewId", "timer", "rotation"}

LEMMA BesideFits ==
    ASSUME NEW r, NEW q, NEW docs, NEW n, Fits(r, docs, n), DOMAIN q = DOMAIN OpenTab,
           \A f \in DOMAIN OpenTab \ Beside : q[f] = r[f]
    PROVE  Fits(q, docs, n) /\ q.seen = r.seen /\ q.open = r.open
<1>1. /\ q.open = r.open /\ q.rev = r.rev /\ q.doc = r.doc /\ q.undo = r.undo /\ q.redo = r.redo
      /\ q.drawing = r.drawing /\ q.dirty = r.dirty /\ q.saving = r.saving /\ q.gone = r.gone
      /\ q.call = r.call /\ q.beacon = r.beacon /\ q.seen = r.seen /\ q.discarded = r.discarded
      /\ q.adrift = r.adrift
    BY FieldsAre DEF Beside
<1>2. Held(q, docs, n)
    <2>1. Held(r, docs, n) /\ DOMAIN q = DOMAIN r
        BY DEF Fits, Held
    <2> QED
        BY <1>1, <2>1, HeldElsewhere
<1>3. Clean(q, docs)
    BY <1>1, CleanElsewhere DEF Fits
<1> QED
    BY <1>1, <1>2, <1>3 DEF Fits

\* A step of one tab that makes no edit.
LEMMA QuietStep ==
    ASSUME EditorInv, NEW t \in Tabs, NEW r, tab' = [tab EXCEPT ![t] = r], UNCHANGED <<server, edits>>,
           Fits(r, server.docs, edits), tab[t].seen \subseteq r.seen
    PROVE  EditorInv'
<1>1. edits' \in Nat /\ edits <= edits' /\ Fits(r, server.docs, edits') /\ UNCHANGED server
    BY InvParts
<1> QED
    BY <1>1, TabStep

LEMMA TimerFiresFits == ASSUME EditorInv, NEW t \in Tabs, TimerFires(t) PROVE EditorInv'
<1>1. PICK q : q = [tab[t] EXCEPT !.timer = FALSE]
    OBVIOUS
<1>2. PICK r : r = SaveBegins(q)
    OBVIOUS
<1>3. tab[t].open /\ tab' = [tab EXCEPT ![t] = r] /\ UNCHANGED <<server, edits>>
    BY <1>1, <1>2 DEF TimerFires, Becomes
<1>4. Fits(tab[t], server.docs, edits) /\ DOMAIN tab[t] = DOMAIN OpenTab
    BY InvParts
<1>5. DOMAIN q = DOMAIN OpenTab /\ \A f \in DOMAIN OpenTab \ Beside : q[f] = tab[t][f]
    BY <1>1, <1>4, FieldsAre DEF Beside
<1>6. Fits(q, server.docs, edits) /\ q.seen = tab[t].seen /\ q.open
    BY <1>3, <1>4, <1>5, BesideFits
<1>7. Fits(r, server.docs, edits) /\ r.seen = tab[t].seen
    BY <1>2, <1>5, <1>6, SaveFits, SeenKept
<1> QED
    BY <1>3, <1>7, QuietStep

LEMMA PutAnsweredFits == ASSUME EditorInv, NEW t \in Tabs, PutAnswered(t) PROVE EditorInv'
<1>1. PICK r : r = tab[t]
    OBVIOUS
<1>2. PICK q : q = [r EXCEPT !.rev = r.call.rev, !.adrift = FALSE]
    OBVIOUS
<1>3. PICK c : c = [kind |-> "get", viewId |-> r.viewId]
    OBVIOUS
<1>4. PICK asks : asks = [r EXCEPT !.call = c]
    OBVIOUS
<1>5. PICK d : d = [r EXCEPT !.dirty = TRUE, !.timer = TRUE]
    OBVIOUS
<1>6. r.open /\ r.call.kind = "answer" /\ UNCHANGED <<server, edits>>
    BY <1>1 DEF PutAnswered
<1>7. PICK p : /\ tab' = [tab EXCEPT ![t] = p]
               /\ p = CASE r.call.code = 200 -> Settles(q)
                        [] r.call.code = 409 -> asks
                        [] r.call.code = 404 -> Settles(Gone(r))
                        [] OTHER -> Settles(d)
    BY <1>1, <1>2, <1>3, <1>4, <1>5 DEF PutAnswered, Becomes
<1>8. Fits(r, server.docs, edits) /\ Held(r, server.docs, edits) /\ DOMAIN r = DOMAIN OpenTab
    BY <1>1, InvParts
<1>9. /\ DOMAIN q = DOMAIN OpenTab /\ DOMAIN d = DOMAIN OpenTab /\ q.seen = r.seen /\ d.seen = r.seen
      /\ asks.seen = r.seen /\ DOMAIN Gone(r) = DOMAIN OpenTab /\ Gone(r).seen = r.seen
    BY <1>2, <1>4, <1>5, <1>8, FieldsAre DEF Gone
<1>10. /\ Settles(q).seen = r.seen /\ Settles(d).seen = r.seen /\ Settles(Gone(r)).seen = r.seen
    <2>1. PICK g : g = Gone(r)
        OBVIOUS
    <2>2. Settles(g).seen = r.seen
        BY <1>9, <2>1, SeenKept
    <2> QED
        BY <1>9, <2>1, <2>2, SeenKept
<1>11. Fits(p, server.docs, edits) /\ p.seen = r.seen => EditorInv'
    <2>1. tab' = [tab EXCEPT ![t] = p]
        BY <1>7
    <2> QED
        BY <1>1, <1>6, <2>1, QuietStep
<1>12. CASE r.call.code = 200
    <2>1. Fits(Settles(q), server.docs, edits)
        <3>1. q = Lands(r)
            BY <1>2 DEF Lands
        <3> QED
            BY <1>6, <1>8, <1>12, <3>1, AnsweredFits
    <2>2. p = Settles(q)
        BY <1>7, <1>12
    <2>3. Fits(p, server.docs, edits) /\ p.seen = r.seen
        BY <1>10, <2>1, <2>2
    <2> QED
        BY <1>11, <2>3
<1>13. CASE r.call.code = 409
    <2>1. c.kind \notin {"put", "answer", "reload"}
        BY <1>3
    <2>2. Fits(asks, server.docs, edits)
        BY <1>4, <1>8, <2>1, ConflictFits
    <2>3. p = asks
        BY <1>7, <1>13
    <2>4. Fits(p, server.docs, edits) /\ p.seen = r.seen
        BY <1>9, <2>2, <2>3
    <2> QED
        BY <1>11, <2>4
<1>14. CASE r.call.code = 404
    <2>1. Fits(Settles(Gone(r)), server.docs, edits)
        BY <1>8, FlaggedFits
    <2>2. p = Settles(Gone(r))
        BY <1>7, <1>14
    <2>3. Fits(p, server.docs, edits) /\ p.seen = r.seen
        BY <1>10, <2>1, <2>2
    <2> QED
        BY <1>11, <2>3
<1>15. CASE r.call.code \notin {200, 409, 404}
    <2>1. Fits(Settles(d), server.docs, edits)
        BY <1>5, <1>8, FlaggedFits
    <2>2. p = Settles(d)
        BY <1>7, <1>15
    <2>3. Fits(p, server.docs, edits) /\ p.seen = r.seen
        BY <1>10, <2>1, <2>2
    <2> QED
        BY <1>11, <2>3
<1> QED
    BY <1>12, <1>13, <1>14, <1>15

LEMMA AllSeenIsDrawn == ASSUME EditorInv PROVE \A s \in AllSeen : Drawn(s, edits)
<1>1. \A t \in Tabs : \A s \in tab[t].seen : Drawn(s, edits)
    BY DEF EditorInv, Fits, Held
<1> QED
    BY <1>1 DEF AllSeen

LEMMA ReloadsFits == ASSUME EditorInv, NEW t \in Tabs, Reloaded(t) PROVE EditorInv'
<1>1. PICK r : r = tab[t]
    OBVIOUS
<1>2. PICK a : a = [r EXCEPT !.adrift = TRUE]
    OBVIOUS
<1>3. r.open /\ r.call.kind = "reload" /\ UNCHANGED <<server, edits>>
    BY <1>1 DEF Reloaded
<1>4. PICK p : tab' = [tab EXCEPT ![t] = p] /\ p = Settles(IF r.call.code = 200 THEN Reloads(r) ELSE a)
    BY <1>1, <1>2 DEF Reloaded, Becomes
<1>5. Fits(r, server.docs, edits) /\ Held(r, server.docs, edits) /\ DOMAIN r = DOMAIN OpenTab
    BY <1>1, InvParts
<1>6. CASE r.call.code = 200
    <2>1. server.docs \in Seq(Docs(AllSeen)) /\ \A s \in AllSeen : Drawn(s, edits)
        BY InvParts, AllSeenIsDrawn
    <2>2. Fits(Settles(Reloads(r)), server.docs, edits)
        BY <1>3, <1>5, <1>6, <2>1, ReloadedFits
    <2>3. PICK q : q = Reloads(r)
        OBVIOUS
    <2>4. DOMAIN q = DOMAIN OpenTab /\ r.seen \subseteq q.seen
        BY <1>5, <2>3, FieldsAre DEF Reloads
    <2>5. Settles(q).seen = q.seen
        BY <2>4, SeenKept
    <2>6. p = Settles(q)
        BY <1>4, <1>6, <2>3
    <2> QED
        BY <1>1, <1>3, <1>4, <2>2, <2>3, <2>4, <2>5, <2>6, QuietStep
<1>7. CASE r.call.code # 200
    <2>1. DOMAIN a = DOMAIN OpenTab /\ a.seen = r.seen
        BY <1>2, <1>5, FieldsAre
    <2>2. Fits(Settles(a), server.docs, edits)
        BY <1>2, <1>5, FlaggedFits
    <2>3. Settles(a).seen = r.seen /\ p = Settles(a)
        BY <1>4, <1>7, <2>1, SeenKept
    <2> QED
        BY <1>1, <1>3, <1>4, <2>2, <2>3, QuietStep
<1> QED
    BY <1>6, <1>7
LEMMA NewCallFits ==
    ASSUME NEW r, NEW docs, NEW n, Fits(r, docs, n), NEW c, CallFits(c, r.seen, docs),
           c.kind # "put",
           r.open /\ ~r.dirty /\ ~r.gone /\ c.kind = "answer" /\ c.code = 200 =>
                Same(Hidden(r), r.doc, docs[c.rev + 1])
    PROVE  /\ Fits([r EXCEPT !.call = c], docs, n)
           /\ [r EXCEPT !.call = c].seen = r.seen
<1>1. PICK q : q = [r EXCEPT !.call = c]
    OBVIOUS
<1>2. Held(r, docs, n) /\ Clean(r, docs) /\ DOMAIN r = DOMAIN OpenTab
    BY DEF Fits, Held
<1>3. /\ DOMAIN q = DOMAIN OpenTab /\ q.rev = r.rev /\ q.call = c
      /\ q.open = r.open /\ q.undo = r.undo /\ q.redo = r.redo /\ q.doc = r.doc
      /\ q.beacon = r.beacon /\ q.seen = r.seen /\ q.discarded = r.discarded /\ q.drawing = r.drawing
      /\ q.dirty = r.dirty /\ q.gone = r.gone /\ q.saving = r.saving /\ q.adrift = r.adrift
    BY <1>1, <1>2, FieldsAre
<1>4. r.open => CanvasFits(q, docs)
    BY <1>2, <1>3 DEF Held, CanvasFits
<1>5. Held(q, docs, n)
    BY <1>2, <1>3, <1>4 DEF Held
<1>6. Hidden(q) = Hidden(r)
    BY <1>3 DEF Hidden
<1>7. Unchanged(r, docs) => Unchanged(q, docs)
    BY <1>3, <1>6 DEF Unchanged
<1>8. Clean(q, docs)
    BY <1>2, <1>3, <1>6, <1>7 DEF Clean, Sent, Landed
<1> QED
    BY <1>1, <1>3, <1>5, <1>8 DEF Fits

\* A stored document is the one before it, by somebody who had loaded that.
LEMMA StoredIs ==
    ASSUME EditorInv, NEW t \in Tabs, NEW c, c.kind = "put", PutFits(c, tab[t].seen, server.docs)
    PROVE  /\ DOMAIN Stored(c) = DOMAIN server
           /\ \/ Code(c) # 200 /\ Stored(c) = server
              \/ /\ Code(c) = 200 /\ c.rev = Rev /\ c.doc \in Docs(tab[t].seen)
                 /\ Stored(c).docs = Append(server.docs, c.doc)
                 /\ DocAt(Rev) \in Docs(tab[t].seen)
<1>1. DOMAIN server = {"viewId", "live", "docs"}
    BY DEF EditorInv, ServerFits
<1>2. Code(c) = 200 => c.rev = Rev
    BY DEF Code
<1>3. DOMAIN Stored(c) = DOMAIN server /\ (Code(c) = 200 => Stored(c).docs = Append(server.docs, c.doc))
    BY <1>1 DEF Stored
<1>4. Code(c) # 200 => Stored(c) = server
    BY DEF Stored
<1>5. c.doc \in Docs(tab[t].seen) /\ (c.rev = Rev => DocAt(Rev) \in Docs(tab[t].seen))
    BY DEF PutFits, Known, DocAt
<1> QED
    BY <1>2, <1>3, <1>4, <1>5

\* Whatever a PUT or a beacon does to the server, every tab fits what is stored then.
LEMMA StoredFits ==
    ASSUME EditorInv, NEW t \in Tabs, NEW c, c.kind = "put", PutFits(c, tab[t].seen, server.docs),
           NEW after, after = server \/ after = Stored(c)
    PROVE  /\ DOMAIN after = DOMAIN server
           /\ after.docs = server.docs \/ \E d \in Docs(tab[t].seen) : after.docs = Append(server.docs, d)
           /\ Fits(tab[t], after.docs, edits)
<1>1. CASE after = server
    BY <1>1, InvParts
<1>2. CASE after = Stored(c) /\ Code(c) # 200
    BY <1>2, StoredIs, InvParts
<1>3. CASE after = Stored(c) /\ Code(c) = 200
    <2>1. /\ DOMAIN after = DOMAIN server /\ c.doc \in Docs(tab[t].seen)
          /\ after.docs = Append(server.docs, c.doc)
        BY <1>3, StoredIs
    <2>2. server.docs \in Seq(Docs(AllSeen)) /\ c.doc \in Docs(AllSeen)
        BY <2>1, InvParts, DocsGrow
    <2>3. edits \in Nat /\ edits <= edits /\ Fits(tab[t], server.docs, edits)
        BY InvParts
    <2>4. Fits(tab[t], Append(server.docs, c.doc), edits)
        BY <2>2, <2>3, DocsAppended
    <2> QED
        BY <2>1, <2>4
<1> QED
    BY <1>1, <1>2, <1>3

LEMMA ServerPutFits == ASSUME EditorInv, NEW t \in Tabs, ServerPut(t) PROVE EditorInv'
<1>1. PICK c : c = tab[t].call
    OBVIOUS
<1>2. PICK code : /\ code \in {Code(c)} \cup (IF server.live THEN {} ELSE {409})
                  /\ tab' = [tab EXCEPT ![t].call = Answer(c, code)]
    BY <1>1 DEF ServerPut
<1>3. PICK r : r = [tab[t] EXCEPT !.call = Answer(c, code)]
    OBVIOUS
<1>4. c.kind = "put" /\ server' = Stored(c) /\ UNCHANGED edits /\ tab' = [tab EXCEPT ![t] = r]
    BY <1>1, <1>2, <1>3 DEF ServerPut
<1>5. PutFits(c, tab[t].seen, server.docs) /\ Clean(tab[t], server.docs)
    BY <1>1, InvParts DEF Fits, Held, CallFits
<1>6. /\ DOMAIN server' = DOMAIN server
      /\ server'.docs = server.docs \/ \E d \in Docs(tab[t].seen) : server'.docs = Append(server.docs, d)
      /\ Fits(tab[t], server'.docs, edits)
    BY <1>4, <1>5, StoredFits
<1>7. PICK a : a = Answer(c, code)
    OBVIOUS
<1>8. a.kind = "answer" /\ a.code = code /\ a.rev = c.rev + 1
    BY <1>7 DEF Answer
<1>9. ASSUME code = 200
      PROVE  Known(tab[t].seen, server'.docs, a.rev) /\ server'.docs[a.rev + 1] = c.doc
    <2>1. Code(c) = 200
        BY <1>2, <1>9
    <2>2. c.rev = Rev /\ server'.docs = Append(server.docs, c.doc) /\ c.doc \in Docs(tab[t].seen)
        BY <1>4, <1>5, <2>1, StoredIs
    <2>3. PICK n : n = Len(server.docs)
        OBVIOUS
    <2>4. n \in Nat /\ c.doc \in Docs(AllSeen) /\ server.docs \in Seq(Docs(AllSeen))
        BY <2>2, <2>3, InvParts, LenProperties, DocsGrow
    <2>5. Len(server'.docs) = n + 1 /\ server'.docs[n + 1] = c.doc
        BY <2>2, <2>3, <2>4, AppendProperties
    <2>6. a.rev = n
        BY <1>8, <2>2, <2>3, <2>4 DEF Rev
    <2>7. n \in 0..((n + 1) - 1)
        BY <2>4
    <2> QED
        BY <2>2, <2>5, <2>6, <2>7 DEF Known
<1>10. CallFits(a, tab[t].seen, server'.docs)
    BY <1>8, <1>9 DEF CallFits, PutFits
<1>11. ASSUME tab[t].open /\ ~tab[t].dirty /\ ~tab[t].gone /\ a.kind = "answer" /\ a.code = 200
       PROVE  Same(Hidden(tab[t]), tab[t].doc, server'.docs[a.rev + 1])
    <2>1. Sent(tab[t])
        BY <1>5, <1>11 DEF Clean
    <2> QED
        BY <1>1, <1>4, <1>8, <1>9, <1>11, <2>1 DEF Sent
<1>12. r = [tab[t] EXCEPT !.call = a]
    BY <1>3, <1>7
<1>13. Fits(r, server'.docs, edits) /\ r.seen = tab[t].seen
    BY <1>6, <1>8, <1>10, <1>11, <1>12, NewCallFits
<1> QED
    BY <1>4, <1>6, <1>13, ServerStep

LEMMA ServerGetFits == ASSUME EditorInv, NEW t \in Tabs, ServerGet(t) PROVE EditorInv'
<1>1. PICK c : c = IF Owned(tab[t].call.viewId) THEN [kind |-> "reload", code |-> 200, rev |-> Rev, doc |-> DocAt(Rev)]
                   ELSE [kind |-> "reload", code |-> 404]
    OBVIOUS
<1>2. PICK r : r = [tab[t] EXCEPT !.call = c]
    OBVIOUS
<1>3. tab' = [tab EXCEPT ![t] = r] /\ UNCHANGED <<server, edits>>
    BY <1>1, <1>2 DEF ServerGet
<1>4. c.kind = "reload" /\ (c.code = 200 => c.rev = Rev /\ c.doc = DocAt(Rev))
    BY <1>1
<1>5. Rev \in 0..(Len(server.docs) - 1)
    <2>1. Len(server.docs) \in Nat /\ Len(server.docs) >= 1
        BY LenProperties DEF EditorInv, ServerFits
    <2> QED
        BY <2>1 DEF Rev
<1>6. CallFits(c, tab[t].seen, server.docs)
    BY <1>4, <1>5 DEF CallFits, PutFits, DocAt
<1>7. Fits(r, server.docs, edits) /\ r.seen = tab[t].seen
    BY <1>2, <1>4, <1>6, InvParts, NewCallFits
<1> QED
    BY <1>3, <1>7, QuietStep

LEMMA ServerBeaconFits == ASSUME EditorInv, NEW t \in Tabs, ServerBeacon(t) PROVE EditorInv'
<1>1. PICK r : r = tab[t]
    OBVIOUS
<1>2. PICK q : q = [r EXCEPT !.beacon = NoCall]
    OBVIOUS
<1>3. r.beacon.kind = "put" /\ server' = Stored(r.beacon) /\ UNCHANGED edits /\ tab' = [tab EXCEPT ![t] = q]
    BY <1>1, <1>2 DEF ServerBeacon
<1>4. PutFits(r.beacon, tab[t].seen, server.docs) /\ DOMAIN r = DOMAIN OpenTab
    BY <1>1, InvParts DEF Held
<1>5. /\ DOMAIN server' = DOMAIN server
      /\ server'.docs = server.docs \/ \E d \in Docs(tab[t].seen) : server'.docs = Append(server.docs, d)
      /\ Fits(r, server'.docs, edits)
    BY <1>1, <1>3, <1>4, StoredFits
<1>6. /\ DOMAIN q = DOMAIN OpenTab /\ q.beacon = NoCall
      /\ q.open = r.open /\ q.rev = r.rev /\ q.doc = r.doc /\ q.undo = r.undo /\ q.redo = r.redo
      /\ q.drawing = r.drawing /\ q.dirty = r.dirty /\ q.saving = r.saving /\ q.gone = r.gone
      /\ q.call = r.call /\ q.seen = r.seen /\ q.discarded = r.discarded /\ q.adrift = r.adrift
    BY <1>2, <1>4, FieldsAre
<1>7. Held(q, server'.docs, edits)
    <2>1. PutFits(q.beacon, q.seen, server'.docs)
        BY <1>6, NoCallFits DEF NoCall
    <2>2. r.open => CanvasFits(q, server'.docs)
        BY <1>5, <1>6 DEF Fits, Held, CanvasFits
    <2> QED
        BY <1>5, <1>6, <2>1, <2>2 DEF Fits, Held
<1>8. Clean(q, server'.docs)
    BY <1>5, <1>6, CleanElsewhere DEF Fits
<1>9. Fits(q, server'.docs, edits)
    BY <1>7, <1>8 DEF Fits
<1> QED
    BY <1>1, <1>3, <1>5, <1>6, <1>9, ServerStep

LEMMA LoseFits == ASSUME EditorInv, NEW t \in Tabs, Lose(t) PROVE EditorInv'
<1>1. PICK c : c = tab[t].call
    OBVIOUS
<1>2. PICK a : a = IF c.kind = "put" THEN Answer(c, 0) ELSE [kind |-> "reload", code |-> 0]
    OBVIOUS
<1>3. PICK r : r = [tab[t] EXCEPT !.call = a]
    OBVIOUS
<1>4. /\ server' \in {server, IF c.kind = "put" THEN Stored(c) ELSE server} /\ UNCHANGED edits
      /\ tab' = [tab EXCEPT ![t] = r]
    BY <1>1, <1>2, <1>3 DEF Lose
<1>5. PutFits(c, tab[t].seen, server.docs) /\ Fits(tab[t], server.docs, edits)
    BY <1>1, InvParts DEF Held, CallFits
<1>6. /\ DOMAIN server' = DOMAIN server
      /\ server'.docs = server.docs \/ \E d \in Docs(tab[t].seen) : server'.docs = Append(server.docs, d)
      /\ Fits(tab[t], server'.docs, edits)
    <2>1. CASE c.kind = "put"
        <3>1. server' = server \/ server' = Stored(c)
            BY <1>4, <2>1
        <3> QED
            BY <1>5, <2>1, <3>1, StoredFits
    <2>2. CASE c.kind # "put"
        BY <1>4, <1>5, <2>2
    <2> QED
        BY <2>1, <2>2
<1>7. a.kind \in {"answer", "reload"} /\ a.code = 0
    BY <1>2 DEF Answer
<1>8. CallFits(a, tab[t].seen, server'.docs)
    BY <1>7 DEF CallFits, PutFits
<1>9. Fits(r, server'.docs, edits) /\ r.seen = tab[t].seen
    BY <1>3, <1>6, <1>7, <1>8, NewCallFits
<1> QED
    BY <1>4, <1>6, <1>9, ServerStep
LEMMA RotateFits == ASSUME EditorInv, NEW t \in Tabs, Rotate(t) PROVE EditorInv'
<1>1. PICK q : q = [tab[t] EXCEPT !.rotation = "flush", !.timer = FALSE]
    OBVIOUS
<1>2. tab' = [tab EXCEPT ![t] = q] /\ UNCHANGED <<server, edits>>
    BY <1>1 DEF Rotate, Becomes
<1>3. Fits(tab[t], server.docs, edits) /\ DOMAIN tab[t] = DOMAIN OpenTab
    BY InvParts
<1>4. DOMAIN q = DOMAIN OpenTab /\ \A f \in DOMAIN OpenTab \ Beside : q[f] = tab[t][f]
    BY <1>1, <1>3, FieldsAre DEF Beside
<1>5. Fits(q, server.docs, edits) /\ q.seen = tab[t].seen
    BY <1>3, <1>4, BesideFits
<1> QED
    BY <1>2, <1>5, QuietStep

LEMMA PostOrStopFits ==
    ASSUME NEW r, NEW docs, NEW n, Fits(r, docs, n)
    PROVE  Fits(PostOrStop(r), docs, n) /\ PostOrStop(r).seen = r.seen
<1>1. PICK q : q = PostOrStop(r)
    OBVIOUS
<1>2. DOMAIN r = DOMAIN OpenTab
    BY DEF Fits, Held
<1>3. DOMAIN q = DOMAIN OpenTab /\ \A f \in DOMAIN OpenTab \ Beside : q[f] = r[f]
    BY <1>1, <1>2, FieldsAre DEF Beside, PostOrStop
<1> QED
    BY <1>1, <1>3, BesideFits

LEMMA FlushedFits == ASSUME EditorInv, NEW t \in Tabs, Flushed(t) PROVE EditorInv'
<1>1. PICK q : q = [tab[t] EXCEPT !.rotation = "save"]
    OBVIOUS
<1>2. PICK r : tab' = [tab EXCEPT ![t] = r] /\ (r = SaveBegins(q) \/ r = PostOrStop(tab[t]))
    BY <1>1 DEF Flushed, Becomes
<1>3. tab[t].open /\ UNCHANGED <<server, edits>>
    BY DEF Flushed
<1>4. Fits(tab[t], server.docs, edits) /\ DOMAIN tab[t] = DOMAIN OpenTab
    BY InvParts
<1>5. DOMAIN q = DOMAIN OpenTab /\ \A f \in DOMAIN OpenTab \ Beside : q[f] = tab[t][f]
    BY <1>1, <1>4, FieldsAre DEF Beside
<1>6. Fits(q, server.docs, edits) /\ q.seen = tab[t].seen /\ q.open
    BY <1>3, <1>4, <1>5, BesideFits
<1>7. Fits(SaveBegins(q), server.docs, edits) /\ SaveBegins(q).seen = tab[t].seen
    BY <1>5, <1>6, SaveFits, SeenKept
<1>8. Fits(r, server.docs, edits) /\ r.seen = tab[t].seen
    BY <1>2, <1>4, <1>7, PostOrStopFits
<1> QED
    BY <1>2, <1>3, <1>8, QuietStep

LEMMA FlushSavedFits == ASSUME EditorInv, NEW t \in Tabs, FlushSaved(t) PROVE EditorInv'
<1>1. PICK r : r = PostOrStop(tab[t])
    OBVIOUS
<1>2. tab' = [tab EXCEPT ![t] = r] /\ UNCHANGED <<server, edits>>
    BY <1>1 DEF FlushSaved, Becomes
<1>3. Fits(r, server.docs, edits) /\ r.seen = tab[t].seen
    BY <1>1, InvParts, PostOrStopFits
<1> QED
    BY <1>2, <1>3, QuietStep

LEMMA ServerRotateFits == ASSUME EditorInv, NEW t \in Tabs, ServerRotate(t) PROVE EditorInv'
<1>1. PICK turn : tab' = [tab EXCEPT ![t].rotation = turn]
    BY DEF ServerRotate
<1>2. PICK q : q = [tab[t] EXCEPT !.rotation = turn]
    OBVIOUS
<1>3. tab' = [tab EXCEPT ![t] = q] /\ UNCHANGED edits
    BY <1>1, <1>2 DEF ServerRotate
<1>4. DOMAIN server' = DOMAIN server /\ server'.docs = server.docs
    <2>1. DOMAIN server = {"viewId", "live", "docs"}
        BY DEF EditorInv, ServerFits
    <2> QED
        BY <2>1 DEF ServerRotate
<1>5. Fits(tab[t], server.docs, edits) /\ DOMAIN tab[t] = DOMAIN OpenTab
    BY InvParts
<1>6. DOMAIN q = DOMAIN OpenTab /\ \A f \in DOMAIN OpenTab \ Beside : q[f] = tab[t][f]
    BY <1>2, <1>5, FieldsAre DEF Beside
<1>7. Fits(q, server.docs, edits) /\ q.seen = tab[t].seen
    BY <1>5, <1>6, BesideFits
<1> QED
    BY <1>3, <1>4, <1>7, ServerStep

LEMMA RotateAnsweredFits == ASSUME EditorInv, NEW t \in Tabs, RotateAnswered(t) PROVE EditorInv'
<1>1. PICK q : q = [tab[t] EXCEPT !.rotation = "none"]
    OBVIOUS
<1>2. PICK moved : moved = [q EXCEPT !.viewId = @ + 1]
    OBVIOUS
<1>3. PICK r : tab' = [tab EXCEPT ![t] = r] /\ r \in {moved, Gone(q), q}
    BY <1>1, <1>2 DEF RotateAnswered, Becomes
<1>4. UNCHANGED <<server, edits>>
    BY DEF RotateAnswered
<1>5. Fits(tab[t], server.docs, edits) /\ DOMAIN tab[t] = DOMAIN OpenTab
    BY InvParts
<1>6. /\ DOMAIN q = DOMAIN OpenTab /\ \A f \in DOMAIN OpenTab \ Beside : q[f] = tab[t][f]
      /\ DOMAIN moved = DOMAIN OpenTab /\ \A f \in DOMAIN OpenTab \ Beside : moved[f] = tab[t][f]
    BY <1>1, <1>2, <1>5, FieldsAre DEF Beside
<1>7. /\ Fits(q, server.docs, edits) /\ q.seen = tab[t].seen
      /\ Fits(moved, server.docs, edits) /\ moved.seen = tab[t].seen
    BY <1>5, <1>6, BesideFits
<1>8. Fits(Gone(q), server.docs, edits) /\ Gone(q).seen = tab[t].seen
    BY <1>6, <1>7, FlaggedFits, SeenKept DEF Fits
<1>9. Fits(r, server.docs, edits) /\ r.seen = tab[t].seen
    BY <1>3, <1>7, <1>8
<1> QED
    BY <1>3, <1>4, <1>9, QuietStep

LEMMA DeleteCaptureFits == ASSUME EditorInv, DeleteCapture PROVE EditorInv'
<1>1. DOMAIN server = {"viewId", "live", "docs"}
    BY DEF EditorInv, ServerFits
<1>2. DOMAIN server' = DOMAIN server /\ server'.docs = server.docs /\ UNCHANGED <<tab, edits>>
    BY <1>1 DEF DeleteCapture
<1>3. AllSeen' = AllSeen
    BY <1>2 DEF AllSeen
<1> QED
    BY <1>2, <1>3 DEF EditorInv, ServerFits

LEMMA CloseFits == ASSUME EditorInv, NEW t \in Tabs, Close(t) PROVE EditorInv'
<1>1. PICK r : r = tab[t]
    OBVIOUS
<1>2. PICK rotation : rotation = IF r.rotation = "post" THEN "post" ELSE "none"
    OBVIOUS
<1>3. PICK q : q = [OpenTab EXCEPT !.open = FALSE, !.seen = r.seen, !.viewId = r.viewId,
                            !.beacon = IF r.dirty THEN Put(r) ELSE NoCall,
                            !.call = IF r.call.kind = "put" THEN r.call ELSE NoCall,
                            !.rotation = rotation]
    OBVIOUS
<1>4. r.open /\ tab' = [tab EXCEPT ![t] = q] /\ UNCHANGED <<server, edits>>
    BY <1>1, <1>2, <1>3 DEF Close, Becomes
<1>5. Fits(q, server.docs, edits)
    BY <1>1, <1>3, <1>4, InvParts, ClosedFits
<1>6. q.seen = r.seen
    BY <1>3, FieldsAre
<1> QED
    BY <1>1, <1>4, <1>5, <1>6, QuietStep

\* Every step.
LEMMA StepFits == ASSUME EditorInv, [Next]_vars PROVE EditorInv'
<1>1. ASSUME NEW t \in Tabs, NEW g \in Gestures, BeginShape(t, g) PROVE EditorInv'
    BY <1>1, BeginShapeFits
<1>2. ASSUME NEW t \in Tabs, NEW g \in Frames, ChangeCrop(t, CropOf(g)) PROVE EditorInv'
    <2>1. PICK crop : crop = CropOf(g)
        OBVIOUS
    <2>2. crop \in Crops /\ ChangeCrop(t, crop)
        BY <1>2, <2>1 DEF Crops
    <2> QED
        BY <2>2, ChangeCropFits
<1>3. ASSUME NEW t \in Tabs, ChangeCrop(t, NoCrop) PROVE EditorInv'
    <2>1. NoCrop \in Crops
        BY DEF Crops
    <2> QED
        BY <1>3, <2>1, ChangeCropFits
<1>4. ASSUME NEW t \in Tabs,
             EndShape(t) \/ DeleteShape(t) \/ MoveShape(t) \/ UndoChange(t) \/ RedoChange(t)
      PROVE  EditorInv'
    BY <1>4, EndShapeFits, DeleteShapeFits, MoveShapeFits, UndoChangeFits, RedoChangeFits
<1>5. ASSUME NEW t \in Tabs, TimerFires(t) \/ PutAnswered(t) \/ Reloaded(t)
      PROVE  EditorInv'
    BY <1>5, TimerFiresFits, PutAnsweredFits, ReloadsFits
<1>6. ASSUME NEW t \in Tabs, ServerPut(t) \/ ServerGet(t) \/ ServerBeacon(t) \/ Lose(t)
      PROVE  EditorInv'
    BY <1>6, ServerPutFits, ServerGetFits, ServerBeaconFits, LoseFits
<1>7. ASSUME NEW t \in Tabs,
             Rotate(t) \/ Flushed(t) \/ FlushSaved(t) \/ ServerRotate(t) \/ RotateAnswered(t) \/ Close(t)
      PROVE  EditorInv'
    BY <1>7, RotateFits, FlushedFits, FlushSavedFits, ServerRotateFits, RotateAnsweredFits, CloseFits
<1>8. CASE UNCHANGED vars
    BY <1>8 DEF vars, EditorInv, ServerFits, AllSeen
<1> QED
    BY <1>1, <1>2, <1>3, <1>4, <1>5, <1>6, <1>7, <1>8, DeleteCaptureFits DEF Next

(* The document of a tab and the revision it saved agree, what it loads is    *)
(* stored, and what it saves over was on its canvas.                          *)
THEOREM EditorsAreConsistent == Spec => []EditorInv
<1>1. Init => EditorInv
    BY InitFits
<1>2. EditorInv /\ [Next]_vars => EditorInv'
    BY StepFits
<1> QED
    BY <1>1, <1>2, PTL DEF Spec

(* "Saved" in the editor is true: a tab that is not dirty, has no save under  *)
(* way, was not told that the capture is gone and has not failed to reload    *)
(* shows the document of its revision (capture-editor.ts save, markDirty,     *)
(* reloadFromServer).                                                         *)
THEOREM CleanTabsShowTheirRevision == Spec => []CleanTabShowsItsRevision
<1>1. EditorInv => CleanTabShowsItsRevision
    <2> SUFFICES ASSUME EditorInv, NEW t \in Tabs, tab[t].open, ~tab[t].dirty, ~tab[t].saving,
                        ~tab[t].gone, ~tab[t].adrift
                 PROVE  /\ Settled(tab[t], tab[t].doc.shapes)
                             = Settled(tab[t], RenderOrder(DocAt(tab[t].rev).shapes))
                        /\ tab[t].doc.crop = DocAt(tab[t].rev).crop
        BY DEF CleanTabShowsItsRevision
    <2>1. Unchanged(tab[t], server.docs)
        BY InvParts DEF Fits, Clean
    <2>2. Same(Hidden(tab[t]), tab[t].doc, DocAt(tab[t].rev))
        BY <2>1 DEF Unchanged, DocAt
    <2>3. \A shapes : Settled(tab[t], shapes) = Visible(Hidden(tab[t]), shapes)
        BY DEF Settled, Visible, Hidden
    <2> QED
        BY <2>2, <2>3 DEF Same
<1> QED
    BY <1>1, EditorsAreConsistent, PTL

\* Only a PUT, a beacon or a lost PUT stores a document, and only of their tab.
LEMMA StoresOwn ==
    ASSUME EditorInv, [Next]_vars, server'.docs # server.docs
    PROVE  \E u \in Tabs :
             /\ \A t \in Tabs : t # u => tab'[t] = tab[t]
             /\ \E c : /\ c.kind = "put" /\ PutFits(c, tab[u].seen, server.docs)
                       /\ server' = Stored(c)
<1>1. tab = [t \in Tabs |-> tab[t]] /\ DOMAIN server = {"viewId", "live", "docs"}
    BY DEF EditorInv, ServerFits
<1>2. ASSUME NEW u \in Tabs, ServerPut(u) \/ ServerBeacon(u) \/ Lose(u)
      PROVE  /\ \A t \in Tabs : t # u => tab'[t] = tab[t]
             /\ \E c : /\ c.kind = "put" /\ PutFits(c, tab[u].seen, server.docs)
                       /\ server' = Stored(c)
    <2>1. PutFits(tab[u].call, tab[u].seen, server.docs) /\ PutFits(tab[u].beacon, tab[u].seen, server.docs)
        BY InvParts DEF Held, CallFits
    <2>2. \A t \in Tabs : t # u => tab'[t] = tab[t]
        BY <1>1, <1>2 DEF ServerPut, ServerBeacon, Lose
    <2>3. CASE ServerPut(u)
        BY <2>1, <2>2, <2>3 DEF ServerPut
    <2>4. CASE ServerBeacon(u)
        BY <2>1, <2>2, <2>4 DEF ServerBeacon
    <2>5. CASE Lose(u)
        <3>1. tab[u].call.kind = "put" /\ server' = Stored(tab[u].call)
            BY <2>5 DEF Lose
        <3> QED
            BY <2>1, <2>2, <3>1
    <2> QED
        BY <1>2, <2>3, <2>4, <2>5
<1>3. ASSUME NEW u \in Tabs, NEW g, BeginShape(u, g) \/ ChangeCrop(u, g) PROVE FALSE
    BY <1>3 DEF BeginShape, ChangeCrop
<1>4. ASSUME NEW u \in Tabs, EndShape(u) \/ DeleteShape(u) \/ MoveShape(u) \/ UndoChange(u) \/ RedoChange(u) PROVE FALSE
    BY <1>4 DEF EndShape, DeleteShape, MoveShape, UndoChange, RedoChange
<1>5. ASSUME NEW u \in Tabs, TimerFires(u) \/ PutAnswered(u) \/ Reloaded(u) \/ ServerGet(u) PROVE FALSE
    BY <1>5 DEF TimerFires, PutAnswered, Reloaded, ServerGet
<1>6. ASSUME NEW u \in Tabs, Rotate(u) \/ Flushed(u) \/ FlushSaved(u) \/ RotateAnswered(u) \/ Close(u) PROVE FALSE
    BY <1>6 DEF Rotate, Flushed, FlushSaved, RotateAnswered, Close
<1>7. ASSUME NEW u \in Tabs, ServerRotate(u) PROVE FALSE
    BY <1>1, <1>7 DEF ServerRotate
<1>8. ASSUME DeleteCapture PROVE FALSE
    BY <1>1, <1>8 DEF DeleteCapture
<1>9. CASE UNCHANGED vars
    BY <1>9 DEF vars
<1> QED
    BY <1>2, <1>3, <1>4, <1>5, <1>6, <1>7, <1>8, <1>9 DEF Next

(* No save overwrites what its tab never showed: the UPDATE lands only on the *)
(* revision the tab loaded or saved (owner.ts, annotations_rev), and whatever *)
(* that revision holds was on the tab's canvas.                               *)
THEOREM SavesAreNotBlind == Spec => NoBlindOverwrite
<1>1. EditorInv /\ [Next]_vars =>
        [\A t \in Tabs :
            server'.docs # server.docs /\ (tab'[t].call # tab[t].call \/ tab'[t].beacon # tab[t].beacon)
                => ShapesOf(DocAt(Rev)) \subseteq tab[t].seen]_vars
    <2> SUFFICES ASSUME EditorInv, [Next]_vars, server'.docs # server.docs, NEW t \in Tabs,
                        tab'[t].call # tab[t].call \/ tab'[t].beacon # tab[t].beacon
                 PROVE  ShapesOf(DocAt(Rev)) \subseteq tab[t].seen
        OBVIOUS
    <2>1. PICK u \in Tabs :
             /\ \A w \in Tabs : w # u => tab'[w] = tab[w]
             /\ \E c : /\ c.kind = "put" /\ PutFits(c, tab[u].seen, server.docs)
                       /\ server' = Stored(c)
        BY StoresOwn
    <2>2. u = t
        BY <2>1
    <2>3. PICK c : c.kind = "put" /\ PutFits(c, tab[t].seen, server.docs) /\ server' = Stored(c)
        BY <2>1, <2>2
    <2>4. DocAt(Rev) \in Docs(tab[t].seen)
        BY <2>3, StoredIs
    <2>5. DocAt(Rev).shapes \in Seq(tab[t].seen)
        BY <2>4 DEF Docs
    <2> QED
        BY <2>5, MembersOf DEF ShapesOf
<1> QED
    BY <1>1, EditorsAreConsistent, PTL DEF Spec, NoBlindOverwrite
(* The inductive invariant of the canvas, after n actions.                    *)

ForeignShapes == UNION {Members(doc.shapes) : doc \in ForeignDocs}
Ids == 1..MaxActions \cup {s.id : s \in ForeignShapes}
Words == Texts \cup {Blank} \cup {s.text : s \in ForeignShapes}

\* An id that stands for a shape, and that no shape drawn from now on will get.
Used(id, n) == id # 0 /\ id \notin (n + 1)..MaxActions

Upright(o) == o.kind = "rect" => o.w >= 0 /\ o.h >= 0

Objects(n) ==
    {o \in [id : Ids, kind : Kinds, x : Int, y : Int, w : Int, h : Int, text : Words,
            font : Int, wide : Int, opaque : BOOLEAN] : Used(o.id, n) /\ Upright(o)}

\* What shapeOf returns: saved and loaded, such a shape comes back as it was.
Saved(n) ==
    {s \in [id : Ids, kind : Kinds, x : Int, y : Int, w : Int, h : Int, text : Words, font : Int] :
        Used(s.id, n) /\ Upright(s) /\ ShapeOf(s) = s}

BlocksFirst(x) ==
    \A i, j \in DOMAIN x : i < j /\ x[j].kind = "redact" => x[i].kind = "redact"

ValidCrops == {c \in Boxes : c = NoCrop \/ (Whole(c) /\ c.x >= 0 /\ c.y >= 0 /\ c.w >= MinCrop
                                        /\ c.h >= MinCrop /\ CropInBounds(c))}

Snapshots(n) == {doc \in [shapes : Seq(Saved(n)), crop : ValidCrops] : BlocksFirst(doc.shapes)}

GestureTypes ==
    {NoGesture, [kind |-> "adjust"]}
        \cup [kind : {"frame"}, origin : Points]
        \cup [kind : {"draw"}, id : Ids \cup {0}, origin : Points]
        \cup [kind : {"drag"}, id : Ids \cup {0}]

CanvasFields ==
    {"objects", "crop", "wide", "view", "tool", "frame", "gesture", "typing", "undo", "redo",
     "stray", "torn"}

CanvasTypes(r, n) ==
    /\ DOMAIN r = CanvasFields
    /\ r.objects \in Seq(Objects(n)) /\ r.crop \in ValidCrops /\ r.frame \in Boxes
    /\ r.tool \in Tools /\ r.gesture \in GestureTypes
    /\ r.undo \in Seq(Snapshots(n)) /\ r.redo \in Seq(Snapshots(n))
    /\ r.torn \in BOOLEAN /\ r.stray \in BOOLEAN

\* The object a gesture holds; 0 when there is none, or none any more.
Holding(g) == IF g.kind \in {"draw", "drag"} THEN g.id ELSE 0

\* What goes with which tool and gesture.
Modes(r) ==
    /\ r.typing # 0 => /\ r.tool = "select" /\ r.gesture = NoGesture
                       /\ \E i \in DOMAIN r.objects : r.objects[i].id = r.typing
    /\ r.gesture.kind = "draw" => r.tool \in ShapeTools
    /\ r.frame # NoFrame => r.tool = "crop"
    /\ r.wide = EffectiveWidth(r.crop)

View(r) == r.view = IF r.tool = "crop" \/ r.crop = NoCrop THEN WholeImage ELSE r.crop

\* On whole pixels, of a size the schema takes: what a save would not change in
\* a way that shows.
Sound(s) ==
    /\ s.kind = "redact" => RedactionPixelRect(s) = Geom(s.x, s.y, s.w, s.h)
    /\ s.kind = "text" => s.font \in MinFont..MaxFont

\* Sound, and opaque: an object that no gesture holds.
Calm(o) == Sound(o) /\ (o.kind = "redact" => o.opaque)

\* The stack of the canvas.  A shape that is being drawn is no text.
Shown(r) ==
    /\ BlocksFirst(r.objects)
    /\ \A i \in DOMAIN r.objects :
         LET o == r.objects[i]
         IN /\ o.wide = r.wide
            /\ o.id # Holding(r.gesture) => Calm(o)
            /\ r.gesture.kind = "draw" /\ o.kind = "text" => Sound(o)

\* What a reload or the history brings.
Loadable(n) ==
    {s \in [id : Ids, kind : Kinds, x : Int, y : Int, w : Int, h : Int, text : Words, font : Int] :
        Used(s.id, n) /\ Upright(s) /\ Sound(s)}

LoadableDocs(n) == [shapes : Seq(Loadable(n)), crop : ValidCrops]

\* The history knows the canvas, the shape being drawn or dragged aside.
Tracked(r) ==
    ~r.torn /\ r.typing = 0 =>
        LET top == r.undo[Len(r.undo)]
        IN /\ Holding(r.gesture) = 0 => Document(r) = top
           /\ r.gesture.kind = "draw" =>
                Document([r EXCEPT !.objects = Without(@, r.gesture.id)]) = top

CanvasStands(r, n) == CanvasTypes(r, n) /\ Modes(r) /\ View(r) /\ Shown(r)
CanvasHolds(r, n) == CanvasStands(r, n) /\ r.undo # <<>> /\ Tracked(r)
CanvasInv == actions \in Nat /\ CanvasHolds(ed, actions)
-----------------------------------------------------------------------------
(* Rounding.                                                                  *)

LEMMA MaxIs == \A a, b \in Int : Max({a, b}) = IF a >= b THEN a ELSE b
<1> SUFFICES ASSUME NEW a \in Int, NEW b \in Int PROVE Max({a, b}) = IF a >= b THEN a ELSE b
    OBVIOUS
<1>1. PICK m : m = IF a >= b THEN a ELSE b
    OBVIOUS
<1>2. m \in {a, b} /\ \A y \in {a, b} : m >= y
    BY <1>1
<1>3. \A x \in {a, b} : (\A y \in {a, b} : x >= y) => x = m
    BY <1>2
<1> QED
    BY <1>1, <1>2, <1>3 DEF Max

LEMMA MinIs == \A a, b \in Int : Min({a, b}) = IF a <= b THEN a ELSE b
<1> SUFFICES ASSUME NEW a \in Int, NEW b \in Int PROVE Min({a, b}) = IF a <= b THEN a ELSE b
    OBVIOUS
<1>1. PICK m : m = IF a <= b THEN a ELSE b
    OBVIOUS
<1>2. m \in {a, b} /\ \A y \in {a, b} : m =< y
    BY <1>1
<1>3. \A x \in {a, b} : (\A y \in {a, b} : x =< y) => x = m
    BY <1>2
<1> QED
    BY <1>1, <1>2, <1>3 DEF Min

LEMMA ClampIs ==
    \A v, low, high \in Int : low <= high =>
        Clamp(v, low, high) = IF v < low THEN low ELSE IF v > high THEN high ELSE v
<1> SUFFICES ASSUME NEW v \in Int, NEW low \in Int, NEW high \in Int, low <= high
             PROVE  Clamp(v, low, high) = IF v < low THEN low ELSE IF v > high THEN high ELSE v
    OBVIOUS
<1>1. PICK m : m = Max({low, v})
    OBVIOUS
<1>2. m = (IF low >= v THEN low ELSE v) /\ m \in Int
    BY <1>1, MaxIs
<1>3. Clamp(v, low, high) = IF high <= m THEN high ELSE m
    BY <1>1, <1>2, MinIs DEF Clamp
<1> QED
    BY <1>2, <1>3

LEMMA Round2Is == \A v \in Int : Round2(v) = 2 * ((2 * v + 2) \div 4)
BY DEF Round2, RoundTo, Fine

LEMMA Round2Near ==
    \A v \in Int : Round2(v) \in Int /\ Round2(v) % 2 = 0 /\ v <= Round2(v) /\ Round2(v) <= v + 1
BY Round2Is

LEMMA Round2Keeps == \A v \in Int : v % 2 = 0 => Round2(v) = v
BY Round2Is

LEMMA Round2Twice == \A v \in Int : Round2(Round2(v)) = Round2(v)
BY Round2Near, Round2Keeps

LEMMA FloorIs == \A v \in Int : Floor(v) \in Int /\ Floor(v) % 4 = 0 /\ Floor(v) <= v /\ v < Floor(v) + 4
BY DEF Floor, Px

LEMMA CeilIs == \A v \in Int : Ceil(v) \in Int /\ Ceil(v) % 4 = 0 /\ Ceil(v) >= v /\ Ceil(v) < v + 4
<1> SUFFICES ASSUME NEW v \in Int
             PROVE  Ceil(v) \in Int /\ Ceil(v) % 4 = 0 /\ Ceil(v) >= v /\ Ceil(v) < v + 4
    OBVIOUS
<1>1. PICK u : u = -v
    OBVIOUS
<1>2. u \in Int /\ Floor(u) \in Int /\ Floor(u) % 4 = 0 /\ Floor(u) <= u /\ u < Floor(u) + 4
    BY <1>1, FloorIs
<1>3. Ceil(v) = -Floor(u)
    BY <1>1 DEF Ceil
<1> QED
    BY <1>1, <1>2, <1>3

LEMMA WholeKeeps == \A v \in Int : v % 4 = 0 => Floor(v) = v /\ Ceil(v) = v
<1> SUFFICES ASSUME NEW v \in Int, v % 4 = 0 PROVE Floor(v) = v /\ Ceil(v) = v
    OBVIOUS
<1>1. \A a, b \in Int : a % 4 = 0 /\ b % 4 = 0 /\ a <= b /\ b < a + 4 => a = b
    OBVIOUS
<1>2. Floor(v) = v
    BY <1>1, FloorIs
<1>3. Ceil(v) = v
    BY <1>1, CeilIs
<1> QED
    BY <1>2, <1>3

\* The rectangle of a block is whole, contains it, and is its own.
LEMMA PixelRectIs ==
    ASSUME NEW g, g.x \in Int, g.y \in Int, g.w \in Int, g.h \in Int
    PROVE  /\ RedactionPixelRect(g) \in Boxes /\ Whole(RedactionPixelRect(g))
           /\ RedactionPixelRect(RedactionPixelRect(g)) = RedactionPixelRect(g)
           /\ Whole(g) => RedactionPixelRect(g) = Geom(g.x, g.y, g.w, g.h)
<1>1. PICK x0 : x0 = Floor(g.x)
    OBVIOUS
<1>2. PICK y0 : y0 = Floor(g.y)
    OBVIOUS
<1>3. PICK x1 : x1 = Ceil(g.x + g.w)
    OBVIOUS
<1>4. PICK y1 : y1 = Ceil(g.y + g.h)
    OBVIOUS
<1>5. g.x + g.w \in Int /\ g.y + g.h \in Int
    OBVIOUS
<1>6. /\ x0 \in Int /\ y0 \in Int /\ x1 \in Int /\ y1 \in Int
      /\ x0 % 4 = 0 /\ y0 % 4 = 0 /\ x1 % 4 = 0 /\ y1 % 4 = 0
    BY <1>1, <1>2, <1>3, <1>4, <1>5, FloorIs, CeilIs
<1>7. PICK p : p = RedactionPixelRect(g)
    OBVIOUS
<1>8. p = [x |-> x0, y |-> y0, w |-> x1 - x0, h |-> y1 - y0]
    BY <1>1, <1>2, <1>3, <1>4, <1>7 DEF RedactionPixelRect, Geom
<1>9. (x1 - x0) % 4 = 0 /\ (y1 - y0) % 4 = 0 /\ x0 + (x1 - x0) = x1 /\ y0 + (y1 - y0) = y1
    BY <1>6
<1>10. p \in Boxes /\ Whole(p)
    BY <1>6, <1>8, <1>9 DEF Boxes, Whole, Px
<1>11. RedactionPixelRect(p) = p
    <2>1. Floor(p.x) = x0 /\ Floor(p.y) = y0 /\ Ceil(p.x + p.w) = x1 /\ Ceil(p.y + p.h) = y1
        BY <1>6, <1>8, <1>9, WholeKeeps
    <2> QED
        BY <1>8, <2>1 DEF RedactionPixelRect, Geom
<1>12. ASSUME Whole(g) PROVE p = Geom(g.x, g.y, g.w, g.h)
    <2>1. g.x % 4 = 0 /\ g.y % 4 = 0 /\ g.w % 4 = 0 /\ g.h % 4 = 0
        BY <1>12 DEF Whole, Px
    <2>2. (g.x + g.w) % 4 = 0 /\ (g.y + g.h) % 4 = 0
        BY <2>1
    <2>3. x0 = g.x /\ y0 = g.y /\ x1 = g.x + g.w /\ y1 = g.y + g.h
        BY <1>1, <1>2, <1>3, <1>4, <1>5, <2>1, <2>2, WholeKeeps
    <2> QED
        BY <1>8, <2>3 DEF Geom
<1> QED
    BY <1>7, <1>10, <1>11, <1>12

LEMMA ArrowTwice ==
    ASSUME NEW g, g.x \in Int, g.y \in Int, g.w \in Int, g.h \in Int
    PROVE  ArrowToShape(g) \in Boxes /\ ArrowToShape(ArrowToShape(g)) = ArrowToShape(g)
<1>1. PICK x0 : x0 = Round2(g.x)
    OBVIOUS
<1>2. PICK y0 : y0 = Round2(g.y)
    OBVIOUS
<1>3. PICK x1 : x1 = Round2(g.x + g.w)
    OBVIOUS
<1>4. PICK y1 : y1 = Round2(g.y + g.h)
    OBVIOUS
<1>5. g.x + g.w \in Int /\ g.y + g.h \in Int
    OBVIOUS
<1>6. /\ x0 \in Int /\ y0 \in Int /\ x1 \in Int /\ y1 \in Int
      /\ Round2(x0) = x0 /\ Round2(y0) = y0 /\ Round2(x1) = x1 /\ Round2(y1) = y1
    BY <1>1, <1>2, <1>3, <1>4, <1>5, Round2Near, Round2Twice
<1>7. PICK p : p = ArrowToShape(g)
    OBVIOUS
<1>8. p = [x |-> x0, y |-> y0, w |-> x1 - x0, h |-> y1 - y0]
    BY <1>1, <1>2, <1>3, <1>4, <1>7 DEF ArrowToShape, Geom
<1>9. x0 + (x1 - x0) = x1 /\ y0 + (y1 - y0) = y1 /\ x1 - x0 \in Int /\ y1 - y0 \in Int
    BY <1>6
<1>10. p \in Boxes
    BY <1>6, <1>8, <1>9 DEF Boxes
<1>11. ArrowToShape(p) = p
    <2>1. Round2(p.x) = x0 /\ Round2(p.y) = y0 /\ Round2(p.x + p.w) = x1 /\ Round2(p.y + p.h) = y1
        BY <1>6, <1>8, <1>9
    <2> QED
        BY <1>8, <2>1 DEF ArrowToShape, Geom
<1> QED
    BY <1>7, <1>10, <1>11

\* Saved and loaded, the geometry of a shape stays as it was saved.
LEMMA ToShapeTwice ==
    ASSUME NEW g, g.x \in Int, g.y \in Int, g.w \in Int, g.h \in Int, NEW kind \in Kinds
    PROVE  /\ ToShape(kind, g) \in Boxes /\ ToShape(kind, ToShape(kind, g)) = ToShape(kind, g)
           /\ kind = "rect" /\ g.w >= 0 /\ g.h >= 0 => ToShape(kind, g).w >= 0 /\ ToShape(kind, g).h >= 0
<1>1. CASE kind = "redact"
    BY <1>1, PixelRectIs DEF ToShape
<1>2. CASE kind = "rect"
    <2>1. PICK p : p = RectToShape(g)
        OBVIOUS
    <2>2. p = [x |-> Round2(g.x), y |-> Round2(g.y), w |-> Round2(g.w), h |-> Round2(g.h)]
        BY <2>1 DEF RectToShape, Geom
    <2>3. RectToShape(p) = p
        BY <2>2, Round2Twice DEF RectToShape, Geom
    <2>4. p \in Boxes /\ (g.w >= 0 /\ g.h >= 0 => p.w >= 0 /\ p.h >= 0)
        BY <2>2, Round2Near DEF Boxes
    <2> QED
        BY <1>2, <2>1, <2>3, <2>4 DEF ToShape
<1>3. CASE kind = "arrow"
    BY <1>3, ArrowTwice DEF ToShape
<1>4. CASE kind = "text"
    <2>1. PICK p : p = TextToShape(g)
        OBVIOUS
    <2>2. p = [x |-> Round2(g.x), y |-> Round2(g.y), w |-> 0, h |-> 0]
        BY <2>1 DEF TextToShape, Geom
    <2>3. TextToShape(p) = p
        BY <2>2, Round2Twice DEF TextToShape, Geom
    <2>4. p \in Boxes
        BY <2>2, Round2Near DEF Boxes
    <2> QED
        BY <1>4, <2>1, <2>3, <2>4 DEF ToShape
<1> QED
    BY <1>1, <1>2, <1>3, <1>4 DEF Kinds
-----------------------------------------------------------------------------
(* Shapes and objects.                                                        *)

LEMMA FontIs ==
    \A v \in Int :
        /\ ClampFont(v) \in MinFont..MaxFont /\ Round2(ClampFont(v)) \in MinFont..MaxFont
        /\ ClampFont(Round2(ClampFont(v))) = Round2(ClampFont(v))
<1> SUFFICES ASSUME NEW v \in Int
             PROVE  /\ ClampFont(v) \in MinFont..MaxFont /\ Round2(ClampFont(v)) \in MinFont..MaxFont
                    /\ ClampFont(Round2(ClampFont(v))) = Round2(ClampFont(v))
    OBVIOUS
<1>1. MinFont \in Nat /\ MaxFont \in Nat /\ MinFont <= MaxFont /\ MaxFont % 4 = 0
    BY AnnotationAssumption DEF Px
<1>2. PICK c : c = ClampFont(v)
    OBVIOUS
<1>3. c \in MinFont..MaxFont
    BY <1>1, <1>2, ClampIs DEF ClampFont
<1>4. PICK d : d = Round2(c)
    OBVIOUS
<1>5. d \in Int /\ c <= d /\ d <= c + 1 /\ d % 2 = 0
    BY <1>3, <1>4, Round2Near
<1>6. d \in MinFont..MaxFont
    <2>1. c \in Int /\ MaxFont % 2 = 0
        BY <1>1, <1>3
    <2>2. CASE c = MaxFont
        BY <1>1, <1>4, <2>1, <2>2, Round2Keeps
    <2>3. CASE c # MaxFont
        BY <1>1, <1>3, <1>5, <2>3
    <2> QED
        BY <2>2, <2>3
<1>7. ClampFont(d) = d
    BY <1>1, <1>6, ClampIs DEF ClampFont
<1> QED
    BY <1>2, <1>3, <1>4, <1>6, <1>7

\* Only these fields of an object are in the document.
LEMMA ShapeOfSame ==
    ASSUME NEW o, NEW p, o.id = p.id, o.kind = p.kind, o.text = p.text, o.font = p.font,
           o.x = p.x, o.y = p.y, o.w = p.w, o.h = p.h
    PROVE  ShapeOf(o) = ShapeOf(p)
<1>1. PICK kind : kind = o.kind
    OBVIOUS
<1>2. ToShape(kind, o) = ToShape(kind, p)
    BY DEF ToShape, RedactionPixelRect, RectToShape, ArrowToShape, TextToShape
<1> QED
    BY <1>1, <1>2 DEF ShapeOf

\* An object, or a shape, that may be on the canvas.
Proper(o, n) ==
    /\ o.id \in Ids /\ o.kind \in Kinds /\ o.text \in Words /\ o.font \in Int
    /\ o.x \in Int /\ o.y \in Int /\ o.w \in Int /\ o.h \in Int
    /\ Used(o.id, n) /\ Upright(o)

LEMMA ShapeOfIs ==
    ASSUME NEW n, NEW o, Proper(o, n)
    PROVE  /\ ShapeOf(o) \in Saved(n) /\ ShapeOf(o).id = o.id /\ ShapeOf(o).kind = o.kind
           /\ ShapeOf(o).text = o.text
<1>1. PICK kind : kind = o.kind
    OBVIOUS
<1>2. PICK p : p = ToShape(kind, o)
    OBVIOUS
<1>3. PICK font : font = IF kind = "text" THEN Round2(ClampFont(o.font)) ELSE 0
    OBVIOUS
<1>4. PICK s : s = [id |-> o.id, kind |-> kind, x |-> p.x, y |-> p.y, w |-> p.w, h |-> p.h,
                    text |-> o.text, font |-> font]
    OBVIOUS
<1>5. s = ShapeOf(o)
    BY <1>1, <1>2, <1>3, <1>4 DEF ShapeOf
<1>6. /\ p \in Boxes /\ ToShape(kind, p) = p
      /\ kind = "rect" => p.w >= 0 /\ p.h >= 0
    BY <1>1, <1>2, ToShapeTwice DEF Proper, Upright
<1>7. font \in Int /\ (kind = "text" => Round2(ClampFont(font)) = font)
    <2>1. o.font \in Int
        BY DEF Proper
    <2>2. CASE kind = "text"
        <3>1. PICK c : c = ClampFont(o.font)
            OBVIOUS
        <3>2. c \in Int /\ Round2(c) \in Int /\ ClampFont(Round2(c)) = Round2(c) /\ Round2(Round2(c)) = Round2(c)
            <4>1. c \in MinFont..MaxFont
                BY <2>1, <3>1, FontIs
            <4>2. c \in Int
                BY <4>1, AnnotationAssumption
            <4> QED
                BY <2>1, <3>1, <4>2, FontIs, Round2Near, Round2Twice
        <3> QED
            BY <1>3, <2>2, <3>1, <3>2
    <2>3. CASE kind # "text"
        BY <1>3, <2>3
    <2> QED
        BY <2>2, <2>3
<1>8. s \in [id : Ids, kind : Kinds, x : Int, y : Int, w : Int, h : Int, text : Words, font : Int]
    BY <1>1, <1>4, <1>6, <1>7 DEF Proper, Boxes
<1>9. ToShape(kind, s) = p
    <2>1. s.x = p.x /\ s.y = p.y /\ s.w = p.w /\ s.h = p.h
        BY <1>4
    <2>2. ToShape(kind, s) = ToShape(kind, p)
        BY <2>1 DEF ToShape, RedactionPixelRect, RectToShape, ArrowToShape, TextToShape
    <2> QED
        BY <1>6, <2>2
<1>10. ShapeOf(s) = s
    <2>1. font = IF kind = "text" THEN Round2(ClampFont(font)) ELSE 0
        BY <1>3, <1>7
    <2>2. s.id = o.id /\ s.kind = kind /\ s.text = o.text /\ s.font = font
        BY <1>4
    <2> QED
        BY <1>4, <1>9, <2>1, <2>2 DEF ShapeOf
<1>11. Used(s.id, n) /\ Upright(s)
    BY <1>1, <1>4, <1>6 DEF Proper, Upright
<1> QED
    BY <1>1, <1>4, <1>5, <1>8, <1>10, <1>11 DEF Saved

LEMMA ObjectsAreProper ==
    ASSUME NEW n
    PROVE  /\ \A o \in Objects(n) : Proper(o, n)
           /\ \A s \in Saved(n) : Proper(s, n)
           /\ \A s \in Loadable(n) : Proper(s, n)
BY DEF Objects, Saved, Loadable, Proper

\* What was saved loads soundly.
LEMMA SavedIsLoadable ==
    ASSUME NEW n PROVE Saved(n) \subseteq Loadable(n)
<1> SUFFICES ASSUME NEW s \in Saved(n) PROVE s \in Loadable(n)
    OBVIOUS
<1>1. Proper(s, n) /\ ShapeOf(s) = s
    BY ObjectsAreProper DEF Saved
<1>2. PICK p : p = ToShape(s.kind, s)
    OBVIOUS
<1>3. PICK f : f = ShapeOf(s)
    OBVIOUS
<1>4. /\ f.x = p.x /\ f.y = p.y /\ f.w = p.w /\ f.h = p.h
      /\ f.font = IF s.kind = "text" THEN Round2(ClampFont(s.font)) ELSE 0
    BY <1>2, <1>3 DEF ShapeOf
<1>5. f = s
    BY <1>1, <1>3
<1>6. ASSUME s.kind = "redact" PROVE RedactionPixelRect(s) = Geom(s.x, s.y, s.w, s.h)
    <2>1. p = RedactionPixelRect(s)
        BY <1>2, <1>6 DEF ToShape
    <2>2. p \in Boxes
        BY <1>1, <2>1, PixelRectIs DEF Proper
    <2>3. p = [x |-> p.x, y |-> p.y, w |-> p.w, h |-> p.h]
        BY <2>2 DEF Boxes
    <2> QED
        BY <1>4, <1>5, <2>1, <2>3 DEF Geom
<1>7. ASSUME s.kind = "text" PROVE s.font \in MinFont..MaxFont
    BY <1>1, <1>4, <1>5, <1>7, FontIs DEF Proper
<1>8. Sound(s)
    BY <1>6, <1>7 DEF Sound
<1> QED
    BY <1>8 DEF Saved, Loadable

LEMMA LoadedObject ==
    ASSUME NEW n, NEW s \in Loadable(n), NEW wide \in Int
    PROVE  /\ ObjectFrom(s, wide) \in Objects(n) /\ Calm(ObjectFrom(s, wide))
           /\ ObjectFrom(s, wide).wide = wide /\ ObjectFrom(s, wide).kind = s.kind
           /\ ShapeOf(ObjectFrom(s, wide)) = ShapeOf(s)
<1>1. PICK o : o = ObjectFrom(s, wide)
    OBVIOUS
<1>2. o = [id |-> s.id, kind |-> s.kind, x |-> s.x, y |-> s.y, w |-> s.w, h |-> s.h, text |-> s.text,
           font |-> s.font, wide |-> wide, opaque |-> TRUE]
    BY <1>1 DEF ObjectFrom
<1>3. o \in Objects(n)
    BY <1>2 DEF Objects, Loadable, Upright
<1>4. Calm(o)
    <2>1. RedactionPixelRect(o) = RedactionPixelRect(s)
        BY <1>2 DEF RedactionPixelRect
    <2> QED
        BY <1>2, <2>1 DEF Loadable, Calm, Sound
<1>5. ShapeOf(o) = ShapeOf(s)
    BY <1>2, ShapeOfSame
<1> QED
    BY <1>1, <1>2, <1>3, <1>4, <1>5

\* The fields of an object, whatever EXCEPT leaves of them.
ObjectFields == {"id", "kind", "x", "y", "w", "h", "text", "font", "wide", "opaque"}

LEMMA ObjectIs ==
    ASSUME NEW n, NEW o, DOMAIN o = ObjectFields,
           o = [f \in ObjectFields |-> o[f]]
    PROVE  o \in Objects(n) <=> Proper(o, n) /\ o.wide \in Int /\ o.opaque \in BOOLEAN
<1>1. o = [id |-> o.id, kind |-> o.kind, x |-> o.x, y |-> o.y, w |-> o.w, h |-> o.h, text |-> o.text,
           font |-> o.font, wide |-> o.wide, opaque |-> o.opaque]
    BY DEF ObjectFields
<1>2. ASSUME Proper(o, n), o.wide \in Int, o.opaque \in BOOLEAN PROVE o \in Objects(n)
    BY <1>1, <1>2 DEF Objects, Proper
<1>3. ASSUME o \in Objects(n) PROVE Proper(o, n) /\ o.wide \in Int /\ o.opaque \in BOOLEAN
    BY <1>3 DEF Objects, Proper
<1> QED
    BY <1>2, <1>3

LEMMA FieldsOfObject ==
    ASSUME NEW n, NEW o \in Objects(n)
    PROVE  DOMAIN o = ObjectFields /\ o = [f \in ObjectFields |-> o[f]]
           /\ Proper(o, n) /\ o.wide \in Int /\ o.opaque \in BOOLEAN
BY DEF Objects, ObjectFields, Proper

\* A block that settles is the same shape.
LEMMA SettleIs ==
    ASSUME NEW n, NEW o \in Objects(n), o.kind = "redact"
    PROVE  /\ Settle(o) \in Objects(n) /\ Calm(Settle(o)) /\ ShapeOf(Settle(o)) = ShapeOf(o)
           /\ Settle(o).id = o.id /\ Settle(o).kind = o.kind /\ Settle(o).wide = o.wide
<1>1. PICK p : p = RedactionPixelRect(o)
    OBVIOUS
<1>2. p \in Boxes /\ RedactionPixelRect(p) = p
    BY <1>1, FieldsOfObject, PixelRectIs DEF Proper
<1>3. PICK q : q = Settle(o)
    OBVIOUS
<1>4. /\ DOMAIN q = ObjectFields /\ q = [f \in ObjectFields |-> q[f]]
      /\ q.id = o.id /\ q.kind = o.kind /\ q.text = o.text /\ q.font = o.font /\ q.wide = o.wide
      /\ q.x = p.x /\ q.y = p.y /\ q.w = p.w /\ q.h = p.h /\ q.opaque = TRUE
    BY <1>1, <1>3, FieldsOfObject DEF Settle, Placed, ObjectFields
<1>5. Proper(q, n)
    BY <1>2, <1>4, FieldsOfObject DEF Proper, Boxes, Upright
<1>6. q \in Objects(n)
    BY <1>4, <1>5, ObjectIs, FieldsOfObject
<1>7. RedactionPixelRect(q) = p /\ p = Geom(q.x, q.y, q.w, q.h)
    <2>1. RedactionPixelRect(q) = RedactionPixelRect(p)
        BY <1>4 DEF RedactionPixelRect
    <2> QED
        BY <1>2, <1>4, <2>1 DEF Boxes, Geom
<1>8. Calm(q)
    BY <1>4, <1>7 DEF Calm, Sound
<1>9. ToShape("redact", q) = p /\ ToShape("redact", o) = p
    BY <1>1, <1>7 DEF ToShape
<1>10. ShapeOf(q) = ShapeOf(o)
    BY <1>4, <1>9 DEF ShapeOf
<1> QED
    BY <1>3, <1>4, <1>6, <1>8, <1>10
-----------------------------------------------------------------------------
(* Sequences of objects.                                                      *)

Mapped(x, f) == [i \in DOMAIN x |-> f[x[i]]]

LEMMA MappedIs ==
    ASSUME NEW T, NEW x \in Seq(T), NEW f
    PROVE  /\ Len(Mapped(x, f)) = Len(x) /\ DOMAIN Mapped(x, f) = DOMAIN x
           /\ \A i \in DOMAIN x : x[i] \in T /\ Mapped(x, f)[i] = f[x[i]]
<1>1. Len(x) \in Nat /\ DOMAIN x = 1..Len(x) /\ \A i \in DOMAIN x : x[i] \in T
    BY LenProperties, ElementOfSeq
<1> QED
    BY <1>1 DEF Mapped

LEMMA MappedSeq ==
    ASSUME NEW T, NEW U, NEW x \in Seq(T), NEW f, \A t \in T : f[t] \in U
    PROVE  Mapped(x, f) \in Seq(U)
<1>1. Len(x) \in Nat /\ DOMAIN x = 1..Len(x) /\ \A i \in DOMAIN x : x[i] \in T
    BY LenProperties, ElementOfSeq
<1>2. Mapped(x, f) \in [1..Len(x) -> U]
    BY <1>1 DEF Mapped
<1> QED
    BY <1>1, <1>2

LEMMA MappedAppend ==
    ASSUME NEW T, NEW x \in Seq(T), NEW t \in T, NEW f
    PROVE  Mapped(Append(x, t), f) = Append(Mapped(x, f), f[t])
<1>1. PICK U : \A u \in T : f[u] \in U
    <2>1. \A u \in T : f[u] \in {f[v] : v \in T}
        OBVIOUS
    <2> QED
        BY <2>1
<1>2. PICK n \in Nat : n = Len(x)
    BY LenProperties
<1>3. PICK y : y = Append(x, t)
    OBVIOUS
<1>4. y \in Seq(T) /\ Len(y) = n + 1 /\ DOMAIN x = 1..n /\ \A i \in 1..n : y[i] = x[i] /\ x[i] \in T
    BY <1>2, <1>3, AppendProperties, LenProperties, ElementOfSeq
<1>5. y[n + 1] = t /\ DOMAIN y = 1..(n + 1)
    BY <1>2, <1>3, <1>4, AppendProperties, LenProperties
<1>6. PICK a : a = Mapped(x, f)
    OBVIOUS
<1>7. a \in Seq(U) /\ Len(a) = n /\ \A i \in 1..n : a[i] = f[x[i]]
    <2>1. Mapped(x, f) \in Seq(U) /\ Len(Mapped(x, f)) = Len(x) /\ \A i \in DOMAIN x : Mapped(x, f)[i] = f[x[i]]
        BY <1>1, MappedIs, MappedSeq
    <2> QED
        BY <1>2, <1>4, <1>6, <2>1
<1>8. PICK b : b = Append(a, f[t])
    OBVIOUS
<1>9. b \in Seq(U) /\ Len(b) = n + 1 /\ b[n + 1] = f[t] /\ \A i \in 1..n : b[i] = a[i]
    <2>1. f[t] \in U
        BY <1>1
    <2> QED
        BY <1>7, <1>8, <2>1, AppendProperties
<1>10. PICK c : c = Mapped(y, f)
    OBVIOUS
<1>11. c \in Seq(U) /\ Len(c) = n + 1 /\ \A i \in 1..(n + 1) : c[i] = f[y[i]]
    <2>1. Mapped(y, f) \in Seq(U) /\ Len(Mapped(y, f)) = Len(y) /\ \A i \in DOMAIN y : Mapped(y, f)[i] = f[y[i]]
        BY <1>1, <1>4, MappedIs, MappedSeq
    <2> QED
        BY <1>4, <1>5, <1>10, <2>1
<1>12. \A i \in 1..(n + 1) : b[i] = c[i]
    <2> SUFFICES ASSUME NEW i \in 1..(n + 1) PROVE b[i] = c[i]
        OBVIOUS
    <2>1. CASE i = n + 1
        BY <1>5, <1>9, <1>11, <2>1
    <2>2. CASE i # n + 1
        <3>1. i \in 1..n
            BY <2>2
        <3> QED
            BY <1>4, <1>7, <1>9, <1>11, <3>1
    <2> QED
        BY <2>1, <2>2
<1>13. DOMAIN b = 1..(n + 1) /\ DOMAIN c = 1..(n + 1)
    BY <1>9, <1>11, LenProperties
<1> QED
    BY <1>3, <1>6, <1>8, <1>9, <1>10, <1>11, <1>12, SeqEqual

\* A filter of a map is the map of a filter.
LEMMA OnlyOfMapped ==
    ASSUME NEW T, NEW x \in Seq(T), NEW f, NEW S, NEW P,
           \A t \in T : f[t] \in S <=> t \in P
    PROVE  Only(Mapped(x, f), S) = Mapped(Only(x, P), f)
<1>1. PICK U : \A u \in T : f[u] \in U
    <2>1. \A u \in T : f[u] \in {f[v] : v \in T}
        OBVIOUS
    <2> QED
        BY <2>1
<1> DEFINE Ss == {s \in Seq(T) : Only(Mapped(s, f), S) = Mapped(Only(s, P), f)}
<1>2. <<>> \in Ss
    <2>1. Mapped(<<>>, f) = <<>>
        BY DEF Mapped
    <2> QED
        BY <2>1, OnlyEmpty, EmptySeq
<1>3. ASSUME NEW s \in Seq(T), NEW t \in T, s \in Ss PROVE Append(s, t) \in Ss
    <2>1. Append(s, t) \in Seq(T)
        BY AppendProperties
    <2>2. PICK m : m = Mapped(s, f)
        OBVIOUS
    <2>3. PICK o : o = Only(s, P)
        OBVIOUS
    <2>4. m \in Seq(U) /\ o \in Seq(T) /\ f[t] \in U /\ Only(m, S) = Mapped(o, f)
        <3>1. m \in Seq(U)
            BY <1>1, <2>2, MappedSeq
        <3>2. o \in Seq(T) /\ f[t] \in U
            BY <1>1, <2>3, OnlySeq
        <3> QED
            BY <1>3, <2>2, <2>3, <3>1, <3>2
    <2>5. Mapped(Append(s, t), f) = Append(m, f[t])
        <3>1. Mapped(Append(s, t), f) = Append(Mapped(s, f), f[t])
            BY MappedAppend
        <3> QED
            BY <2>2, <3>1
    <2>6. Only(Append(m, f[t]), S) = IF f[t] \in S THEN Append(Only(m, S), f[t]) ELSE Only(m, S)
        <3>1. PICK u : u = f[t]
            OBVIOUS
        <3>2. u \in U /\ m \in Seq(U)
            BY <2>4, <3>1
        <3>3. Only(Append(m, u), S) = IF u \in S THEN Append(Only(m, S), u) ELSE Only(m, S)
            BY <3>2, OnlyAppend
        <3> QED
            BY <3>1, <3>3
    <2>7. Only(Append(s, t), P) = IF t \in P THEN Append(o, t) ELSE o
        BY <2>3, OnlyAppend
    <2>8. Mapped(Append(o, t), f) = Append(Mapped(o, f), f[t])
        <3>1. o \in Seq(T)
            BY <2>4
        <3> QED
            BY <3>1, MappedAppend
    <2> QED
        BY <2>1, <2>4, <2>5, <2>6, <2>7, <2>8
<1> HIDE DEF Ss
<1>4. x \in Ss
    BY <1>2, <1>3, SequencesFollow
<1> QED
    BY <1>4 DEF Ss

LEMMA LayeredIsBlocksFirst ==
    ASSUME NEW T, NEW x, Layered(x, T)
    PROVE  x \in Seq(T) /\ BlocksFirst(x)
<1>1. PICK a \in Seq(BlocksIn(T)), b \in Seq(RestIn(T)) : x = a \o b
    BY DEF Layered
<1>2. a \in Seq(T) /\ b \in Seq(T) /\ x \in Seq(T)
    BY <1>1, SplitIsSeq
<1>3. PICK n \in Nat : n = Len(a)
    BY <1>2, LenProperties
<1>4. PICK m \in Nat : m = Len(b)
    BY <1>2, LenProperties
<1>5. /\ Len(x) = n + m /\ DOMAIN x = 1..(n + m)
      /\ \A i \in 1..(n + m) : x[i] = IF i <= n THEN a[i] ELSE b[i - n]
    BY <1>1, <1>2, <1>3, <1>4, ConcatProperties, LenProperties
<1>6. \A i \in 1..(n + m) : x[i].kind = "redact" <=> i <= n
    <2> SUFFICES ASSUME NEW i \in 1..(n + m) PROVE x[i].kind = "redact" <=> i <= n
        OBVIOUS
    <2>1. CASE i <= n
        <3>1. i \in 1..n
            BY <2>1
        <3>2. a[i] \in BlocksIn(T)
            BY <1>1, <1>3, <3>1, ElementOfSeq
        <3> QED
            BY <1>5, <2>1, <3>2 DEF BlocksIn
    <2>2. CASE ~(i <= n)
        <3>1. i - n \in 1..m
            BY <2>2
        <3>2. b[i - n] \in RestIn(T)
            BY <1>1, <1>4, <3>1, ElementOfSeq
        <3>3. x[i] = b[i - n]
            BY <1>5, <2>2
        <3>4. x[i].kind # "redact"
            BY <3>2, <3>3 DEF RestIn, BlocksIn
        <3> QED
            BY <2>2, <3>4
    <2> QED
        BY <2>1, <2>2
<1>7. BlocksFirst(x)
    BY <1>5, <1>6 DEF BlocksFirst
<1> QED
    BY <1>2, <1>7

LEMMA BlocksFirstAppend ==
    ASSUME NEW T, NEW x \in Seq(T), NEW t \in T
    PROVE  BlocksFirst(Append(x, t)) <=>
             /\ BlocksFirst(x)
             /\ t.kind = "redact" => \A i \in DOMAIN x : x[i].kind = "redact"
<1>1. PICK n \in Nat : n = Len(x)
    BY LenProperties
<1>2. PICK y : y = Append(x, t)
    OBVIOUS
<1>3. Len(y) = n + 1 /\ DOMAIN x = 1..n /\ \A i \in 1..n : y[i] = x[i]
    BY <1>1, <1>2, AppendProperties, LenProperties
<1>4. y[n + 1] = t /\ DOMAIN y = 1..(n + 1)
    BY <1>1, <1>2, <1>3, AppendProperties, LenProperties
<1>5. ASSUME BlocksFirst(y)
      PROVE  BlocksFirst(x) /\ (t.kind = "redact" => \A i \in DOMAIN x : x[i].kind = "redact")
    <2>1. \A i \in 1..n : i \in 1..(n + 1) /\ n + 1 \in 1..(n + 1) /\ i < n + 1
        OBVIOUS
    <2> QED
        BY <1>3, <1>4, <1>5, <2>1 DEF BlocksFirst
<1>6. ASSUME BlocksFirst(x), t.kind = "redact" => \A i \in DOMAIN x : x[i].kind = "redact"
      PROVE  BlocksFirst(y)
    <2> SUFFICES ASSUME NEW i \in 1..(n + 1), NEW j \in 1..(n + 1), i < j, y[j].kind = "redact"
                 PROVE  y[i].kind = "redact"
        BY <1>4 DEF BlocksFirst
    <2>1. i \in 1..n
        OBVIOUS
    <2>2. CASE j = n + 1
        BY <1>3, <1>4, <1>6, <2>1, <2>2
    <2>3. CASE j # n + 1
        <3>1. j \in 1..n
            BY <2>3
        <3> QED
            BY <1>3, <1>6, <2>1, <3>1 DEF BlocksFirst
    <2> QED
        BY <2>2, <2>3
<1> QED
    BY <1>2, <1>5, <1>6

\* With its blocks first a sequence is in two parts.
LEMMA BlocksFirstIsLayered ==
    ASSUME NEW T, NEW x \in Seq(T), BlocksFirst(x)
    PROVE  Layered(x, T)
<1> DEFINE Ss == {s \in Seq(T) : BlocksFirst(s) => Layered(s, T)}
<1>1. <<>> \in Ss
    <2>1. <<>> \in Seq(T) /\ <<>> \in Seq(BlocksIn(T)) /\ <<>> \in Seq(RestIn(T)) /\ <<>> = <<>> \o <<>>
        BY EmptySeq, ConcatEmptySeq
    <2> QED
        BY <2>1 DEF Layered
<1>2. ASSUME NEW s \in Seq(T), NEW t \in T, s \in Ss PROVE Append(s, t) \in Ss
    <2>1. Append(s, t) \in Seq(T)
        BY AppendProperties
    <2> SUFFICES ASSUME BlocksFirst(Append(s, t)) PROVE Layered(Append(s, t), T)
        BY <2>1
    <2>2. BlocksFirst(s) /\ (t.kind = "redact" => \A i \in DOMAIN s : s[i].kind = "redact")
        BY BlocksFirstAppend
    <2>3. PICK a \in Seq(BlocksIn(T)), b \in Seq(RestIn(T)) : s = a \o b
        BY <1>2, <2>2 DEF Layered
    <2>4. CASE t.kind # "redact"
        <3>1. t \in RestIn(T)
            BY <2>4 DEF RestIn, BlocksIn
        <3>2. Append(b, t) \in Seq(RestIn(T))
            BY <3>1, AppendProperties
        <3>3. a \in Seq(T) /\ b \in Seq(T)
            BY SplitIsSeq
        <3>4. Append(s, t) = a \o Append(b, t)
            <4>1. a \o Append(b, t) = Append(a \o b, t)
                BY <3>3, ConcatAppend
            <4> QED
                BY <2>3, <4>1
        <3> QED
            BY <3>2, <3>4 DEF Layered
    <2>5. CASE t.kind = "redact"
        <3>1. Len(s) \in Nat /\ DOMAIN s = 1..Len(s) /\ \A i \in DOMAIN s : s[i] \in T
            BY LenProperties, ElementOfSeq
        <3>2. \A i \in DOMAIN s : s[i] \in BlocksIn(T)
            BY <2>2, <2>5, <3>1 DEF BlocksIn
        <3>3. s \in Seq(BlocksIn(T))
            <4>1. s = [i \in 1..Len(s) |-> s[i]]
                BY <3>1
            <4>2. s \in [1..Len(s) -> BlocksIn(T)]
                BY <3>1, <3>2, <4>1
            <4> QED
                BY <3>1, <4>2
        <3>4. t \in BlocksIn(T)
            BY <2>5 DEF BlocksIn
        <3>5. Append(s, t) \in Seq(BlocksIn(T))
            BY <3>3, <3>4, AppendProperties
        <3>6. <<>> \in Seq(RestIn(T)) /\ Append(s, t) = Append(s, t) \o <<>>
            BY <2>1, EmptySeq, ConcatEmptySeq
        <3> QED
            BY <3>5, <3>6 DEF Layered
    <2> QED
        BY <2>4, <2>5
<1> HIDE DEF Ss
<1>3. x \in Ss
    BY <1>1, <1>2, SequencesFollow
<1> QED
    BY <1>3 DEF Ss

\* The order is of kinds alone.
LEMMA BlocksFirstOfAlike ==
    ASSUME NEW x, NEW y, DOMAIN y = DOMAIN x, \A i \in DOMAIN x : y[i].kind = x[i].kind, BlocksFirst(x)
    PROVE  BlocksFirst(y)
BY DEF BlocksFirst

LEMMA WithoutIs ==
    ASSUME NEW T, NEW x \in Seq(T), NEW id
    PROVE  /\ Without(x, id) = Only(x, {t \in T : t.id # id})
           /\ Without(x, id) \in Seq({t \in T : t.id # id}) /\ Without(x, id) \in Seq(T)
           /\ BlocksFirst(x) => BlocksFirst(Without(x, id))
<1>1. x \in Seq(Members(x)) /\ Members(x) \subseteq T
    BY MembersOf
<1>2. Without(x, id) = Only(x, {t \in T : t.id # id})
    <2>1. \A t \in Members(x) : t \in {o \in Members(x) : o.id # id} <=> t \in {o \in T : o.id # id}
        BY <1>1
    <2> QED
        BY <1>1, <2>1, OnlyAlike DEF Without
<1>3. PICK S : S = {t \in T : t.id # id}
    OBVIOUS
<1>4. Only(x, S) \in Seq(S) /\ Only(x, S) \in Seq(T)
    <2>1. T \cap S = S
        BY <1>3
    <2> QED
        BY <2>1, OnlyKept, OnlySeq
<1>5. ASSUME BlocksFirst(x) PROVE BlocksFirst(Only(x, S))
    BY <1>5, BlocksFirstIsLayered, LayeredOnly, LayeredIsBlocksFirst
<1> QED
    BY <1>2, <1>3, <1>4, <1>5

LEMMA WithoutNobody ==
    ASSUME NEW T, NEW x \in Seq(T), NEW id, \A i \in DOMAIN x : x[i].id # id
    PROVE  Without(x, id) = x
<1>1. x \in Seq(Members(x))
    BY MembersOf
<1>2. Members(x) \subseteq {o \in Members(x) : o.id # id}
    BY DEF Members
<1> QED
    BY <1>1, <1>2, OnlyAll DEF Without
-----------------------------------------------------------------------------
(* The document of a canvas.                                                  *)

LEMMA TypesGrow ==
    ASSUME NEW n \in Nat
    PROVE  /\ Objects(n) \subseteq Objects(n + 1) /\ Saved(n) \subseteq Saved(n + 1)
           /\ Loadable(n) \subseteq Loadable(n + 1) /\ Snapshots(n) \subseteq Snapshots(n + 1)
<1>1. \A id : Used(id, n) => Used(id, n + 1)
    <2>1. MaxActions \in Nat
        BY CanvasAssumption
    <2>2. (n + 1) + 1 = n + 2 /\ (n + 2)..MaxActions \subseteq (n + 1)..MaxActions
        BY <2>1
    <2> QED
        BY <2>2 DEF Used
<1>2. Objects(n) \subseteq Objects(n + 1)
    BY <1>1 DEF Objects
<1>3. Saved(n) \subseteq Saved(n + 1)
    BY <1>1 DEF Saved
<1>4. Loadable(n) \subseteq Loadable(n + 1)
    BY <1>1 DEF Loadable
<1>5. Seq(Saved(n)) \subseteq Seq(Saved(n + 1))
    BY <1>3, SeqMonotonic
<1> QED
    BY <1>2, <1>3, <1>4, <1>5 DEF Snapshots

LEMMA CanvasGrows ==
    ASSUME NEW n \in Nat, NEW r, CanvasTypes(r, n)
    PROVE  CanvasTypes(r, n + 1)
<1>1. r.objects \in Seq(Objects(n + 1)) /\ r.undo \in Seq(Snapshots(n + 1)) /\ r.redo \in Seq(Snapshots(n + 1))
    BY TypesGrow, SeqMonotonic DEF CanvasTypes
<1> QED
    BY <1>1 DEF CanvasTypes

LEMMA ObjectsOf ==
    ASSUME NEW n, NEW x \in Seq(Objects(n))
    PROVE  /\ Len(x) \in Nat /\ DOMAIN x = 1..Len(x)
           /\ \A i \in DOMAIN x : x[i] \in Objects(n) /\ Proper(x[i], n) /\ x[i].id # 0
<1>1. Len(x) \in Nat /\ DOMAIN x = 1..Len(x) /\ \A i \in DOMAIN x : x[i] \in Objects(n)
    BY LenProperties, ElementOfSeq
<1> QED
    BY <1>1, ObjectsAreProper DEF Proper, Used

LEMMA ShapesAre ==
    ASSUME NEW n, NEW r, r.objects \in Seq(Objects(n)), BlocksFirst(r.objects)
    PROVE  Shapes(r) \in Seq(Saved(n)) /\ BlocksFirst(Shapes(r))
<1>1. PICK x : x = r.objects
    OBVIOUS
<1>2. PICK f : f = [o \in Objects(n) |-> ShapeOf(o)]
    OBVIOUS
<1>3. x \in Seq(Objects(n)) /\ \A o \in Objects(n) : f[o] = ShapeOf(o) /\ f[o] \in Saved(n) /\ f[o].kind = o.kind
    BY <1>1, <1>2, ObjectsAreProper, ShapeOfIs
<1>4. Mapped(x, f) \in Seq(Saved(n))
    BY <1>3, MappedSeq
<1>5. Shapes(r) = Mapped(x, f)
    BY <1>1, <1>3, ObjectsOf DEF Shapes, Mapped
<1>6. DOMAIN Shapes(r) = DOMAIN x /\ \A i \in DOMAIN x : Shapes(r)[i].kind = x[i].kind
    BY <1>1, <1>3, ObjectsOf DEF Shapes
<1>7. BlocksFirst(Shapes(r))
    BY <1>1, <1>6, BlocksFirstOfAlike
<1> QED
    BY <1>4, <1>5, <1>7

LEMMA DocumentIs ==
    ASSUME NEW n, NEW r, CanvasTypes(r, n), BlocksFirst(r.objects)
    PROVE  Document(r) \in Snapshots(n)
BY ShapesAre DEF Document, Snapshots, CanvasTypes

LEMMA SameDocument ==
    ASSUME NEW r, NEW q, q.crop = r.crop, DOMAIN q.objects = DOMAIN r.objects,
           \A i \in DOMAIN r.objects : ShapeOf(q.objects[i]) = ShapeOf(r.objects[i])
    PROVE  Document(q) = Document(r)
BY DEF Document, Shapes

\* The first of a canvas's objects with the same document, filtered alike, have the same.
LEMMA DocumentOf ==
    ASSUME NEW r, NEW q, q.crop = r.crop, q.objects = r.objects
    PROVE  Document(q) = Document(r)
BY DEF Document, Shapes

-----------------------------------------------------------------------------
(* The operators the handlers are made of.                                    *)

\* What the parts of the invariant read.
LEMMA TypesElsewhere ==
    ASSUME NEW n, NEW r, CanvasTypes(r, n), NEW q, DOMAIN q = DOMAIN r, q.objects = r.objects,
           q.crop = r.crop, q.frame \in Boxes, q.tool \in Tools, q.gesture \in GestureTypes,
           q.undo \in Seq(Snapshots(n)), q.redo \in Seq(Snapshots(n)),
           q.torn \in BOOLEAN, q.stray \in BOOLEAN
    PROVE  CanvasTypes(q, n)
BY DEF CanvasTypes

LEMMA ShownElsewhere ==
    ASSUME NEW r, Shown(r), NEW q, q.objects = r.objects, q.wide = r.wide, q.gesture = r.gesture
    PROVE  Shown(q)
BY DEF Shown

LEMMA TrackedElsewhere ==
    ASSUME NEW r, DOMAIN r = CanvasFields, Tracked(r), NEW q, DOMAIN q = CanvasFields,
           q.objects = r.objects, q.crop = r.crop,
           q.torn = r.torn, q.gesture = r.gesture, q.undo = r.undo, q.typing = r.typing
    PROVE  Tracked(q)
<1>1. Document(q) = Document(r)
    BY DocumentOf
<1>2. PICK x : x = Without(r.objects, r.gesture.id)
    OBVIOUS
<1>3. PICK a : a = [r EXCEPT !.objects = x]
    OBVIOUS
<1>4. PICK b : b = [q EXCEPT !.objects = x]
    OBVIOUS
<1>5. a.objects = x /\ b.objects = x /\ a.crop = b.crop
    BY <1>3, <1>4 DEF CanvasFields
<1>6. Document(a) = Document(b)
    BY <1>5, DocumentOf
<1> QED
    BY <1>1, <1>2, <1>3, <1>4, <1>6 DEF Tracked

LEMMA CommitIs ==
    ASSUME NEW n, NEW r, CanvasTypes(r, n), BlocksFirst(r.objects)
    PROVE  /\ CanvasTypes(Commit(r), n) /\ Commit(r).wide = r.wide /\ Commit(r).view = r.view
           /\ Commit(r).objects = r.objects /\ Commit(r).crop = r.crop /\ Commit(r).tool = r.tool
           /\ Commit(r).frame = r.frame /\ Commit(r).gesture = r.gesture
           /\ Commit(r).typing = r.typing /\ Commit(r).torn = r.torn
           /\ Commit(r).stray = r.stray
           /\ r.undo # <<>> => /\ Commit(r).undo # <<>>
                               /\ Commit(r).undo[Len(Commit(r).undo)] = Document(r)
<1>1. PICK doc : doc = Document(r)
    OBVIOUS
<1>2. doc \in Snapshots(n)
    BY <1>1, DocumentIs
<1>3. PICK undo : undo = Append(r.undo, doc)
    OBVIOUS
<1>4. r.undo \in Seq(Snapshots(n)) /\ DOMAIN r = CanvasFields
    BY DEF CanvasTypes
<1>5. undo \in Seq(Snapshots(n)) /\ undo # <<>> /\ undo[Len(undo)] = doc
    BY <1>2, <1>3, <1>4, AppendProperties
<1>6. <<>> \in Seq(Snapshots(n))
    BY EmptySeq
<1>7. PICK q : q = [r EXCEPT !.undo = undo, !.redo = <<>>]
    OBVIOUS
<1>8. /\ DOMAIN q = DOMAIN r /\ q.objects = r.objects /\ q.crop = r.crop /\ q.wide = r.wide /\ q.view = r.view
      /\ q.tool = r.tool /\ q.frame = r.frame /\ q.gesture = r.gesture /\ q.typing = r.typing
      /\ q.torn = r.torn /\ q.stray = r.stray /\ q.undo = undo /\ q.redo = <<>>
    BY <1>4, <1>7 DEF CanvasFields
<1>9. CanvasTypes(q, n)
    BY <1>5, <1>6, <1>8 DEF CanvasTypes
<1>10. Commit(r) = IF doc = r.undo[Len(r.undo)] THEN r ELSE q
    BY <1>1, <1>3, <1>7 DEF Commit, Last
<1>11. CASE doc = r.undo[Len(r.undo)]
    BY <1>1, <1>10, <1>11
<1>12. CASE doc # r.undo[Len(r.undo)]
    BY <1>1, <1>5, <1>8, <1>9, <1>10, <1>12
<1> QED
    BY <1>11, <1>12

\* After a commit the history knows the canvas.
LEMMA CommitHolds ==
    ASSUME NEW n, NEW r, CanvasStands(r, n), r.undo # <<>>, r.gesture.kind # "draw"
    PROVE  CanvasHolds(Commit(r), n)
<1>1. PICK q : q = Commit(r)
    OBVIOUS
<1>2. CanvasTypes(r, n) /\ BlocksFirst(r.objects)
    BY DEF CanvasStands, Shown
<1>3. /\ CanvasTypes(q, n) /\ q.wide = r.wide /\ q.view = r.view
      /\ q.objects = r.objects /\ q.crop = r.crop /\ q.tool = r.tool /\ q.frame = r.frame
      /\ q.gesture = r.gesture /\ q.typing = r.typing /\ q.torn = r.torn
      /\ q.undo # <<>> /\ q.undo[Len(q.undo)] = Document(r)
    BY <1>1, <1>2, CommitIs
<1>4. Modes(q) /\ View(q) /\ Shown(q)
    <2>1. Modes(r) /\ View(r) /\ Shown(r)
        BY DEF CanvasStands
    <2> QED
        BY <1>3, <2>1, ShownElsewhere DEF Modes, View
<1>5. Document(q) = Document(r)
    BY <1>3, DocumentOf
<1>6. Tracked(q)
    BY <1>3, <1>5 DEF Tracked
<1> QED
    BY <1>1, <1>3, <1>4, <1>6 DEF CanvasHolds, CanvasStands

LEMMA FitIs ==
    ASSUME NEW r, DOMAIN r = CanvasFields
    PROVE  /\ DOMAIN Fit(r) = CanvasFields /\ View(Fit(r))
           /\ \A f \in CanvasFields : f # "view" => Fit(r)[f] = r[f]
BY DEF Fit, View, CanvasFields

LEMMA FitStands ==
    ASSUME NEW n, NEW r, CanvasTypes(r, n), Modes(r), Shown(r)
    PROVE  CanvasStands(Fit(r), n) /\ (Tracked(r) => Tracked(Fit(r))) /\ Fit(r).undo = r.undo
<1>1. PICK q : q = Fit(r)
    OBVIOUS
<1>2. DOMAIN r = CanvasFields
    BY DEF CanvasTypes
<1>3. /\ DOMAIN q = CanvasFields /\ View(q) /\ q.objects = r.objects /\ q.crop = r.crop /\ q.wide = r.wide
      /\ q.tool = r.tool /\ q.frame = r.frame /\ q.gesture = r.gesture /\ q.typing = r.typing
      /\ q.torn = r.torn /\ q.stray = r.stray /\ q.undo = r.undo /\ q.redo = r.redo
    BY <1>1, <1>2, FitIs DEF CanvasFields
<1>4. CanvasTypes(q, n)
    BY <1>2, <1>3, TypesElsewhere DEF CanvasTypes
<1>5. Modes(q)
    BY <1>3 DEF Modes
<1>6. Shown(q)
    BY <1>3, ShownElsewhere
<1>7. Tracked(r) => Tracked(q)
    BY <1>2, <1>3, TrackedElsewhere
<1> QED
    BY <1>1, <1>3, <1>4, <1>5, <1>6, <1>7 DEF CanvasStands
-----------------------------------------------------------------------------
(* Sizes and crops.                                                           *)

LEMMA EffectiveWidthIs == \A crop \in Boxes : EffectiveWidth(crop) \in Int
BY AnnotationAssumption DEF EffectiveWidth, Boxes

LEMMA DivGrows ==
    ASSUME NEW a \in Int, NEW b \in Int, NEW d \in Nat \ {0}, a <= b
    PROVE  a \div d <= b \div d
<1>1. PICK p : p = a \div d
    OBVIOUS
<1>2. PICK q : q = b \div d
    OBVIOUS
<1>3. p \in Int /\ q \in Int /\ d * p <= a /\ b < d * q + d
    BY <1>1, <1>2
<1>4. ASSUME p >= q + 1 PROVE FALSE
    <2>1. d * p >= d * (q + 1)
        BY <1>3, <1>4
    <2>2. d * (q + 1) = d * q + d
        BY <1>3
    <2> QED
        BY <1>3, <2>1, <2>2
<1> QED
    BY <1>1, <1>2, <1>3, <1>4

LEMMA ScaledIs ==
    ASSUME NEW base \in Nat, NEW width \in Int
    PROVE  /\ Scaled(base, width) \in Int
           /\ Scaled(base, LowWidth) <= Scaled(base, width)
           /\ Scaled(base, width) <= Scaled(base, HighWidth)
<1>1. RefWidth \in Nat \ {0} /\ LowWidth \in Nat /\ HighWidth \in Nat /\ LowWidth <= HighWidth
    BY AnnotationAssumption
<1>2. PICK d \in Nat \ {0} : d = 2 * Fine * RefWidth
    BY <1>1 DEF Fine
<1>3. PICK e \in Int : e = Fine * RefWidth
    BY <1>1 DEF Fine
<1>4. PICK c \in LowWidth..HighWidth : c = Clamp(width, LowWidth, HighWidth)
    BY <1>1, ClampIs
<1>5. Clamp(LowWidth, LowWidth, HighWidth) = LowWidth /\ Clamp(HighWidth, LowWidth, HighWidth) = HighWidth
    BY <1>1, ClampIs
<1>6. PICK l \in Int : l = base * LowWidth
    BY <1>1
<1>7. PICK m \in Int : m = base * c
    BY <1>1
<1>8. PICK h \in Int : h = base * HighWidth
    BY <1>1
<1>9. l <= m /\ m <= h
    <2>1. c - LowWidth \in Nat /\ HighWidth - c \in Nat
        BY <1>1
    <2>2. base * (c - LowWidth) \in Nat /\ base * (HighWidth - c) \in Nat
        BY <2>1
    <2>3. base * (c - LowWidth) = m - l /\ base * (HighWidth - c) = h - m
        BY <1>1, <1>6, <1>7, <1>8
    <2> QED
        BY <2>2, <2>3
<1>10. /\ Scaled(base, LowWidth) = 2 * ((2 * l + e) \div d)
       /\ Scaled(base, width) = 2 * ((2 * m + e) \div d)
       /\ Scaled(base, HighWidth) = 2 * ((2 * h + e) \div d)
    BY <1>2, <1>3, <1>4, <1>5, <1>6, <1>7, <1>8 DEF Scaled, Fine
<1>11. PICK x \in Int : x = 2 * l + e
    OBVIOUS
<1>12. PICK y \in Int : y = 2 * m + e
    OBVIOUS
<1>13. PICK z \in Int : z = 2 * h + e
    OBVIOUS
<1>14. x <= y /\ y <= z
    BY <1>9, <1>11, <1>12, <1>13
<1>15. x \div d <= y \div d /\ y \div d <= z \div d
    BY <1>14, DivGrows
<1>16. x \div d \in Int /\ y \div d \in Int /\ z \div d \in Int
    OBVIOUS
<1> QED
    BY <1>10, <1>11, <1>12, <1>13, <1>15, <1>16

\* Sizes are whole steps, and the font that goes with a width is legal.
LEMMA SizesAre ==
    ASSUME NEW width \in Int
    PROVE  LET z == AnnotationSizes(width)
           IN /\ z.stroke \in Int /\ z.outline \in Int /\ z.outer \in Int /\ z.headLength \in Int
              /\ z.headWidth \in Int /\ z.textStroke \in Int /\ z.font \in MinFont..MaxFont
<1>1. \A base \in Nat : Scaled(base, width) \in Int
    BY ScaledIs
<1>2. 4 * Px \in Nat /\ 2 * Px \in Nat /\ 22 * Px \in Nat /\ 18 * Px \in Nat /\ 28 * Px \in Nat
    BY DEF Px
<1>3. PICK stroke \in Int : stroke = Scaled(4 * Px, width)
    BY <1>1, <1>2
<1>4. PICK outline \in Int : outline = Scaled(2 * Px, width)
    BY <1>1, <1>2
<1>5. Round2(stroke + 2 * outline) \in Int
    BY Round2Near
<1>6. PICK font : font = Scaled(28 * Px, width)
    OBVIOUS
<1>7. font \in MinFont..MaxFont
    <2>1. PICK base \in Nat : base = 28 * Px
        BY <1>2
    <2>2. Scaled(base, width) \in Int /\ Scaled(base, LowWidth) <= Scaled(base, width)
          /\ Scaled(base, width) <= Scaled(base, HighWidth)
        BY ScaledIs
    <2>3. LowWidth \in Int /\ HighWidth \in Int /\ MinFont \in Int /\ MaxFont \in Int
        BY AnnotationAssumption
    <2>4. Scaled(base, LowWidth) \in MinFont..MaxFont /\ Scaled(base, HighWidth) \in MinFont..MaxFont
        BY <2>1, CanvasAssumption DEF AnnotationSizes
    <2> QED
        BY <1>6, <2>1, <2>2, <2>3, <2>4
<1> QED
    BY <1>1, <1>2, <1>3, <1>4, <1>5, <1>6, <1>7 DEF AnnotationSizes

LEMMA ClampIntIs ==
    ASSUME NEW v \in Int, NEW max \in Nat, max % 4 = 0
    PROVE  ClampInt(v, max) \in 0..max /\ ClampInt(v, max) % 4 = 0
<1>1. PICK k \in Int : k = RoundTo(v, Px)
    BY DEF RoundTo, Px
<1>2. k % 4 = 0
    BY <1>1 DEF RoundTo, Px
<1>3. ClampInt(v, max) = IF k < 0 THEN 0 ELSE IF k > max THEN max ELSE k
    <2>1. Clamp(k, 0, max) = IF k < 0 THEN 0 ELSE IF k > max THEN max ELSE k
        BY ClampIs
    <2> QED
        BY <1>1, <2>1 DEF ClampInt
<1> QED
    BY <1>2, <1>3

LEMMA SideIs ==
    ASSUME NEW from \in Int, NEW size \in Int, NEW max \in Nat, max % 4 = 0, max >= MinCrop
    PROVE  LET side == Side(from, size, max)
           IN /\ side.at \in Nat /\ side.at % 4 = 0 /\ side.len \in Nat /\ side.len % 4 = 0
              /\ side.len >= MinCrop /\ side.at + side.len <= max
<1>1. MinCrop \in Nat \ {0} /\ MinCrop % 4 = 0
    BY AnnotationAssumption DEF Px
<1>2. PICK c \in 0..max : c = ClampInt(from, max) /\ c % 4 = 0
    BY ClampIntIs
<1>3. PICK u \in Int : u = from + size
    OBVIOUS
<1>4. PICK e \in 0..max : e = ClampInt(u, max) /\ e % 4 = 0
    BY ClampIntIs
<1>5. PICK a \in 0..max : a = Min({c, e}) /\ a % 4 = 0
    BY <1>2, <1>4, MinIs
<1>6. PICK b \in 0..max : b = Max({c, e}) /\ b % 4 = 0
    BY <1>2, <1>4, MaxIs
<1>7. PICK k \in 0..max : k = max - MinCrop /\ k % 4 = 0
    BY <1>1
<1>8. PICK m \in 0..max : m = Min({a, k}) /\ m % 4 = 0 /\ m <= k
    BY <1>5, <1>7, MinIs
<1>9. Side(from, size, max) = IF b - a < MinCrop THEN [at |-> m, len |-> MinCrop]
                              ELSE [at |-> a, len |-> b - a]
    BY <1>2, <1>3, <1>4, <1>5, <1>6, <1>7, <1>8 DEF Side
<1>10. CASE b - a < MinCrop
    BY <1>1, <1>7, <1>8, <1>9, <1>10
<1>11. CASE ~(b - a < MinCrop)
    <2>1. b - a \in Nat /\ (b - a) % 4 = 0
        BY <1>1, <1>5, <1>6, <1>11
    <2> QED
        BY <1>1, <1>5, <1>6, <1>9, <1>11, <2>1
<1> QED
    BY <1>10, <1>11

LEMMA NormalizeCropIs ==
    ASSUME NEW g \in Boxes
    PROVE  NormalizeCrop(g) \in ValidCrops
<1>1. Width \in Nat /\ Height \in Nat /\ Width % 4 = 0 /\ Height % 4 = 0 /\ MinCrop \in Nat
    BY AnnotationAssumption DEF Px
<1>2. CASE Width < MinCrop \/ Height < MinCrop
    BY <1>2 DEF NormalizeCrop, ValidCrops, NoCrop, Boxes
<1>3. CASE ~(Width < MinCrop \/ Height < MinCrop)
    <2>1. g.x \in Int /\ g.y \in Int /\ g.w \in Int /\ g.h \in Int
        BY DEF Boxes
    <2>2. PICK h : h = Side(g.x, g.w, Width)
        OBVIOUS
    <2>3. PICK v : v = Side(g.y, g.h, Height)
        OBVIOUS
    <2> DEFINE InImage(side, max) ==
          /\ side.at \in Nat /\ side.at % 4 = 0 /\ side.len \in Nat /\ side.len % 4 = 0
          /\ side.len >= MinCrop /\ side.at + side.len <= max
    <2>4. \A from, size \in Int, max \in Nat : max % 4 = 0 /\ max >= MinCrop => InImage(Side(from, size, max), max)
        BY SideIs
    <2> HIDE DEF InImage
    <2>5. /\ h.at \in Nat /\ h.at % 4 = 0 /\ h.len \in Nat /\ h.len % 4 = 0
          /\ h.len >= MinCrop /\ h.at + h.len <= Width
        <3>1. InImage(Side(g.x, g.w, Width), Width)
            BY <1>1, <1>3, <2>1, <2>4
        <3> QED
            BY <2>2, <3>1 DEF InImage
    <2>6. /\ v.at \in Nat /\ v.at % 4 = 0 /\ v.len \in Nat /\ v.len % 4 = 0
          /\ v.len >= MinCrop /\ v.at + v.len <= Height
        <3>1. InImage(Side(g.y, g.h, Height), Height)
            BY <1>1, <1>3, <2>1, <2>4
        <3> QED
            BY <2>3, <3>1 DEF InImage
    <2>7. PICK c : c = [x |-> h.at, w |-> h.len, y |-> v.at, h |-> v.len]
        OBVIOUS
    <2>8. c = NormalizeCrop(g)
        BY <1>3, <2>2, <2>3, <2>7 DEF NormalizeCrop
    <2>9. c \in Boxes /\ c.x = h.at /\ c.w = h.len /\ c.y = v.at /\ c.h = v.len
        BY <2>5, <2>6, <2>7 DEF Boxes
    <2>10. Whole(c) /\ CropInBounds(c)
        BY <2>5, <2>6, <2>9 DEF Whole, CropInBounds, Px
    <2> QED
        BY <2>5, <2>6, <2>8, <2>9, <2>10 DEF ValidCrops
<1> QED
    BY <1>2, <1>3

LEMMA CropsAre ==
    ASSUME NEW g \in Boxes
    PROVE  CropOf(g) \in ValidCrops /\ SettleFrame(g) \in Boxes
<1>1. NoCrop \in ValidCrops
    BY DEF ValidCrops, NoCrop, Boxes
<1>2. ValidCrops \subseteq Boxes
    BY DEF ValidCrops
<1> QED
    BY <1>1, <1>2, NormalizeCropIs DEF CropOf, SettleFrame

\* What a reload brings, and the empty document, can be loaded.
LEMMA ForeignAreLoadable ==
    ASSUME NEW n \in Nat, NEW doc \in ForeignDocs \cup {EmptyDoc}
    PROVE  doc \in LoadableDocs(n)
<1>1. CASE doc = EmptyDoc
    <2>1. <<>> \in Seq(Loadable(n))
        BY EmptySeq
    <2>2. NoCrop \in ValidCrops
        BY DEF ValidCrops, NoCrop, Boxes
    <2> QED
        BY <1>1, <2>1, <2>2 DEF EmptyDoc, LoadableDocs
<1>2. CASE doc \in ForeignDocs
    <2>1. /\ doc \in [shapes : Seq(Members(doc.shapes)), crop : Boxes] /\ Valid(doc)
          /\ \A s \in Members(doc.shapes) :
               /\ s \in [id : {s.id}, kind : Kinds, text : {s.text}, font : Int,
                         x : Int, y : Int, w : Int, h : Int]
               /\ s.id \notin 0..MaxActions
        BY <1>2, ForeignAssumption
    <2>2. doc.crop \in ValidCrops
        <3>1. SchemaOk(doc) /\ (doc.crop # NoCrop => CropInBounds(doc.crop)) /\ doc.crop \in Boxes
            BY <2>1 DEF Valid
        <3> QED
            BY <3>1 DEF SchemaOk, ValidCrops
    <2>3. Members(doc.shapes) \subseteq Loadable(n)
        <3> SUFFICES ASSUME NEW s \in Members(doc.shapes) PROVE s \in Loadable(n)
            OBVIOUS
        <3>1. s.id \in Ids /\ s.text \in Words
            BY <1>2 DEF Ids, Words, ForeignShapes
        <3>2. s \in [id : Ids, kind : Kinds, x : Int, y : Int, w : Int, h : Int, text : Words, font : Int]
            BY <2>1, <3>1
        <3>3. Used(s.id, n)
            <4>1. MaxActions \in Nat
                BY CanvasAssumption
            <4>2. (n + 1)..MaxActions \subseteq 0..MaxActions /\ 0 \in 0..MaxActions
                BY <4>1
            <4>3. s.id \notin 0..MaxActions
                BY <2>1
            <4> QED
                BY <4>2, <4>3 DEF Used
        <3>4. ShapeOk(s)
            BY <2>1 DEF Valid, SchemaOk, Members
        <3>5. Upright(s)
            BY <3>4 DEF ShapeOk, Upright
        <3>6. Sound(s)
            <4>1. s.kind = "redact" => Whole(s)
                BY <3>4 DEF ShapeOk
            <4>2. s.kind = "redact" => RedactionPixelRect(s) = Geom(s.x, s.y, s.w, s.h)
                BY <3>2, <4>1, PixelRectIs
            <4>3. s.kind = "text" => s.font \in MinFont..MaxFont
                BY <3>4 DEF ShapeOk
            <4> QED
                BY <4>2, <4>3 DEF Sound
        <3> QED
            BY <3>2, <3>3, <3>5, <3>6 DEF Loadable
    <2>4. doc.shapes \in Seq(Loadable(n))
        <3>1. doc.shapes \in Seq(Members(doc.shapes))
            BY <2>1
        <3> QED
            BY <2>3, <3>1, SeqMonotonic
    <2> QED
        BY <2>1, <2>2, <2>4 DEF LoadableDocs
<1> QED
    BY <1>1, <1>2

LEMMA SnapshotsAreLoadable ==
    ASSUME NEW n PROVE Snapshots(n) \subseteq LoadableDocs(n)
<1>1. Seq(Saved(n)) \subseteq Seq(Loadable(n))
    BY SavedIsLoadable, SeqMonotonic
<1> QED
    BY <1>1 DEF Snapshots, LoadableDocs
\* A tail of a sequence.
LEMMA TailIs ==
    ASSUME NEW T, NEW x \in Seq(T), NEW k \in 1..Len(x)
    PROVE  /\ SubSeq(x, k + 1, Len(x)) \in Seq(T)
           /\ BlocksFirst(x) => BlocksFirst(SubSeq(x, k + 1, Len(x)))
<1>1. PICK n \in Nat : n = Len(x)
    BY LenProperties
<1>2. k \in 1..n /\ DOMAIN x = 1..n /\ \A i \in 1..n : x[i] \in T
    BY <1>1, LenProperties, ElementOfSeq
<1>3. PICK y : y = SubSeq(x, k + 1, n)
    OBVIOUS
<1>4. y \in Seq(T) /\ Len(y) = n - k /\ DOMAIN y = 1..(n - k) /\ \A i \in 1..(n - k) : y[i] = x[k + i]
    BY <1>1, <1>2, <1>3
<1>5. ASSUME BlocksFirst(x) PROVE BlocksFirst(y)
    <2> SUFFICES ASSUME NEW i \in 1..(n - k), NEW j \in 1..(n - k), i < j, y[j].kind = "redact"
                 PROVE  y[i].kind = "redact"
        BY <1>4 DEF BlocksFirst
    <2>1. PICK a \in 1..n : a = k + i
        BY <1>2
    <2>2. PICK b \in 1..n : b = k + j
        BY <1>2
    <2>3. a < b /\ y[i] = x[a] /\ y[j] = x[b]
        BY <1>2, <1>4, <2>1, <2>2
    <2> QED
        BY <1>2, <1>5, <2>3 DEF BlocksFirst
<1> QED
    BY <1>1, <1>3, <1>4, <1>5

LEMMA RemovedIs ==
    ASSUME NEW n, NEW r, CanvasTypes(r, n), Modes(r), BlocksFirst(r.objects)
    PROVE  LET q == Removed(r)
           IN /\ CanvasTypes(q, n) /\ q.typing = 0 /\ q.tool = r.tool /\ q.torn = r.torn
              /\ q.gesture = r.gesture
              /\ r.undo # <<>> => q.undo # <<>>
              /\ r.typing = 0 => q = r
<1>1. CASE r.typing = 0
    BY <1>1 DEF Removed
<1>2. CASE r.typing # 0
    <2>1. PICK x : x = r.objects
        OBVIOUS
    <2>2. x \in Seq(Objects(n)) /\ DOMAIN r = CanvasFields
        BY <2>1 DEF CanvasTypes
    <2>3. Len(x) \in Nat /\ DOMAIN x = 1..Len(x)
        BY <2>2, LenProperties
    <2>4. \E i \in DOMAIN x : x[i].id = r.typing
        BY <1>2, <2>1 DEF Modes
    <2>5. PICK k : k = CHOOSE i \in DOMAIN x : x[i].id = r.typing
        OBVIOUS
    <2>6. k \in 1..Len(x)
        BY <2>3, <2>4, <2>5
    <2>7. PICK y : y = SubSeq(x, k + 1, Len(x))
        OBVIOUS
    <2>8. y \in Seq(Objects(n)) /\ BlocksFirst(y)
        BY <2>1, <2>2, <2>6, <2>7, TailIs
    <2>9. PICK s : s = [r EXCEPT !.typing = 0, !.objects = y]
        OBVIOUS
    <2>10. /\ DOMAIN s = CanvasFields /\ s.typing = 0 /\ s.objects = y /\ s.crop = r.crop
           /\ s.frame = r.frame /\ s.tool = r.tool /\ s.gesture = r.gesture /\ s.undo = r.undo
           /\ s.redo = r.redo /\ s.torn = r.torn /\ s.stray = r.stray
        BY <2>2, <2>9 DEF CanvasFields
    <2>11. CanvasTypes(s, n)
        BY <2>8, <2>10 DEF CanvasTypes
    <2>12. Removed(r) = Commit(s)
        BY <1>2, <2>1, <2>5, <2>7, <2>9 DEF Removed
    <2>13. BlocksFirst(s.objects)
        BY <2>8, <2>10
    <2>14. PICK q : q = Commit(s)
        OBVIOUS
    <2>15. /\ CanvasTypes(q, n) /\ q.tool = s.tool /\ q.gesture = s.gesture /\ q.typing = s.typing
           /\ q.torn = s.torn /\ (s.undo # <<>> => q.undo # <<>>)
        BY <2>11, <2>13, <2>14, CommitIs
    <2> QED
        BY <1>2, <2>10, <2>12, <2>14, <2>15
<1> QED
    BY <1>1, <1>2

LEMMA KnownByTheTop ==
    ASSUME NEW n, NEW r, r.objects \in Seq(Objects(n)), DOMAIN r = CanvasFields, Holding(r.gesture) = 0,
           ~r.torn /\ r.typing = 0 => Document(r) = r.undo[Len(r.undo)]
    PROVE  Tracked(r)
<1>1. CASE r.gesture.kind = "draw"
    <2>1. r.gesture.id = 0
        BY <1>1 DEF Holding
    <2>2. PICK x : x = Without(r.objects, 0)
        OBVIOUS
    <2>3. x = r.objects
        BY <2>2, ObjectsOf, WithoutNobody
    <2>4. PICK q : q = [r EXCEPT !.objects = x]
        OBVIOUS
    <2>5. q.objects = r.objects /\ q.crop = r.crop
        BY <2>3, <2>4 DEF CanvasFields
    <2>6. Document(q) = Document(r)
        BY <2>5, DocumentOf
    <2> QED
        BY <1>1, <2>1, <2>2, <2>4, <2>6 DEF Tracked
<1>2. CASE r.gesture.kind # "draw"
    BY <1>2 DEF Tracked
<1> QED
    BY <1>1, <1>2

\* A gesture lets go of its object.
LEMMA LetGo ==
    ASSUME NEW g \in GestureTypes
    PROVE  LET h == IF "id" \in DOMAIN g THEN [g EXCEPT !.id = 0] ELSE g
           IN h \in GestureTypes /\ h.kind = g.kind /\ Holding(h) = 0
<1>1. CASE g \in {NoGesture, [kind |-> "adjust"]} \cup [kind : {"frame"}, origin : Points]
    BY <1>1 DEF GestureTypes, Holding, NoGesture
<1>2. CASE g \in [kind : {"draw"}, id : Ids \cup {0}, origin : Points]
    <2>1. PICK h : h = [g EXCEPT !.id = 0]
        OBVIOUS
    <2>2. h \in [kind : {"draw"}, id : Ids \cup {0}, origin : Points] /\ h.id = 0 /\ h.kind = g.kind
        BY <1>2, <2>1
    <2> QED
        BY <1>2, <2>1, <2>2 DEF GestureTypes, Holding
<1>3. CASE g \in [kind : {"drag"}, id : Ids \cup {0}]
    <2>1. PICK h : h = [g EXCEPT !.id = 0]
        OBVIOUS
    <2>2. h \in [kind : {"drag"}, id : Ids \cup {0}] /\ h.id = 0 /\ h.kind = g.kind
        BY <1>3, <2>1
    <2> QED
        BY <1>3, <2>1, <2>2 DEF GestureTypes, Holding
<1> QED
    BY <1>1, <1>2, <1>3 DEF GestureTypes

\* What is rebuilt from shapes: sorted, calm, at the width of the crop.
LEMMA RebuiltIs ==
    ASSUME NEW n, NEW shapes \in Seq(Loadable(n)), NEW wide \in Int
    PROVE  LET drawn == RenderOrder(shapes)
               x == [i \in DOMAIN drawn |-> ObjectFrom(drawn[i], wide)]
           IN /\ x \in Seq(Objects(n)) /\ BlocksFirst(x) /\ DOMAIN x = DOMAIN drawn
              /\ \A i \in DOMAIN x : /\ x[i].wide = wide /\ Calm(x[i])
                                     /\ drawn[i] \in Loadable(n)
                                     /\ ShapeOf(x[i]) = ShapeOf(drawn[i])
<1>1. PICK drawn : drawn = RenderOrder(shapes)
    OBVIOUS
<1>2. drawn \in Seq(Loadable(n)) /\ BlocksFirst(drawn)
    BY <1>1, RenderOrderSorts, LayeredIsBlocksFirst
<1>3. PICK f : f = [s \in Loadable(n) |-> ObjectFrom(s, wide)]
    OBVIOUS
<1>4. \A s \in Loadable(n) : /\ f[s] \in Objects(n) /\ Calm(f[s]) /\ f[s].wide = wide /\ f[s].kind = s.kind
                             /\ ShapeOf(f[s]) = ShapeOf(s) /\ f[s] = ObjectFrom(s, wide)
    BY <1>3, LoadedObject
<1>5. PICK x : x = Mapped(drawn, f)
    OBVIOUS
<1>6. x \in Seq(Objects(n))
    BY <1>2, <1>4, <1>5, MappedSeq
<1>7. DOMAIN x = DOMAIN drawn /\ \A i \in DOMAIN drawn : drawn[i] \in Loadable(n) /\ x[i] = f[drawn[i]]
    BY <1>2, <1>5, MappedIs
<1>8. x = [i \in DOMAIN drawn |-> ObjectFrom(drawn[i], wide)]
    BY <1>4, <1>5, <1>7 DEF Mapped
<1>9. \A i \in DOMAIN drawn : x[i].kind = drawn[i].kind
    BY <1>4, <1>7
<1>10. BlocksFirst(x)
    BY <1>2, <1>7, <1>9, BlocksFirstOfAlike
<1> QED
    BY <1>1, <1>4, <1>6, <1>7, <1>8, <1>10

LEMMA LoadDocIs ==
    ASSUME NEW n, NEW r, CanvasTypes(r, n), Modes(r), BlocksFirst(r.objects), NEW doc \in LoadableDocs(n)
    PROVE  LET q == LoadDoc(r, doc)
           IN /\ CanvasStands(q, n) /\ q.typing = 0 /\ q.tool = r.tool /\ q.torn = r.torn /\ q.crop = doc.crop
              /\ q.gesture.kind = r.gesture.kind /\ Holding(q.gesture) = 0
              /\ r.undo # <<>> => q.undo # <<>>
              /\ r.typing = 0 => q.undo = r.undo /\ q.redo = r.redo
              /\ doc \in Snapshots(n) => Document(q) = doc
<1>1. PICK a : a = Removed(r)
    OBVIOUS
<1>2. /\ CanvasTypes(a, n) /\ a.typing = 0 /\ a.tool = r.tool /\ a.torn = r.torn
      /\ a.gesture = r.gesture /\ (r.undo # <<>> => a.undo # <<>>) /\ (r.typing = 0 => a = r)
    BY <1>1, RemovedIs
<1>3. doc.crop \in ValidCrops /\ doc.crop \in Boxes /\ doc.shapes \in Seq(Loadable(n))
      /\ DOMAIN doc = {"shapes", "crop"}
    BY DEF LoadableDocs, ValidCrops
<1>4. PICK wide \in Int : wide = EffectiveWidth(doc.crop)
    BY <1>3, EffectiveWidthIs
<1>5. PICK drawn : drawn = RenderOrder(doc.shapes)
    OBVIOUS
<1>6. PICK x : x = [i \in DOMAIN drawn |-> ObjectFrom(drawn[i], wide)]
    OBVIOUS
<1>7. PICK shapes : shapes = doc.shapes
    OBVIOUS
<1>8. /\ x \in Seq(Objects(n)) /\ BlocksFirst(x) /\ DOMAIN x = DOMAIN drawn
      /\ \A i \in DOMAIN x : /\ x[i].wide = wide /\ Calm(x[i])
                             /\ drawn[i] \in Loadable(n)
                             /\ ShapeOf(x[i]) = ShapeOf(drawn[i])
    BY <1>3, <1>5, <1>6, <1>7, RebuiltIs
<1>9. PICK h : h = IF "id" \in DOMAIN a.gesture THEN [a.gesture EXCEPT !.id = 0] ELSE a.gesture
    OBVIOUS
<1>10. h \in GestureTypes /\ h.kind = r.gesture.kind /\ Holding(h) = 0
    <2>1. PICK g \in GestureTypes : g = a.gesture
        BY <1>2 DEF CanvasTypes
    <2> QED
        BY <1>2, <1>9, <2>1, LetGo
<1>11. PICK s : s = [a EXCEPT !.crop = doc.crop, !.wide = wide, !.frame = NoFrame, !.stray = FALSE,
                              !.objects = x, !.gesture = h]
    OBVIOUS
<1>12. /\ DOMAIN s = CanvasFields /\ s.crop = doc.crop /\ s.wide = wide /\ s.frame = NoFrame /\ s.stray = FALSE
       /\ s.objects = x /\ s.gesture = h /\ s.typing = 0 /\ s.tool = r.tool /\ s.torn = r.torn
       /\ s.undo = a.undo /\ s.redo = a.redo
    BY <1>2, <1>11 DEF CanvasTypes, CanvasFields
<1>13. LoadDoc(r, doc) = Fit(s)
    BY <1>1, <1>4, <1>5, <1>6, <1>9, <1>11 DEF LoadDoc
<1>14. CanvasTypes(s, n)
    <2>1. NoFrame \in Boxes
        BY DEF NoFrame, NoCrop, Boxes
    <2> QED
        BY <1>2, <1>3, <1>8, <1>10, <1>12, <2>1 DEF CanvasTypes
<1>15. Modes(s)
    BY <1>2, <1>4, <1>10, <1>12 DEF Modes
<1>16. Shown(s)
    BY <1>8, <1>12 DEF Shown, Calm
<1>17. PICK q : q = Fit(s)
    OBVIOUS
<1>18. CanvasStands(q, n)
    BY <1>14, <1>15, <1>16, <1>17, FitStands
<1>19. /\ q.typing = 0 /\ q.tool = r.tool /\ q.torn = r.torn /\ q.crop = doc.crop /\ q.gesture = h
       /\ q.undo = a.undo /\ q.redo = a.redo /\ q.objects = x
    BY <1>12, <1>17, FitIs DEF CanvasFields
<1>20. ASSUME doc \in Snapshots(n) PROVE Document(q) = doc
    <2>1. shapes \in Seq(Saved(n)) /\ BlocksFirst(shapes)
        BY <1>7, <1>20 DEF Snapshots
    <2>2. drawn = shapes
        BY <1>5, <1>7, <2>1, BlocksFirstIsLayered, LayeredStays
    <2>3. \A i \in DOMAIN shapes : shapes[i] \in Saved(n)
        BY <2>1, ElementOfSeq, LenProperties
    <2>4. \A i \in DOMAIN shapes : ShapeOf(x[i]) = shapes[i]
        BY <1>8, <2>2, <2>3 DEF Saved
    <2>5. Shapes(q) = [i \in DOMAIN shapes |-> shapes[i]]
        BY <1>8, <1>19, <2>2, <2>4 DEF Shapes
    <2>6. shapes = [i \in DOMAIN shapes |-> shapes[i]]
        BY <2>1, LenProperties
    <2>7. Document(q) = [shapes |-> doc.shapes, crop |-> doc.crop]
        BY <1>7, <1>19, <2>5, <2>6 DEF Document
    <2>8. doc = [shapes |-> doc.shapes, crop |-> doc.crop]
        BY <1>20 DEF Snapshots
    <2> QED
        BY <2>7, <2>8
<1> QED
    BY <1>2, <1>10, <1>13, <1>17, <1>18, <1>19, <1>20
LEMMA WithoutStands ==
    ASSUME NEW n, NEW x \in Seq(Objects(n)), NEW id
    PROVE  /\ Without(x, id) \in Seq(Objects(n)) /\ (BlocksFirst(x) => BlocksFirst(Without(x, id)))
           /\ \A i \in DOMAIN Without(x, id) : \E j \in DOMAIN x : Without(x, id)[i] = x[j] /\ x[j].id # id
<1>1. x \in Seq(Members(x))
    BY MembersOf
<1>2. Without(x, id) \in Seq({t \in Members(x) : t.id # id})
    BY <1>1, WithoutIs
<1>3. PICK y : y = Without(x, id)
    OBVIOUS
<1>4. PICK S : S = {t \in Members(x) : t.id # id}
    OBVIOUS
<1>5. \A i \in DOMAIN y : y[i] \in S
    BY <1>2, <1>3, <1>4, ElementOfSeq, LenProperties
<1>6. \A i \in DOMAIN y : \E j \in DOMAIN x : y[i] = x[j] /\ x[j].id # id
    BY <1>4, <1>5 DEF Members
<1> QED
    BY <1>3, <1>6, WithoutIs

\* Objects that are all calm, of the right width, show well under any gesture.
LEMMA CalmIsShown ==
    ASSUME NEW r, BlocksFirst(r.objects),
           \A i \in DOMAIN r.objects : r.objects[i].wide = r.wide /\ Calm(r.objects[i])
    PROVE  Shown(r)
BY DEF Shown, Calm

\* With no object held, the whole canvas is calm.
LEMMA ShownIsCalm ==
    ASSUME NEW n, NEW r, CanvasTypes(r, n), Shown(r), Holding(r.gesture) = 0
    PROVE  /\ BlocksFirst(r.objects)
           /\ \A i \in DOMAIN r.objects : r.objects[i].wide = r.wide /\ Calm(r.objects[i])
<1>1. \A i \in DOMAIN r.objects : r.objects[i].id # 0
    BY ObjectsOf DEF CanvasTypes
<1> QED
    BY <1>1 DEF Shown

LEMMA NothingHeld == Holding(NoGesture) = 0 /\ NoGesture.kind = "none" /\ NoGesture \in GestureTypes
BY DEF Holding, NoGesture, GestureTypes

LEMMA ExitsIs ==
    ASSUME NEW n, NEW r, CanvasStands(r, n), r.undo # <<>>
    PROVE  LET q == Exits(r)
           IN /\ CanvasStands(q, n) /\ q.undo # <<>> /\ (Tracked(r) => Tracked(q))
              /\ q.typing = 0 /\ q.tool = r.tool /\ q.torn = r.torn /\ q.gesture = r.gesture
              /\ q.crop = r.crop /\ q.wide = r.wide
              /\ r.typing = 0 => q = r
<1>1. CASE r.typing = 0
    BY <1>1 DEF Exits
<1>2. CASE r.typing # 0
    <2>1. CanvasTypes(r, n) /\ Modes(r) /\ View(r) /\ Shown(r) /\ DOMAIN r = CanvasFields
        BY DEF CanvasStands, CanvasTypes
    <2>2. r.gesture = NoGesture /\ Holding(r.gesture) = 0 /\ r.gesture.kind # "draw"
        BY <1>2, <2>1, NothingHeld DEF Modes
    <2>3. PICK x : x = r.objects
        OBVIOUS
    <2>4. x \in Seq(Objects(n)) /\ BlocksFirst(x)
          /\ \A i \in DOMAIN x : x[i].wide = r.wide /\ Calm(x[i])
        BY <2>1, <2>2, <2>3, ShownIsCalm DEF CanvasTypes
    <2>5. PICK y : y = IF The(r, r.typing).text = Blank THEN Without(x, r.typing) ELSE x
        OBVIOUS
    <2>6. PICK z : z = Without(x, r.typing)
        OBVIOUS
    <2>7. z \in Seq(Objects(n)) /\ BlocksFirst(z)
          /\ \A i \in DOMAIN z : z[i].wide = r.wide /\ Calm(z[i])
        BY <2>4, <2>6, WithoutStands
    <2>8. y \in Seq(Objects(n)) /\ BlocksFirst(y)
          /\ \A i \in DOMAIN y : y[i].wide = r.wide /\ Calm(y[i])
        BY <2>4, <2>5, <2>6, <2>7
    <2>9. PICK s : s = [r EXCEPT !.typing = 0, !.objects = y]
        OBVIOUS
    <2>10. /\ DOMAIN s = CanvasFields /\ s.typing = 0 /\ s.objects = y /\ s.crop = r.crop
           /\ s.frame = r.frame /\ s.tool = r.tool /\ s.gesture = r.gesture /\ s.undo = r.undo
           /\ s.redo = r.redo /\ s.torn = r.torn /\ s.stray = r.stray /\ s.wide = r.wide /\ s.view = r.view
        BY <2>1, <2>9 DEF CanvasFields
    <2>11. CanvasTypes(s, n)
        BY <2>1, <2>8, <2>10 DEF CanvasTypes
    <2>12. Shown(s)
        BY <2>8, <2>10, CalmIsShown
    <2>13. Modes(s) /\ View(s)
        BY <2>1, <2>10 DEF Modes, View
    <2>14. Exits(r) = Commit(s)
        BY <1>2, <2>3, <2>5, <2>9 DEF Exits
    <2>15. CanvasStands(s, n) /\ s.gesture.kind # "draw"
        BY <2>2, <2>10, <2>11, <2>12, <2>13 DEF CanvasStands
    <2>16. PICK q : q = Commit(s)
        OBVIOUS
    <2>17. CanvasHolds(q, n)
        BY <2>10, <2>15, <2>16, CommitHolds
    <2>18. /\ q.typing = 0 /\ q.tool = s.tool /\ q.torn = s.torn /\ q.gesture = s.gesture
           /\ q.crop = s.crop /\ q.wide = s.wide
        BY <2>8, <2>10, <2>11, <2>16, CommitIs
    <2> QED
        BY <1>2, <2>10, <2>14, <2>16, <2>17, <2>18 DEF CanvasHolds
<1> QED
    BY <1>1, <1>2

LEMMA SetToolIs ==
    ASSUME NEW n, NEW r, CanvasStands(r, n), r.undo # <<>>, r.gesture.kind # "draw", NEW tool \in Tools
    PROVE  LET q == SetTool(r, tool)
           IN /\ CanvasStands(q, n) /\ q.undo # <<>> /\ (Tracked(r) => Tracked(q))
              /\ q.tool = tool /\ q.torn = r.torn /\ q.gesture = r.gesture /\ q.crop = r.crop
              /\ tool # "select" => q.typing = 0
              /\ tool = "select" \/ r.typing = 0 => /\ q.objects = r.objects /\ q.typing = r.typing
                                                    /\ q.undo = r.undo /\ q.redo = r.redo
<1>1. CanvasTypes(r, n) /\ Modes(r) /\ View(r) /\ Shown(r) /\ DOMAIN r = CanvasFields
    BY DEF CanvasStands, CanvasTypes
<1>2. NoFrame \in Boxes /\ ValidCrops \subseteq Boxes
    BY DEF NoFrame, NoCrop, Boxes, ValidCrops
<1>3. PICK left : left = IF tool = "crop" THEN r ELSE [r EXCEPT !.frame = NoFrame]
    OBVIOUS
<1>4. /\ DOMAIN left = CanvasFields /\ left.typing = r.typing /\ left.objects = r.objects /\ left.crop = r.crop
      /\ left.frame = (IF tool = "crop" THEN r.frame ELSE NoFrame)
      /\ left.tool = r.tool /\ left.gesture = r.gesture /\ left.undo = r.undo
      /\ left.redo = r.redo /\ left.torn = r.torn /\ left.stray = r.stray /\ left.wide = r.wide
      /\ left.view = r.view
    BY <1>1, <1>3 DEF CanvasFields
<1>5. CanvasStands(left, n) /\ (Tracked(r) => Tracked(left))
    <2>1. CanvasTypes(left, n)
        BY <1>1, <1>2, <1>4 DEF CanvasTypes
    <2>2. Modes(left) /\ View(left)
        BY <1>1, <1>4 DEF Modes, View
    <2>3. Shown(left)
        BY <1>1, <1>4, ShownElsewhere
    <2> QED
        BY <1>1, <1>4, <2>1, <2>2, <2>3, TrackedElsewhere DEF CanvasStands
<1>6. PICK out : out = IF tool = "select" THEN left ELSE Exits(left)
    OBVIOUS
<1>7. /\ CanvasStands(out, n) /\ out.undo # <<>> /\ (Tracked(left) => Tracked(out))
      /\ out.tool = left.tool /\ out.torn = left.torn /\ out.gesture = left.gesture
      /\ out.crop = left.crop /\ out.wide = left.wide
      /\ tool # "select" => out.typing = 0
      /\ tool = "select" \/ left.typing = 0 => out = left
    <2>1. LET q == Exits(left)
          IN /\ CanvasStands(q, n) /\ q.undo # <<>> /\ (Tracked(left) => Tracked(q))
             /\ q.typing = 0 /\ q.tool = left.tool /\ q.torn = left.torn /\ q.gesture = left.gesture
             /\ q.crop = left.crop /\ q.wide = left.wide
             /\ left.typing = 0 => q = left
        BY <1>4, <1>5, ExitsIs
    <2> QED
        BY <1>4, <1>5, <1>6, <2>1
<1>8. CanvasTypes(out, n) /\ Modes(out) /\ Shown(out) /\ DOMAIN out = CanvasFields
    BY <1>7 DEF CanvasStands, CanvasTypes
<1>9. PICK put : put = [out EXCEPT !.tool = tool]
    OBVIOUS
<1>10. PICK in : in = IF tool = "crop" THEN EnterCropMode(put) ELSE put
    OBVIOUS
<1>11. /\ DOMAIN put = CanvasFields /\ put.typing = out.typing /\ put.objects = out.objects
       /\ put.crop = out.crop /\ put.frame = out.frame /\ put.tool = tool /\ put.gesture = out.gesture
       /\ put.undo = out.undo /\ put.redo = out.redo /\ put.torn = out.torn /\ put.stray = out.stray
       /\ put.wide = out.wide
    BY <1>8, <1>9 DEF CanvasFields
<1>12. /\ DOMAIN in = CanvasFields /\ in.typing = out.typing /\ in.objects = out.objects
       /\ in.crop = out.crop /\ in.tool = tool /\ in.gesture = out.gesture
       /\ in.undo = out.undo /\ in.redo = out.redo /\ in.torn = out.torn
       /\ in.wide = out.wide /\ in.stray \in BOOLEAN /\ in.frame \in {out.frame, out.crop}
       /\ tool # "crop" => in.frame = out.frame
    <2>1. out.stray \in BOOLEAN
        BY <1>8 DEF CanvasTypes
    <2>2. CASE tool = "crop" /\ put.crop # NoCrop
        <3>1. PICK st : st = (put.stray \/ put.frame # NoFrame)
            OBVIOUS
        <3>2. st \in BOOLEAN
            BY <3>1
        <3>3. in = [put EXCEPT !.frame = put.crop, !.stray = st]
            BY <1>10, <2>2, <3>1 DEF EnterCropMode
        <3> QED
            BY <1>11, <2>2, <3>2, <3>3 DEF CanvasFields
    <2>3. CASE ~(tool = "crop" /\ put.crop # NoCrop)
        <3>1. in = put
            BY <1>10, <2>3 DEF EnterCropMode
        <3> QED
            BY <1>11, <2>1, <3>1
    <2> QED
        BY <2>2, <2>3
<1>13. CanvasTypes(in, n)
    <2>1. out.crop \in Boxes /\ out.frame \in Boxes
        BY <1>2, <1>8 DEF CanvasTypes
    <2> QED
        BY <1>8, <1>12, <2>1 DEF CanvasTypes
<1>14. Modes(in)
    <2>1. in.typing # 0 => in.tool = "select" /\ in.gesture = NoGesture
                           /\ \E i \in DOMAIN in.objects : in.objects[i].id = in.typing
        BY <1>7, <1>8, <1>12 DEF Modes
    <2>2. in.gesture.kind # "draw"
        BY <1>4, <1>7, <1>12
    <2>3. in.frame # NoFrame => in.tool = "crop"
        <3>1. CASE tool = "select"
            BY <1>4, <1>6, <1>12, <3>1
        <3>2. CASE tool # "select" /\ tool # "crop"
            <4>1. out.frame = NoFrame
                <5>1. CASE left.typing = 0
                    BY <1>4, <1>7, <3>2, <5>1
                <5>2. CASE left.typing # 0
                    <6>1. out.tool = "select"
                        BY <1>5, <1>7, <5>2 DEF CanvasStands, Modes
                    <6> QED
                        BY <1>8, <6>1 DEF Modes
                <5> QED
                    BY <5>1, <5>2
            <4> QED
                BY <1>12, <3>2, <4>1
        <3>3. CASE tool = "crop"
            BY <1>12, <3>3
        <3> QED
            BY <3>1, <3>2, <3>3
    <2>4. in.wide = EffectiveWidth(in.crop)
        BY <1>8, <1>12 DEF Modes
    <2> QED
        BY <2>1, <2>2, <2>3, <2>4 DEF Modes
<1>15. Shown(in)
    BY <1>8, <1>12, ShownElsewhere
<1>16. Tracked(out) => Tracked(in)
    BY <1>8, <1>12, TrackedElsewhere
<1>17. PICK q : q = Fit(in)
    OBVIOUS
<1>18. CanvasStands(q, n) /\ (Tracked(in) => Tracked(q))
    BY <1>13, <1>14, <1>15, <1>17, FitStands
<1>19. /\ q.typing = in.typing /\ q.objects = in.objects /\ q.crop = in.crop /\ q.tool = in.tool
       /\ q.gesture = in.gesture /\ q.undo = in.undo /\ q.redo = in.redo /\ q.torn = in.torn
    BY <1>12, <1>17, FitIs DEF CanvasFields
<1>20. SetTool(r, tool) = q
    BY <1>3, <1>6, <1>9, <1>10, <1>17 DEF SetTool
<1>21. /\ q.undo # <<>> /\ q.tool = tool /\ q.torn = r.torn /\ q.gesture = r.gesture /\ q.crop = r.crop
       /\ tool # "select" => q.typing = 0
    BY <1>4, <1>7, <1>12, <1>19
<1>22. tool = "select" \/ r.typing = 0 => /\ q.objects = r.objects /\ q.typing = r.typing
                                          /\ q.undo = r.undo /\ q.redo = r.redo
    BY <1>4, <1>7, <1>12, <1>19
<1>23. Tracked(r) => Tracked(q)
    BY <1>5, <1>7, <1>16, <1>18
<1> QED
    BY <1>18, <1>20, <1>21, <1>22, <1>23
-----------------------------------------------------------------------------
(* The handlers, one by one.                                                  *)

LEMMA HoldsGrows ==
    ASSUME NEW n \in Nat, NEW r, CanvasStands(r, n) PROVE CanvasStands(r, n + 1)
BY CanvasGrows DEF CanvasStands

LEMMA CanvasHere ==
    ASSUME CanvasInv
    PROVE  /\ actions \in Nat /\ CanvasStands(ed, actions) /\ ed.undo # <<>> /\ Tracked(ed)
           /\ CanvasTypes(ed, actions) /\ Modes(ed) /\ View(ed) /\ Shown(ed) /\ DOMAIN ed = CanvasFields
           /\ BlocksFirst(ed.objects)
BY DEF CanvasInv, CanvasHolds, CanvasStands, CanvasTypes, Shown

LEMMA KindOfGesture ==
    ASSUME NEW g \in GestureTypes
    PROVE  /\ g.kind = "none" => g = NoGesture
           /\ g.kind = "frame" => g.origin \in Points
           /\ g.kind \in {"draw", "drag"} => g.id \in Ids \cup {0}
           /\ g.kind = "draw" => g.origin \in Points
BY DEF GestureTypes, NoGesture

LEMMA SettingTheToolHolds ==
    ASSUME CanvasInv, ed.gesture.kind # "draw", NEW tool \in Tools, ed' = SetTool(ed, tool), UNCHANGED actions
    PROVE  CanvasInv'
<1>1. PICK n \in Nat : n = actions
    BY CanvasHere
<1>2. PICK r : r = ed
    OBVIOUS
<1>3. CanvasStands(r, n) /\ r.undo # <<>> /\ Tracked(r) /\ r.gesture.kind # "draw"
    BY <1>1, <1>2, CanvasHere
<1>4. PICK q : q = SetTool(r, tool)
    OBVIOUS
<1>5. CanvasStands(q, n) /\ q.undo # <<>> /\ Tracked(q)
    BY <1>3, <1>4, SetToolIs
<1>6. ed' = q /\ actions' = n
    BY <1>1, <1>2, <1>4
<1> QED
    BY <1>5, <1>6 DEF CanvasInv, CanvasHolds

LEMMA PickHolds == ASSUME CanvasInv, NEW tool \in Tools, Pick(tool) PROVE CanvasInv'
BY SettingTheToolHolds DEF Pick, Idle, Uncounted

LEMMA PickCropAgainHolds == ASSUME CanvasInv, PickCropAgain PROVE CanvasInv'
BY SettingTheToolHolds DEF PickCropAgain, Idle, Uncounted, Tools

LEMMA CropIsNoDrawing == ASSUME CanvasInv, ed.tool = "crop" PROVE ed.gesture.kind # "draw" /\ ed.typing = 0
BY CanvasHere DEF Modes, ShapeTools

LEMMA CancelCropHolds == ASSUME CanvasInv, CancelCrop PROVE CanvasInv'
BY SettingTheToolHolds, CropIsNoDrawing DEF CancelCrop, Uncounted, Tools

LEMMA SetCropIs ==
    ASSUME NEW n, NEW r, CanvasStands(r, n), r.undo # <<>>, r.gesture.kind # "draw", NEW crop \in ValidCrops
    PROVE  CanvasHolds(SetCrop(r, crop), n)
<1>1. PICK s : s = SetTool(r, "select")
    OBVIOUS
<1>2. CanvasStands(s, n) /\ s.undo # <<>> /\ s.gesture = r.gesture
    BY <1>1, SetToolIs DEF Tools
<1>3. CanvasTypes(s, n) /\ Modes(s) /\ BlocksFirst(s.objects)
    BY <1>2 DEF CanvasStands, Shown
<1>4. PICK d : d = Document(s)
    OBVIOUS
<1>5. d \in LoadableDocs(n)
    BY <1>3, <1>4, DocumentIs, SnapshotsAreLoadable
<1>6. PICK doc : doc = [d EXCEPT !.crop = crop]
    OBVIOUS
<1>7. doc \in LoadableDocs(n)
    BY <1>5, <1>6 DEF LoadableDocs
<1>8. PICK l : l = LoadDoc(s, doc)
    OBVIOUS
<1>9. CanvasStands(l, n) /\ l.undo # <<>> /\ l.gesture.kind # "draw"
    BY <1>2, <1>3, <1>7, <1>8, LoadDocIs
<1>10. SetCrop(r, crop) = Commit(l)
    BY <1>1, <1>4, <1>6, <1>8 DEF SetCrop
<1> QED
    BY <1>9, <1>10, CommitHolds

LEMMA SettingTheCropHolds ==
    ASSUME CanvasInv, ed.tool = "crop", NEW crop \in ValidCrops, Counted, ed' = SetCrop(ed, crop)
    PROVE  CanvasInv'
<1>1. PICK n \in Nat : n = actions
    BY CanvasHere
<1>2. PICK r : r = ed
    OBVIOUS
<1>3. CanvasStands(r, n + 1) /\ r.undo # <<>> /\ r.gesture.kind # "draw"
    BY <1>1, <1>2, CanvasHere, CropIsNoDrawing, HoldsGrows
<1>4. PICK m \in Nat : m = n + 1
    OBVIOUS
<1>5. CanvasHolds(SetCrop(r, crop), m)
    BY <1>3, <1>4, SetCropIs
<1> QED
    BY <1>1, <1>2, <1>4, <1>5 DEF CanvasInv, Counted

LEMMA ApplyCropHolds == ASSUME CanvasInv, ApplyCrop PROVE CanvasInv'
<1>1. PICK crop : crop = IF ed.frame # NoFrame THEN CropOf(ed.frame)
                         ELSE IF IsWholeImage(ed.crop) THEN NoCrop ELSE ed.crop
    OBVIOUS
<1>2. ed.frame \in Boxes /\ ed.crop \in ValidCrops
    BY CanvasHere DEF CanvasTypes
<1>3. NoCrop \in ValidCrops
    BY DEF ValidCrops, NoCrop, Boxes
<1>4. crop \in ValidCrops
    BY <1>1, <1>2, <1>3, CropsAre
<1>5. ed.tool = "crop" /\ Counted /\ ed' = SetCrop(ed, crop)
    BY <1>1 DEF ApplyCrop
<1> QED
    BY <1>4, <1>5, SettingTheCropHolds

LEMMA ClearCropHolds == ASSUME CanvasInv, ClearCrop PROVE CanvasInv'
<1>1. NoCrop \in ValidCrops
    BY DEF ValidCrops, NoCrop, Boxes
<1>2. ed.tool = "crop" /\ Counted /\ ed' = SetCrop(ed, NoCrop)
    BY DEF ClearCrop
<1> QED
    BY <1>1, <1>2, SettingTheCropHolds

LEMMA PointsAre == \A p \in Points : p.x \in Int /\ p.y \in Int
BY CanvasAssumption

\* A handler that moves the frame or starts a gesture of the frame.
LEMMA FramingHolds ==
    ASSUME CanvasInv, NEW frame \in Boxes, NEW gesture \in GestureTypes, ed.tool = "crop",
           gesture.kind \in {"none", "frame", "adjust"}, ed.gesture.kind \in {"none", "frame", "adjust"},
           ed' = [ed EXCEPT !.frame = frame, !.gesture = gesture],
           actions' = actions \/ actions' = actions + 1
    PROVE  CanvasInv'
<1>1. PICK n \in Nat : n = actions
    BY CanvasHere
<1>2. PICK r : r = ed
    OBVIOUS
<1>3. /\ CanvasTypes(r, n) /\ Modes(r) /\ View(r) /\ Shown(r) /\ DOMAIN r = CanvasFields
      /\ r.undo # <<>> /\ Tracked(r)
    BY <1>1, <1>2, CanvasHere
<1>4. PICK q : q = ed'
    OBVIOUS
<1>5. /\ DOMAIN q = CanvasFields /\ q.objects = r.objects /\ q.crop = r.crop /\ q.wide = r.wide
      /\ q.view = r.view /\ q.tool = r.tool /\ q.frame = frame /\ q.gesture = gesture
      /\ q.typing = r.typing /\ q.undo = r.undo /\ q.redo = r.redo /\ q.stray = r.stray /\ q.torn = r.torn
    BY <1>2, <1>3, <1>4 DEF CanvasFields
<1>6. r.typing = 0 /\ r.tool = "crop"
    BY <1>2, CropIsNoDrawing
<1>7. CanvasTypes(q, n)
    BY <1>3, <1>5 DEF CanvasTypes
<1>8. Modes(q) /\ View(q)
    BY <1>3, <1>5, <1>6 DEF Modes, View
<1>9. Holding(r.gesture) = 0 /\ Holding(gesture) = 0
    BY <1>2 DEF Holding
<1>10. Shown(q)
    BY <1>3, <1>5, <1>9, ShownIsCalm, CalmIsShown
<1>11. Document(q) = Document(r)
    BY <1>5, DocumentOf
<1>12. Tracked(q)
    <2>1. ~r.torn => Document(r) = r.undo[Len(r.undo)]
        BY <1>3, <1>6, <1>9 DEF Tracked
    <2>2. q.objects \in Seq(Objects(n))
        BY <1>7 DEF CanvasTypes
    <2> QED
        BY <1>5, <1>6, <1>9, <1>11, <2>1, <2>2, KnownByTheTop
<1>13. CanvasStands(q, n) /\ CanvasStands(q, n + 1)
    BY <1>7, <1>8, <1>10, HoldsGrows DEF CanvasStands
<1> QED
    BY <1>1, <1>3, <1>4, <1>5, <1>12, <1>13 DEF CanvasInv, CanvasHolds

LEMMA DrawFrameHolds ==
    ASSUME CanvasInv, NEW p \in Points, Idle, Counted, DrawFrame(p) PROVE CanvasInv'
<1>1. PICK frame : frame = Geom(p.x, p.y, Px, Px)
    OBVIOUS
<1>2. PICK gesture : gesture = [kind |-> "frame", origin |-> p]
    OBVIOUS
<1>3. frame \in Boxes
    BY <1>1, PointsAre DEF Geom, Boxes, Px
<1>4. gesture \in GestureTypes /\ gesture.kind = "frame"
    BY <1>2 DEF GestureTypes
<1>5. ed' = [ed EXCEPT !.frame = frame, !.gesture = gesture]
    BY <1>1, <1>2 DEF DrawFrame
<1> QED
    BY <1>3, <1>4, <1>5, FramingHolds DEF DrawFrame, Idle, Counted
LEMMA NewObjectIs ==
    ASSUME CanvasInv, Counted, NEW kind \in Kinds, NEW p \in Points
    PROVE  LET o == NewObject(kind, p)
           IN /\ o \in Objects(actions + 1) /\ o.id = actions + 1 /\ o.kind = kind /\ o.wide = ed.wide
              /\ o.id # 0 /\ (kind # "redact" => Calm(o))
<1>1. actions \in Nat /\ MaxActions \in Nat /\ actions < MaxActions
    BY CanvasHere, CanvasAssumption DEF Counted
<1>2. PICK o : o = NewObject(kind, p)
    OBVIOUS
<1>3. ed.wide \in Int
    <2>1. ed.wide = EffectiveWidth(ed.crop) /\ ed.crop \in Boxes
        BY CanvasHere DEF Modes, CanvasTypes, ValidCrops
    <2> QED
        BY <2>1, EffectiveWidthIs
<1>4. PICK font : font = AnnotationSizes(ed.wide).font
    OBVIOUS
<1>5. font \in MinFont..MaxFont /\ font \in Int
    <2>1. PICK wide \in Int : wide = ed.wide
        BY <1>3
    <2>2. AnnotationSizes(wide).font \in MinFont..MaxFont
        BY SizesAre
    <2>3. MinFont \in Int /\ MaxFont \in Int
        BY AnnotationAssumption
    <2> QED
        BY <1>4, <2>1, <2>2, <2>3
<1>6. PICK id : id = actions + 1
    OBVIOUS
<1>7. PICK opaque \in BOOLEAN : opaque = (kind # "redact")
    OBVIOUS
<1>8. o = [id |-> id, kind |-> kind, x |-> p.x, y |-> p.y, w |-> Px, h |-> Px, text |-> Blank,
           font |-> font, wide |-> ed.wide, opaque |-> opaque]
    BY <1>2, <1>4, <1>6, <1>7 DEF NewObject
<1>9. id \in Ids /\ Used(id, actions + 1) /\ id # 0
    <2>1. id \in 1..MaxActions
        BY <1>1, <1>6
    <2>2. id \notin (actions + 1 + 1)..MaxActions
        BY <1>1, <1>6
    <2> QED
        BY <2>1, <2>2 DEF Ids, Used
<1>10. Blank \in Words /\ Px \in Int /\ Px >= 0 /\ p.x \in Int /\ p.y \in Int
    BY PointsAre DEF Words, Px
<1>11. o \in [id : Ids, kind : Kinds, x : Int, y : Int, w : Int, h : Int, text : Words,
              font : Int, wide : Int, opaque : BOOLEAN]
    BY <1>3, <1>5, <1>8, <1>9, <1>10
<1>12. o \in Objects(actions + 1)
    BY <1>8, <1>9, <1>10, <1>11 DEF Objects, Upright
<1>13. kind # "redact" => Calm(o)
    BY <1>5, <1>8 DEF Calm, Sound
<1> QED
    BY <1>2, <1>6, <1>8, <1>9, <1>12, <1>13

LEMMA DrawShapeHolds ==
    ASSUME CanvasInv, NEW p \in Points, Idle, Counted, DrawShape(p) PROVE CanvasInv'
<1>1. PICK n \in Nat : n = actions
    BY CanvasHere
<1>2. PICK r : r = ed
    OBVIOUS
<1>3. /\ CanvasTypes(r, n) /\ Modes(r) /\ View(r) /\ Shown(r) /\ DOMAIN r = CanvasFields
      /\ r.undo # <<>> /\ Tracked(r) /\ r.gesture.kind = "none"
    BY <1>1, <1>2, CanvasHere DEF Idle
<1>4. PICK o : o = NewObject(r.tool, p)
    OBVIOUS
<1>5. r.tool \in ShapeTools /\ r.tool \in Kinds /\ r.tool # "text" /\ r.tool # "crop" /\ r.tool # "select"
    BY <1>2 DEF DrawShape, ShapeTools, Kinds
<1>6. /\ o \in Objects(n + 1) /\ o.id = n + 1 /\ o.kind = r.tool /\ o.wide = r.wide /\ o.id # 0
    BY <1>1, <1>2, <1>4, <1>5, NewObjectIs
<1>7. PICK x : x = r.objects
    OBVIOUS
<1>8. x \in Seq(Objects(n)) /\ BlocksFirst(x) /\ \A i \in DOMAIN x : x[i].wide = r.wide /\ Calm(x[i])
    BY <1>3, <1>7, ShownIsCalm DEF CanvasTypes, Holding
<1>9. PICK y : y = AddShape(x, o)
    OBVIOUS
<1>10. PICK T : T = Members(x) \cup {o}
    OBVIOUS
<1>11. x \in Seq(Members(x)) /\ Members(x) \subseteq Objects(n) /\ Members(x) \subseteq T /\ o \in T
    BY <1>8, <1>10, MembersOf
<1>12. x \in Seq(T)
    BY <1>11, SeqMonotonic
<1>13. Layered(x, T)
    BY <1>8, <1>12, BlocksFirstIsLayered
<1>14. Layered(y, T) /\ y \in Seq(T)
    BY <1>9, <1>11, <1>13, AddShapeKeepsOrder
<1>15. BlocksFirst(y)
    BY <1>14, LayeredIsBlocksFirst
<1>16. T \subseteq Objects(n + 1)
    BY <1>6, <1>10, <1>11, TypesGrow
<1>17. y \in Seq(Objects(n + 1))
    BY <1>14, <1>16, SeqMonotonic
<1>18. \A i \in DOMAIN y : y[i] \in T
    BY <1>14, ElementOfSeq, LenProperties
<1>19. \A t \in T : t.wide = r.wide /\ (t = o \/ Calm(t))
    BY <1>6, <1>8, <1>10 DEF Members
<1>20. \A t \in Members(x) : t.id # o.id
    <2>1. \A t \in Objects(n) : t.id \notin (n + 1)..MaxActions
        BY DEF Objects, Used
    <2>2. o.id \in (n + 1)..MaxActions
        BY <1>1, <1>6, CanvasAssumption, CanvasHere DEF Counted
    <2> QED
        BY <1>11, <2>1, <2>2
<1>21. Without(y, o.id) = x
    <2>1. PICK S : S = {t \in T : t.id # o.id}
        OBVIOUS
    <2>2. Without(y, o.id) = Only(y, S)
        <3>1. PICK id : id = o.id
            OBVIOUS
        <3>2. Without(y, id) = Only(y, {t \in T : t.id # id})
            BY <1>14, WithoutIs
        <3> QED
            BY <2>1, <3>1, <3>2
    <2>3. o \notin S
        BY <2>1
    <2>4. Only(y, S) = Only(x, S)
        BY <1>9, <1>11, <1>13, <2>3, AddShapeAside
    <2>5. Members(x) \subseteq S
        BY <1>11, <1>20, <2>1
    <2>6. Only(x, S) = x
        BY <1>11, <2>5, OnlyAll
    <2> QED
        BY <2>2, <2>4, <2>6
<1>22. PICK g : g = [kind |-> "draw", id |-> o.id, origin |-> p]
    OBVIOUS
<1>23. g \in GestureTypes /\ g.kind = "draw" /\ g.id = o.id /\ Holding(g) = o.id
    <2>1. o.id \in Ids
        BY <1>6 DEF Objects
    <2> QED
        BY <1>22, <2>1 DEF GestureTypes, Holding
<1>24. PICK q : q = ed'
    OBVIOUS
<1>25. q = [r EXCEPT !.objects = y, !.gesture = g]
    BY <1>2, <1>4, <1>7, <1>9, <1>22, <1>24 DEF DrawShape
<1>26. /\ DOMAIN q = CanvasFields /\ q.objects = y /\ q.crop = r.crop /\ q.wide = r.wide
       /\ q.view = r.view /\ q.tool = r.tool /\ q.frame = r.frame /\ q.gesture = g
       /\ q.typing = r.typing /\ q.undo = r.undo /\ q.redo = r.redo /\ q.stray = r.stray /\ q.torn = r.torn
    BY <1>3, <1>25 DEF CanvasFields
<1>27. CanvasTypes(r, n + 1)
    BY <1>3, CanvasGrows
<1>28. CanvasTypes(q, n + 1)
    BY <1>17, <1>23, <1>26, <1>27 DEF CanvasTypes
<1>29. r.typing = 0
    BY <1>3, <1>5 DEF Modes
<1>30. Modes(q) /\ View(q)
    BY <1>3, <1>5, <1>23, <1>26, <1>29 DEF Modes, View
<1>31. Shown(q)
    <2>1. \A i \in DOMAIN y : y[i].wide = q.wide /\ (y[i].id # Holding(q.gesture) => Calm(y[i]))
        BY <1>18, <1>19, <1>23, <1>26
    <2>2. \A i \in DOMAIN y : y[i].kind = "text" => Sound(y[i])
        BY <1>5, <1>6, <1>18, <1>19 DEF Calm
    <2> QED
        BY <1>15, <1>26, <2>1, <2>2 DEF Shown
<1>32. Tracked(q)
    <2>1. PICK d : d = [q EXCEPT !.objects = Without(q.objects, q.gesture.id)]
        OBVIOUS
    <2>2. d.objects = r.objects /\ d.crop = r.crop
        BY <1>7, <1>21, <1>23, <1>26, <2>1 DEF CanvasFields
    <2>3. Document(d) = Document(r)
        BY <2>2, DocumentOf
    <2>4. ~r.torn => Document(r) = r.undo[Len(r.undo)]
        BY <1>3, <1>29 DEF Tracked, Holding
    <2>5. Holding(q.gesture) # 0
        BY <1>6, <1>23, <1>26
    <2> QED
        BY <1>26, <2>1, <2>3, <2>4, <2>5 DEF Tracked
<1>33. actions' = n + 1 /\ q.undo # <<>>
    BY <1>1, <1>3, <1>26 DEF Counted
<1> QED
    BY <1>24, <1>28, <1>30, <1>31, <1>32, <1>33 DEF CanvasInv, CanvasHolds, CanvasStands

LEMMA PlaceTextHolds ==
    ASSUME CanvasInv, NEW p \in Points, Idle, Counted, PlaceText(p) PROVE CanvasInv'
<1>1. PICK n \in Nat : n = actions
    BY CanvasHere
<1>2. PICK r : r = ed
    OBVIOUS
<1>3. /\ CanvasTypes(r, n) /\ Modes(r) /\ View(r) /\ Shown(r) /\ DOMAIN r = CanvasFields
      /\ r.undo # <<>> /\ Tracked(r) /\ r.gesture.kind = "none"
    BY <1>1, <1>2, CanvasHere DEF Idle
<1>4. PICK o : o = NewObject("text", p)
    OBVIOUS
<1>5. r.tool = "text"
    BY <1>2 DEF PlaceText
<1>6. o \in Objects(n + 1) /\ o.kind = "text" /\ o.wide = r.wide /\ o.id # 0 /\ Calm(o)
    <2>1. "text" \in Kinds
        BY DEF Kinds
    <2> QED
        BY <1>1, <1>2, <1>4, <2>1, NewObjectIs
<1>7. PICK x : x = r.objects
    OBVIOUS
<1>8. x \in Seq(Objects(n)) /\ BlocksFirst(x) /\ \A i \in DOMAIN x : x[i].wide = r.wide /\ Calm(x[i])
    BY <1>3, <1>7, ShownIsCalm DEF CanvasTypes, Holding
<1>9. PICK y : y = Append(x, o)
    OBVIOUS
<1>10. PICK T : T = Objects(n + 1)
    OBVIOUS
<1>11. x \in Seq(T) /\ o \in T
    BY <1>6, <1>8, <1>10, TypesGrow, SeqMonotonic
<1>12. y \in Seq(T) /\ BlocksFirst(y)
    BY <1>6, <1>8, <1>9, <1>11, BlocksFirstAppend, AppendProperties
<1>13. PICK k \in Nat : k = Len(x)
    BY <1>11, LenProperties
<1>14. DOMAIN y = 1..(k + 1) /\ DOMAIN x = 1..k /\ y[k + 1] = o /\ \A i \in 1..k : y[i] = x[i]
    <2>1. Len(y) = k + 1 /\ y[k + 1] = o /\ \A i \in 1..k : y[i] = x[i]
        BY <1>9, <1>11, <1>13, AppendProperties
    <2> QED
        BY <1>11, <1>12, <1>13, <2>1, LenProperties
<1>15. \A i \in DOMAIN y : y[i].wide = r.wide /\ Calm(y[i])
    BY <1>6, <1>8, <1>14
<1>16. PICK s : s = [r EXCEPT !.objects = y]
    OBVIOUS
<1>17. /\ DOMAIN s = CanvasFields /\ s.objects = y /\ s.crop = r.crop /\ s.wide = r.wide
       /\ s.view = r.view /\ s.tool = r.tool /\ s.frame = r.frame /\ s.gesture = r.gesture
       /\ s.typing = r.typing /\ s.undo = r.undo /\ s.redo = r.redo /\ s.stray = r.stray /\ s.torn = r.torn
    BY <1>3, <1>16 DEF CanvasFields
<1>18. CanvasTypes(s, n + 1)
    <2>1. CanvasTypes(r, n + 1)
        BY <1>3, CanvasGrows
    <2> QED
        BY <1>10, <1>12, <1>17, <2>1 DEF CanvasTypes
<1>19. Modes(s) /\ View(s) /\ Shown(s)
    BY <1>3, <1>5, <1>12, <1>15, <1>17, CalmIsShown DEF Modes, View
<1>20. PICK m \in Nat : m = n + 1
    OBVIOUS
<1>21. CanvasStands(s, m) /\ s.undo # <<>> /\ s.gesture.kind # "draw"
    BY <1>3, <1>17, <1>18, <1>19, <1>20 DEF CanvasStands
<1>22. PICK t : t = SetTool(s, "select")
    OBVIOUS
<1>23. /\ CanvasStands(t, m) /\ t.undo # <<>> /\ t.tool = "select" /\ t.gesture = s.gesture
       /\ t.objects = s.objects
    BY <1>21, <1>22, SetToolIs DEF Tools
<1>24. CanvasTypes(t, m) /\ Modes(t) /\ View(t) /\ Shown(t) /\ DOMAIN t = CanvasFields
    BY <1>23 DEF CanvasStands, CanvasTypes
<1>25. PICK q : q = ed'
    OBVIOUS
<1>26. q = [t EXCEPT !.typing = o.id]
    BY <1>2, <1>4, <1>7, <1>9, <1>16, <1>22, <1>25 DEF PlaceText
<1>27. /\ DOMAIN q = CanvasFields /\ q.objects = t.objects /\ q.crop = t.crop /\ q.wide = t.wide
       /\ q.view = t.view /\ q.tool = t.tool /\ q.frame = t.frame /\ q.gesture = t.gesture
       /\ q.typing = o.id /\ q.undo = t.undo /\ q.redo = t.redo /\ q.stray = t.stray /\ q.torn = t.torn
    BY <1>24, <1>26 DEF CanvasFields
<1>28. CanvasTypes(q, m)
    BY <1>24, <1>27 DEF CanvasTypes
<1>29. q.gesture = NoGesture
    BY <1>3, <1>17, <1>23, <1>27, KindOfGesture DEF CanvasTypes
<1>30. Modes(q)
    <2>1. k + 1 \in DOMAIN q.objects /\ q.objects[k + 1].id = q.typing
        BY <1>14, <1>17, <1>23, <1>27
    <2> QED
        BY <1>23, <1>24, <1>27, <1>29, <2>1 DEF Modes
<1>31. View(q) /\ Shown(q)
    BY <1>24, <1>27, ShownElsewhere DEF View
<1>32. Tracked(q)
    BY <1>6, <1>27 DEF Tracked
<1>33. actions' = m
    BY <1>1, <1>20 DEF Counted
<1> QED
    BY <1>23, <1>25, <1>27, <1>28, <1>30, <1>31, <1>32, <1>33 DEF CanvasInv, CanvasHolds, CanvasStands

LEMMA MouseDownHolds == ASSUME CanvasInv, NEW p \in Points, MouseDown(p) PROVE CanvasInv'
BY DrawFrameHolds, DrawShapeHolds, PlaceTextHolds DEF MouseDown

LEMMA AdjustFrameHolds == ASSUME CanvasInv, NEW p \in Points, AdjustFrame(p) PROVE CanvasInv'
<1>1. PICK f \in Boxes : f = ed.frame
    BY CanvasHere DEF CanvasTypes
<1>2. f.x \in Int /\ f.y \in Int /\ f.w \in Int /\ f.h \in Int /\ p.x \in Int /\ p.y \in Int
    BY PointsAre DEF Boxes
<1>3. \A g \in Boxes : KeptInside(g) \in Boxes
    <2> SUFFICES ASSUME NEW g \in Boxes PROVE KeptInside(g) \in Boxes
        OBVIOUS
    <2>1. Width \in Int /\ Height \in Int /\ g.x \in Int /\ g.y \in Int /\ g.w \in Int /\ g.h \in Int
        BY AnnotationAssumption DEF Boxes
    <2>2. \A a, b \in Int : Max({a, b}) \in Int /\ Min({a, b}) \in Int
        BY MaxIs, MinIs
    <2>3. PICK a \in Int : a = Min({Max({0, g.x}), Max({0, Width - g.w})})
        <3>1. PICK c \in Int : c = Width - g.w
            BY <2>1
        <3>2. PICK d \in Int : d = Max({0, c})
            BY <2>2
        <3>3. PICK e \in Int : e = Max({0, g.x})
            BY <2>1, <2>2
        <3>4. Min({e, d}) \in Int
            BY <2>2
        <3> QED
            BY <3>1, <3>2, <3>3, <3>4
    <2>4. PICK b \in Int : b = Min({Max({0, g.y}), Max({0, Height - g.h})})
        <3>1. PICK c \in Int : c = Height - g.h
            BY <2>1
        <3>2. PICK d \in Int : d = Max({0, c})
            BY <2>2
        <3>3. PICK e \in Int : e = Max({0, g.y})
            BY <2>1, <2>2
        <3>4. Min({e, d}) \in Int
            BY <2>2
        <3> QED
            BY <3>1, <3>2, <3>3, <3>4
    <2>5. KeptInside(g) = [g EXCEPT !.x = a, !.y = b]
        BY <2>3, <2>4 DEF KeptInside
    <2> QED
        BY <2>5 DEF Boxes
<1>4. PICK g : /\ g \in {KeptInside([f EXCEPT !.x = p.x, !.y = p.y])} \cup
                        (IF p.x <= f.x \/ p.y <= f.y THEN {}
                         ELSE {[f EXCEPT !.w = p.x - f.x, !.h = p.y - f.y]})
               /\ ed' = [ed EXCEPT !.frame = g, !.gesture = [kind |-> "adjust"]]
    BY <1>1 DEF AdjustFrame
<1>5. [f EXCEPT !.x = p.x, !.y = p.y] \in Boxes /\ [f EXCEPT !.w = p.x - f.x, !.h = p.y - f.y] \in Boxes
    <2>1. PICK w \in Int : w = p.x - f.x
        BY <1>2
    <2>2. PICK h \in Int : h = p.y - f.y
        BY <1>2
    <2>3. [f EXCEPT !.x = p.x, !.y = p.y] \in Boxes /\ [f EXCEPT !.w = w, !.h = h] \in Boxes
        BY <1>2 DEF Boxes
    <2> QED
        BY <2>1, <2>2, <2>3
<1>6. g \in Boxes
    BY <1>3, <1>4, <1>5
<1>7. PICK gesture : gesture = [kind |-> "adjust"]
    OBVIOUS
<1>8. gesture \in GestureTypes /\ gesture.kind = "adjust"
    BY <1>7 DEF GestureTypes
<1> QED
    BY <1>4, <1>6, <1>7, <1>8, FramingHolds DEF AdjustFrame, Idle, Counted

LEMMA FrameEndsHolds == ASSUME CanvasInv, FrameEnds, UNCHANGED actions PROVE CanvasInv'
<1>1. PICK f : f = IF ed.frame = NoFrame THEN ed.frame
                   ELSE IF ed.gesture.kind = "frame" /\ (ed.frame.w < MinCrop \/ ed.frame.h < MinCrop)
                   THEN NoFrame ELSE SettleFrame(ed.frame)
    OBVIOUS
<1>2. ed.frame \in Boxes /\ NoFrame \in Boxes
    BY CanvasHere DEF CanvasTypes, NoFrame, NoCrop, Boxes
<1>3. f \in Boxes
    BY <1>1, <1>2, CropsAre
<1>4. ed' = [ed EXCEPT !.frame = f, !.gesture = NoGesture]
    BY <1>1, CanvasHere DEF FrameEnds, CanvasFields
<1>5. CASE ed.tool = "crop"
    BY <1>3, <1>4, <1>5, FramingHolds, NothingHeld DEF FrameEnds
<1>6. CASE ed.tool # "crop"
    <2>1. PICK n \in Nat : n = actions
        BY CanvasHere
    <2>2. PICK r : r = ed
        OBVIOUS
    <2>3. /\ CanvasTypes(r, n) /\ Modes(r) /\ View(r) /\ Shown(r) /\ DOMAIN r = CanvasFields
          /\ r.undo # <<>> /\ Tracked(r)
        BY <2>1, <2>2, CanvasHere
    <2>4. r.frame = NoFrame /\ f = NoFrame
        BY <1>1, <1>6, <2>2, <2>3 DEF Modes
    <2>5. PICK q : q = ed'
        OBVIOUS
    <2>6. /\ DOMAIN q = CanvasFields /\ q.objects = r.objects /\ q.crop = r.crop /\ q.wide = r.wide
          /\ q.view = r.view /\ q.tool = r.tool /\ q.frame = r.frame /\ q.gesture = NoGesture
          /\ q.typing = r.typing /\ q.undo = r.undo /\ q.redo = r.redo /\ q.stray = r.stray /\ q.torn = r.torn
        BY <1>4, <2>2, <2>3, <2>4, <2>5 DEF CanvasFields
    <2>7. Holding(r.gesture) = 0 /\ Holding(q.gesture) = 0
        BY <2>2, <2>6, NothingHeld DEF FrameEnds, Holding
    <2>8. CanvasTypes(q, n)
        BY <2>3, <2>6, NothingHeld DEF CanvasTypes
    <2>9. Modes(q) /\ View(q) /\ Shown(q)
        BY <2>3, <2>6, <2>7, NothingHeld, ShownIsCalm, CalmIsShown DEF Modes, View
    <2>10. Document(q) = Document(r)
        BY <2>6, DocumentOf
    <2>11. q.objects \in Seq(Objects(n))
        BY <2>8 DEF CanvasTypes
    <2>12. Tracked(q)
        BY <2>3, <2>6, <2>7, <2>10, <2>11, KnownByTheTop DEF Tracked
    <2> QED
        BY <2>1, <2>3, <2>5, <2>6, <2>8, <2>9, <2>12 DEF CanvasInv, CanvasHolds, CanvasStands
<1> QED
    BY <1>5, <1>6
\* Fabric's drag of an object gives an object of the same kind.
LEMMA HandlesAre ==
    ASSUME NEW n, NEW o \in Objects(n), NEW p \in Points, NEW h \in Handles(o, p), NEW opaque \in BOOLEAN
    PROVE  LET q == [h EXCEPT !.opaque = opaque]
           IN q \in Objects(n) /\ q.id = o.id /\ q.kind = o.kind /\ q.wide = o.wide
<1>1. p.x \in Int /\ p.y \in Int
    BY PointsAre
<1>2. DOMAIN o = ObjectFields /\ o = [f \in ObjectFields |-> o[f]]
      /\ Proper(o, n) /\ o.wide \in Int /\ o.opaque \in BOOLEAN
    BY FieldsOfObject
<1>3. o.x \in Int /\ o.y \in Int /\ o.w \in Int /\ o.h \in Int /\ o.font \in Int
    BY <1>2 DEF Proper
<1>4. PICK dx \in Int : dx = p.x - o.x
    BY <1>1, <1>3
<1>5. PICK dy \in Int : dy = p.y - o.y
    BY <1>1, <1>3
<1>6. PICK ex \in Int : ex = o.w + o.x - p.x
    BY <1>1, <1>3
<1>7. PICK ey \in Int : ey = o.h + o.y - p.y
    BY <1>1, <1>3
<1>8. \/ o.kind = "arrow" /\ h = [o EXCEPT !.x = p.x, !.y = p.y, !.w = ex, !.h = ey]
      \/ o.kind = "arrow" /\ h = [o EXCEPT !.w = dx, !.h = dy]
      \/ o.kind # "arrow" /\ h = [o EXCEPT !.x = p.x, !.y = p.y]
      \/ o.kind = "text" /\ h = [o EXCEPT !.font = dy]
      \/ o.kind # "arrow" /\ dx >= 0 /\ dy >= 0 /\ h = [o EXCEPT !.w = dx, !.h = dy]
    BY <1>1, <1>2, <1>3, <1>4, <1>5, <1>6, <1>7 DEF Handles, ObjectFields
<1>9. PICK q : q = [h EXCEPT !.opaque = opaque]
    OBVIOUS
<1>10. /\ DOMAIN q = ObjectFields /\ q = [f \in ObjectFields |-> q[f]]
       /\ q.id = o.id /\ q.kind = o.kind /\ q.text = o.text /\ q.wide = o.wide /\ q.opaque = opaque
       /\ q.x \in Int /\ q.y \in Int /\ q.w \in Int /\ q.h \in Int /\ q.font \in Int
       /\ (o.kind = "rect" => \/ q.w = o.w /\ q.h = o.h
                              \/ q.w >= 0 /\ q.h >= 0)
    <2>1. CASE o.kind = "arrow" /\ h = [o EXCEPT !.x = p.x, !.y = p.y, !.w = ex, !.h = ey]
        BY <1>1, <1>2, <1>3, <1>9, <2>1 DEF ObjectFields
    <2>2. CASE o.kind = "arrow" /\ h = [o EXCEPT !.w = dx, !.h = dy]
        BY <1>1, <1>2, <1>3, <1>9, <2>2 DEF ObjectFields
    <2>3. CASE o.kind # "arrow" /\ h = [o EXCEPT !.x = p.x, !.y = p.y]
        BY <1>1, <1>2, <1>3, <1>9, <2>3 DEF ObjectFields
    <2>4. CASE o.kind = "text" /\ h = [o EXCEPT !.font = dy]
        BY <1>1, <1>2, <1>3, <1>9, <2>4 DEF ObjectFields
    <2>5. CASE o.kind # "arrow" /\ dx >= 0 /\ dy >= 0 /\ h = [o EXCEPT !.w = dx, !.h = dy]
        BY <1>1, <1>2, <1>3, <1>9, <2>5 DEF ObjectFields
    <2> QED
        BY <1>8, <2>1, <2>2, <2>3, <2>4, <2>5
<1>11. Proper(q, n)
    BY <1>2, <1>10 DEF Proper, Upright
<1>12. q \in Objects(n)
    BY <1>2, <1>10, <1>11, ObjectIs
<1> QED
    BY <1>9, <1>10, <1>12

LEMMA DragHolds == ASSUME CanvasInv, NEW p \in Points, Drag(p) PROVE CanvasInv'
<1>1. PICK n \in Nat : n = actions
    BY CanvasHere
<1>2. PICK r : r = ed
    OBVIOUS
<1>3. /\ CanvasTypes(r, n) /\ Modes(r) /\ View(r) /\ Shown(r) /\ DOMAIN r = CanvasFields
      /\ r.undo # <<>> /\ r.gesture.kind = "none" /\ r.tool = "select" /\ r.typing = 0
    BY <1>1, <1>2, CanvasHere DEF Drag, Idle
<1>4. PICK x : x = r.objects
    OBVIOUS
<1>5. /\ x \in Seq(Objects(n)) /\ BlocksFirst(x) /\ DOMAIN x = 1..Len(x) /\ Len(x) \in Nat
      /\ \A i \in DOMAIN x : x[i].wide = r.wide /\ Calm(x[i]) /\ x[i] \in Objects(n) /\ x[i].id # 0
    BY <1>3, <1>4, ShownIsCalm, ObjectsOf DEF CanvasTypes, Holding
<1>6. PICK i \in DOMAIN x : \E h \in Handles(x[i], p) :
        ed' = [ed EXCEPT !.objects[i] = [h EXCEPT !.opaque = h.kind # "redact"],
                         !.gesture = [kind |-> "drag", id |-> h.id]]
    BY <1>2, <1>4 DEF Drag
<1>7. PICK h \in Handles(x[i], p) :
        ed' = [ed EXCEPT !.objects[i] = [h EXCEPT !.opaque = h.kind # "redact"],
                         !.gesture = [kind |-> "drag", id |-> h.id]]
    BY <1>6
<1>8. PICK o \in Objects(n) : o = x[i]
    BY <1>5
<1>9. PICK opaque \in BOOLEAN : opaque = (h.kind # "redact")
    OBVIOUS
<1>10. PICK q : q = [h EXCEPT !.opaque = opaque]
    OBVIOUS
<1>11. q \in Objects(n) /\ q.id = o.id /\ q.kind = o.kind /\ q.wide = o.wide
    BY <1>7, <1>8, <1>10, HandlesAre
<1>12. h.id = o.id
    <2>1. DOMAIN o = ObjectFields
        BY FieldsOfObject
    <2>2. h \in Handles(o, p)
        BY <1>7, <1>8
    <2> QED
        BY <2>1, <2>2 DEF Handles, ObjectFields
<1>13. PICK y : y = [x EXCEPT ![i] = q]
    OBVIOUS
<1>14. /\ DOMAIN y = DOMAIN x /\ y[i] = q /\ \A j \in DOMAIN x : j # i => y[j] = x[j]
    BY <1>13
<1>15. y \in Seq(Objects(n))
    <2>1. y \in [1..Len(x) -> Objects(n)]
        BY <1>5, <1>11, <1>13
    <2> QED
        BY <1>5, <2>1
<1>16. BlocksFirst(y)
    <2>1. \A j \in DOMAIN x : y[j].kind = x[j].kind
        BY <1>8, <1>11, <1>14
    <2> QED
        BY <1>5, <1>14, <2>1, BlocksFirstOfAlike
<1>17. PICK g : g = [kind |-> "drag", id |-> o.id]
    OBVIOUS
<1>18. g \in GestureTypes /\ g.kind = "drag" /\ Holding(g) = o.id /\ o.id # 0
    <2>1. o.id \in Ids
        BY DEF Objects
    <2> QED
        BY <1>5, <1>8, <1>17, <2>1 DEF GestureTypes, Holding
<1>19. PICK s : s = ed'
    OBVIOUS
<1>20. s = [r EXCEPT !.objects = y, !.gesture = g]
    BY <1>2, <1>3, <1>4, <1>7, <1>9, <1>10, <1>12, <1>13, <1>17, <1>19 DEF CanvasFields
<1>21. /\ DOMAIN s = CanvasFields /\ s.objects = y /\ s.crop = r.crop /\ s.wide = r.wide
       /\ s.view = r.view /\ s.tool = r.tool /\ s.frame = r.frame /\ s.gesture = g
       /\ s.typing = r.typing /\ s.undo = r.undo /\ s.redo = r.redo /\ s.stray = r.stray /\ s.torn = r.torn
    BY <1>3, <1>20 DEF CanvasFields
<1>22. CanvasTypes(s, n)
    BY <1>3, <1>15, <1>18, <1>21 DEF CanvasTypes
<1>23. Modes(s) /\ View(s)
    BY <1>3, <1>18, <1>21 DEF Modes, View
<1>24. Shown(s)
    <2>1. \A j \in DOMAIN y : y[j].wide = s.wide /\ (y[j].id # Holding(s.gesture) => Calm(y[j]))
        BY <1>5, <1>8, <1>11, <1>14, <1>18, <1>21
    <2>2. s.gesture.kind # "draw"
        BY <1>18, <1>21
    <2> QED
        BY <1>16, <1>21, <2>1, <2>2 DEF Shown
<1>25. Tracked(s)
    BY <1>18, <1>21 DEF Tracked
<1>26. CanvasStands(s, n)
    BY <1>22, <1>23, <1>24 DEF CanvasStands
<1>27. CanvasStands(s, n + 1) /\ actions' = n + 1
    BY <1>1, <1>26, HoldsGrows DEF Drag, Counted
<1> QED
    BY <1>3, <1>19, <1>21, <1>25, <1>27 DEF CanvasInv, CanvasHolds

-----------------------------------------------------------------------------
(* Objects changed one by one.                                                *)

\* A handler that changes every object for one of the same kind and name.
LEMMA ChangedIs ==
    ASSUME NEW n, NEW x \in Seq(Objects(n)), NEW f,
           \A o \in Objects(n) : f[o] \in Objects(n) /\ f[o].id = o.id /\ f[o].kind = o.kind /\ f[o].wide = o.wide
    PROVE  /\ Mapped(x, f) \in Seq(Objects(n)) /\ DOMAIN Mapped(x, f) = DOMAIN x
           /\ \A i \in DOMAIN x : /\ Mapped(x, f)[i] = f[x[i]] /\ x[i] \in Objects(n)
                                  /\ Mapped(x, f)[i].id = x[i].id /\ Mapped(x, f)[i].wide = x[i].wide
           /\ BlocksFirst(x) => BlocksFirst(Mapped(x, f))
<1>1. PICK y : y = Mapped(x, f)
    OBVIOUS
<1>2. y \in Seq(Objects(n))
    BY <1>1, MappedSeq
<1>3. DOMAIN y = DOMAIN x /\ \A i \in DOMAIN x : y[i] = f[x[i]] /\ x[i] \in Objects(n)
    BY <1>1, MappedIs
<1>4. \A i \in DOMAIN x : y[i].kind = x[i].kind
    BY <1>3
<1> QED
    BY <1>1, <1>2, <1>3, <1>4, BlocksFirstOfAlike

\* Where only the objects named id are changed, the rest is the same without them.
LEMMA ChangedWithout ==
    ASSUME NEW n, NEW x \in Seq(Objects(n)), NEW f, NEW id,
           \A o \in Objects(n) : f[o] \in Objects(n) /\ f[o].id = o.id /\ (o.id # id => f[o] = o)
    PROVE  Without(Mapped(x, f), id) = Without(x, id)
<1>1. PICK T : T = Objects(n)
    OBVIOUS
<1>2. PICK S : S = {t \in T : t.id # id}
    OBVIOUS
<1>3. PICK y : y = Mapped(x, f)
    OBVIOUS
<1>4. x \in Seq(T) /\ y \in Seq(T)
    BY <1>1, <1>3, MappedSeq
<1>5. Without(y, id) = Only(y, S) /\ Without(x, id) = Only(x, S)
    BY <1>2, <1>4, WithoutIs
<1>6. \A t \in T : f[t] \in S <=> t \in S
    BY <1>1, <1>2
<1>7. Only(y, S) = Mapped(Only(x, S), f)
    BY <1>3, <1>4, <1>6, OnlyOfMapped
<1>8. PICK z : z = Only(x, S)
    OBVIOUS
<1>9. z \in Seq(T \cap S)
    BY <1>4, <1>8, OnlyKept
<1>10. \A i \in DOMAIN z : z[i] \in T \cap S
    BY <1>9, ElementOfSeq, LenProperties
<1>11. \A i \in DOMAIN z : f[z[i]] = z[i]
    BY <1>1, <1>2, <1>10
<1>12. Mapped(z, f) = [i \in DOMAIN z |-> z[i]]
    BY <1>11 DEF Mapped
<1>13. z = [i \in DOMAIN z |-> z[i]]
    BY <1>9, LenProperties
<1> QED
    BY <1>3, <1>5, <1>7, <1>8, <1>12, <1>13

LEMMA BoxToIs ==
    ASSUME NEW a \in Points, NEW p \in Points
    PROVE  LET g == BoxTo(a, p)
           IN g \in Boxes /\ g.x \in Int /\ g.y \in Int /\ g.w \in Int /\ g.h \in Int /\ g.w >= 0 /\ g.h >= 0
<1>1. a.x \in Int /\ a.y \in Int /\ p.x \in Int /\ p.y \in Int
    BY PointsAre
<1>2. \A v \in Int : Abs(v) \in Int
    <2> SUFFICES ASSUME NEW v \in Int PROVE Abs(v) \in Int
        OBVIOUS
    <2>1. PICK u \in Int : u = -v
        OBVIOUS
    <2>2. Max({v, u}) \in Int
        BY MaxIs
    <2> QED
        BY <2>1, <2>2 DEF Abs
<1>3. \A v \in Int : Max({Px, v}) \in Int /\ Max({Px, v}) >= 0
    BY MaxIs DEF Px
<1>4. PICK x \in Int : x = Min({a.x, p.x})
    BY <1>1, MinIs
<1>5. PICK y \in Int : y = Min({a.y, p.y})
    BY <1>1, MinIs
<1>6. PICK u \in Int : u = p.x - a.x
    BY <1>1
<1>7. PICK v \in Int : v = p.y - a.y
    BY <1>1
<1>8. PICK w \in Int : w = Max({Px, Abs(u)}) /\ w >= 0
    BY <1>2, <1>3
<1>9. PICK h \in Int : h = Max({Px, Abs(v)}) /\ h >= 0
    BY <1>2, <1>3
<1>10. BoxTo(a, p) = Geom(x, y, w, h)
    BY <1>4, <1>5, <1>6, <1>7, <1>8, <1>9 DEF BoxTo
<1> QED
    BY <1>8, <1>9, <1>10 DEF Geom, Boxes

LEMMA DrawnToIs ==
    ASSUME NEW n, NEW o \in Objects(n), NEW a \in Points, NEW p \in Points
    PROVE  LET q == DrawnTo(o, a, p)
           IN /\ q \in Objects(n) /\ q.id = o.id /\ q.kind = o.kind /\ q.wide = o.wide /\ q.font = o.font
<1>1. DOMAIN o = ObjectFields /\ o = [f \in ObjectFields |-> o[f]]
      /\ Proper(o, n) /\ o.wide \in Int /\ o.opaque \in BOOLEAN
    BY FieldsOfObject
<1>2. a.x \in Int /\ a.y \in Int /\ p.x \in Int /\ p.y \in Int
    BY PointsAre
<1>3. PICK u \in Int : u = p.x - a.x
    BY <1>2
<1>4. PICK v \in Int : v = p.y - a.y
    BY <1>2
<1>5. PICK g : g = BoxTo(a, p)
    OBVIOUS
<1>6. g.x \in Int /\ g.y \in Int /\ g.w \in Int /\ g.h \in Int /\ g.w >= 0 /\ g.h >= 0
    BY <1>5, BoxToIs
<1>7. PICK q : q = DrawnTo(o, a, p)
    OBVIOUS
<1>8. q = IF o.kind = "arrow" THEN [o EXCEPT !.w = u, !.h = v]
          ELSE [o EXCEPT !.x = g.x, !.y = g.y, !.w = g.w, !.h = g.h]
    BY <1>3, <1>4, <1>5, <1>7 DEF DrawnTo, Placed
<1>9. /\ DOMAIN q = ObjectFields /\ q = [f \in ObjectFields |-> q[f]]
      /\ q.id = o.id /\ q.kind = o.kind /\ q.text = o.text /\ q.wide = o.wide /\ q.opaque = o.opaque
      /\ q.font = o.font /\ q.x \in Int /\ q.y \in Int /\ q.w \in Int /\ q.h \in Int
      /\ (o.kind = "rect" => q.w >= 0 /\ q.h >= 0)
    <2>1. o.x \in Int /\ o.y \in Int
        BY <1>1 DEF Proper
    <2>2. CASE o.kind = "arrow"
        BY <1>1, <1>8, <2>1, <2>2 DEF ObjectFields
    <2>3. CASE o.kind # "arrow"
        BY <1>1, <1>6, <1>8, <2>3 DEF ObjectFields
    <2> QED
        BY <2>2, <2>3
<1>10. Proper(q, n)
    BY <1>1, <1>9 DEF Proper, Upright
<1>11. q \in Objects(n)
    BY <1>1, <1>9, <1>10, ObjectIs
<1> QED
    BY <1>7, <1>9, <1>11

\* The press's object follows the pointer; the history knows the rest.
LEMMA DrawingHolds ==
    ASSUME CanvasInv, NEW p \in Points, ed.gesture.kind = "draw",
           ed' = Update(ed, ed.gesture.id, LAMBDA o : DrawnTo(o, ed.gesture.origin, p)), UNCHANGED actions
    PROVE  CanvasInv'
<1>1. PICK n \in Nat : n = actions
    BY CanvasHere
<1>2. PICK r : r = ed
    OBVIOUS
<1>3. /\ CanvasTypes(r, n) /\ Modes(r) /\ View(r) /\ Shown(r) /\ DOMAIN r = CanvasFields
      /\ r.undo # <<>> /\ Tracked(r) /\ r.gesture.kind = "draw"
    BY <1>1, <1>2, CanvasHere
<1>4. PICK a \in Points : a = r.gesture.origin
    BY <1>3, KindOfGesture DEF CanvasTypes
<1>5. PICK id : id = r.gesture.id
    OBVIOUS
<1>6. Holding(r.gesture) = id
    BY <1>3, <1>5 DEF Holding
<1>7. PICK x : x = r.objects
    OBVIOUS
<1>8. x \in Seq(Objects(n)) /\ BlocksFirst(x)
    BY <1>3, <1>7 DEF CanvasTypes, Shown
<1>9. PICK f : f = [o \in Objects(n) |-> IF o.id = id THEN DrawnTo(o, a, p) ELSE o]
    OBVIOUS
<1>10. \A o \in Objects(n) :
         /\ f[o] = (IF o.id = id THEN DrawnTo(o, a, p) ELSE o) /\ f[o] \in Objects(n)
         /\ f[o].id = o.id /\ f[o].kind = o.kind /\ f[o].wide = o.wide /\ f[o].font = o.font
    BY <1>9, DrawnToIs
<1>11. PICK y : y = Mapped(x, f)
    OBVIOUS
<1>12. /\ y \in Seq(Objects(n)) /\ DOMAIN y = DOMAIN x /\ BlocksFirst(y)
       /\ \A i \in DOMAIN x : y[i] = f[x[i]] /\ x[i] \in Objects(n) /\ y[i].id = x[i].id /\ y[i].wide = x[i].wide
    BY <1>8, <1>10, <1>11, ChangedIs
<1>13. PICK q : q = ed'
    OBVIOUS
<1>14. q = [r EXCEPT !.objects = y]
    <2>1. y = [i \in DOMAIN x |-> IF x[i].id = id THEN DrawnTo(x[i], a, p) ELSE x[i]]
        BY <1>10, <1>11, <1>12 DEF Mapped
    <2> QED
        BY <1>2, <1>4, <1>5, <1>7, <1>13, <2>1, CanvasHere DEF Update, CanvasFields
<1>15. /\ DOMAIN q = CanvasFields /\ q.objects = y /\ q.crop = r.crop /\ q.wide = r.wide
       /\ q.view = r.view /\ q.tool = r.tool /\ q.frame = r.frame /\ q.gesture = r.gesture
       /\ q.typing = r.typing /\ q.undo = r.undo /\ q.redo = r.redo /\ q.stray = r.stray /\ q.torn = r.torn
    BY <1>3, <1>14 DEF CanvasFields
<1>16. CanvasTypes(q, n)
    BY <1>3, <1>12, <1>15 DEF CanvasTypes
<1>17. r.typing = 0
    BY <1>3, NothingHeld DEF Modes
<1>18. Modes(q) /\ View(q)
    BY <1>3, <1>15, <1>17 DEF Modes, View
<1>19. Shown(q)
    <2> SUFFICES ASSUME NEW i \in DOMAIN y
                 PROVE  /\ y[i].wide = q.wide
                        /\ y[i].id # Holding(q.gesture) => Calm(y[i])
                        /\ y[i].kind = "text" => Sound(y[i])
        BY <1>12, <1>15 DEF Shown
    <2>1. PICK o \in Objects(n) : o = x[i]
        BY <1>12
    <2>2. o.wide = r.wide /\ (o.id # id => Calm(o)) /\ (o.kind = "text" => Sound(o))
        BY <1>3, <1>6, <1>7, <1>12, <2>1 DEF Shown
    <2>3. y[i] = f[o] /\ f[o].kind = o.kind /\ f[o].font = o.font /\ f[o].id = o.id
        BY <1>10, <1>12, <2>1
    <2>4. y[i].id # id => Calm(y[i])
        BY <1>10, <2>2, <2>3
    <2>5. y[i].kind = "text" => Sound(y[i])
        BY <2>2, <2>3 DEF Sound
    <2> QED
        BY <1>6, <1>12, <1>15, <2>1, <2>2, <2>4, <2>5
<1>20. PICK z : z = Without(y, id)
    OBVIOUS
<1>21. z = Without(x, id)
    BY <1>8, <1>10, <1>11, <1>20, ChangedWithout
<1>22. Tracked(q)
    <2>1. PICK c : c = [q EXCEPT !.objects = z]
        OBVIOUS
    <2>2. PICK d : d = [r EXCEPT !.objects = z]
        OBVIOUS
    <2>3. c.objects = z /\ c.crop = r.crop /\ d.objects = z /\ d.crop = r.crop
        BY <1>3, <1>15, <2>1, <2>2 DEF CanvasFields
    <2>4. Document(c) = Document(d)
        BY <2>3, DocumentOf
    <2>5. ~r.torn => Document(d) = r.undo[Len(r.undo)]
        BY <1>3, <1>5, <1>7, <1>17, <1>21, <2>2 DEF Tracked
    <2>6. ~r.torn => Document(c) = r.undo[Len(r.undo)]
        BY <2>4, <2>5
    <2>7. CASE id # 0
        <3>1. Holding(q.gesture) # 0
            BY <1>6, <1>15, <2>7
        <3>2. c = [q EXCEPT !.objects = Without(q.objects, q.gesture.id)]
            BY <1>5, <1>15, <1>20, <2>1
        <3> QED
            BY <1>15, <2>6, <3>1, <3>2 DEF Tracked
    <2>8. CASE id = 0
        <3>1. Holding(q.gesture) = 0
            BY <1>6, <1>15, <2>8
        <3>2. \A i \in DOMAIN y : y[i].id # 0
            BY <1>12, ObjectsOf
        <3>3. z = y
            BY <1>12, <1>20, <2>8, <3>2, WithoutNobody
        <3>4. Document(q) = Document(c)
            BY <1>15, <2>3, <3>3, DocumentOf
        <3> QED
            BY <1>12, <1>15, <2>6, <3>1, <3>4, KnownByTheTop
    <2> QED
        BY <2>7, <2>8
<1>23. actions' = n /\ q.undo # <<>>
    BY <1>1, <1>3, <1>15
<1> QED
    BY <1>13, <1>16, <1>18, <1>19, <1>22, <1>23 DEF CanvasInv, CanvasHolds, CanvasStands

LEMMA StandingStillHolds == ASSUME CanvasInv, UNCHANGED canvasVars PROVE CanvasInv'
BY DEF canvasVars, CanvasInv, CanvasHolds, CanvasStands, CanvasTypes, Modes, View, Shown, Tracked

LEMMA MouseMoveHolds == ASSUME CanvasInv, NEW p \in Points, MouseMove(p) PROVE CanvasInv'
<1>1. CASE ed.gesture.kind = "draw"
    <2>1. ed' = Update(ed, ed.gesture.id, LAMBDA o : DrawnTo(o, ed.gesture.origin, p)) /\ UNCHANGED actions
        BY <1>1 DEF MouseMove, Uncounted
    <2> QED
        BY <1>1, <2>1, DrawingHolds
<1>2. CASE ed.gesture.kind = "frame" /\ ed.frame # NoFrame
    <2>1. PICK a \in Points : a = ed.gesture.origin
        BY <1>2, CanvasHere, KindOfGesture DEF CanvasTypes
    <2>2. PICK f : f = BoxTo(a, p)
        OBVIOUS
    <2>3. f \in Boxes
        BY <2>2, BoxToIs
    <2>4. PICK g \in GestureTypes : g = ed.gesture
        BY CanvasHere DEF CanvasTypes
    <2>5. ed' = [ed EXCEPT !.frame = f] /\ UNCHANGED actions
        BY <1>2, <2>1, <2>2 DEF MouseMove, Uncounted
    <2>6. ed' = [ed EXCEPT !.frame = f, !.gesture = g]
        <3>1. DOMAIN ed = CanvasFields
            BY CanvasHere
        <3> QED
            BY <2>4, <2>5, <3>1 DEF CanvasFields
    <2>7. ed.tool = "crop"
        BY <1>2, CanvasHere DEF Modes
    <2> QED
        BY <1>2, <2>3, <2>4, <2>5, <2>6, <2>7, FramingHolds
<1>3. CASE ed.gesture.kind # "draw" /\ ~(ed.gesture.kind = "frame" /\ ed.frame # NoFrame)
    <2>1. ed' = ed /\ UNCHANGED actions
        BY <1>3 DEF MouseMove, Uncounted
    <2> QED
        BY <2>1, StandingStillHolds DEF canvasVars
<1> QED
    BY <1>1, <1>2, <1>3
SettledOne(o) == IF o.kind = "redact" THEN Settle(o) ELSE o

LEMMA SettledOneIs ==
    ASSUME NEW n, NEW o \in Objects(n)
    PROVE  LET q == SettledOne(o)
           IN /\ q \in Objects(n) /\ q.id = o.id /\ q.kind = o.kind /\ q.wide = o.wide
              /\ ShapeOf(q) = ShapeOf(o)
              /\ o.kind = "redact" \/ Calm(o) \/ Sound(o) => Calm(q)
BY SettleIs DEF SettledOne, Calm

LEMMA SettleRedactionsIs ==
    ASSUME NEW n, NEW r, CanvasTypes(r, n), Modes(r), View(r), Shown(r)
    PROVE  LET q == SettleRedactions(r)
           IN /\ CanvasTypes(q, n) /\ Modes(q) /\ View(q) /\ BlocksFirst(q.objects)
              /\ DOMAIN q = CanvasFields /\ q.gesture = NoGesture
              /\ q.crop = r.crop /\ q.wide = r.wide /\ q.tool = r.tool /\ q.frame = r.frame
              /\ q.typing = r.typing /\ q.undo = r.undo /\ q.torn = r.torn /\ q.stray = r.stray
              /\ q.redo = r.redo /\ q.view = r.view
              /\ q.objects = Mapped(r.objects, [o \in Objects(n) |-> SettledOne(o)])
              /\ DOMAIN q.objects = DOMAIN r.objects
              /\ \A i \in DOMAIN r.objects : /\ r.objects[i] \in Objects(n)
                                             /\ q.objects[i] = SettledOne(r.objects[i])
              /\ Document(q) = Document(r)
<1>1. PICK x : x = r.objects
    OBVIOUS
<1>2. x \in Seq(Objects(n)) /\ BlocksFirst(x) /\ DOMAIN r = CanvasFields
    BY <1>1 DEF CanvasTypes, Shown
<1>3. PICK f : f = [o \in Objects(n) |-> SettledOne(o)]
    OBVIOUS
<1>4. \A o \in Objects(n) : /\ f[o] = SettledOne(o) /\ f[o] \in Objects(n) /\ f[o].id = o.id /\ f[o].kind = o.kind
                            /\ f[o].wide = o.wide /\ ShapeOf(f[o]) = ShapeOf(o)
    BY <1>3, SettledOneIs
<1>5. PICK y : y = Mapped(x, f)
    OBVIOUS
<1>6. /\ y \in Seq(Objects(n)) /\ DOMAIN y = DOMAIN x /\ BlocksFirst(y)
      /\ \A i \in DOMAIN x : y[i] = f[x[i]] /\ x[i] \in Objects(n) /\ y[i].id = x[i].id
    BY <1>2, <1>4, <1>5, ChangedIs
<1>7. PICK q : q = SettleRedactions(r)
    OBVIOUS
<1>8. q = [r EXCEPT !.gesture = NoGesture, !.objects = y]
    <2>1. y = [i \in DOMAIN x |-> IF x[i].kind = "redact" THEN Settle(x[i]) ELSE x[i]]
        BY <1>4, <1>5, <1>6 DEF Mapped, SettledOne
    <2> QED
        BY <1>1, <1>2, <1>7, <2>1 DEF SettleRedactions, CanvasFields
<1>9. /\ DOMAIN q = CanvasFields /\ q.objects = y /\ q.crop = r.crop /\ q.wide = r.wide
      /\ q.view = r.view /\ q.tool = r.tool /\ q.frame = r.frame /\ q.gesture = NoGesture
      /\ q.typing = r.typing /\ q.undo = r.undo /\ q.redo = r.redo /\ q.stray = r.stray /\ q.torn = r.torn
    BY <1>2, <1>8 DEF CanvasFields
<1>10. CanvasTypes(q, n)
    BY <1>2, <1>6, <1>9, NothingHeld DEF CanvasTypes
<1>11. Modes(q)
    <2>1. r.typing # 0 => \E i \in DOMAIN y : y[i].id = r.typing
        BY <1>1, <1>6 DEF Modes
    <2> QED
        BY <1>9, <2>1, NothingHeld DEF Modes
<1>12. View(q)
    BY <1>9 DEF View
<1>13. Document(q) = Document(r)
    BY <1>1, <1>4, <1>6, <1>9, SameDocument
<1> QED
    BY <1>1, <1>3, <1>4, <1>5, <1>6, <1>7, <1>9, <1>10, <1>11, <1>12, <1>13

\* Filtered alike, two canvases of the same shapes have the same document.
LEMMA SettledWithout ==
    ASSUME NEW n, NEW x \in Seq(Objects(n)), NEW y, y = Mapped(x, [o \in Objects(n) |-> SettledOne(o)]), NEW id
    PROVE  /\ DOMAIN Without(y, id) = DOMAIN Without(x, id)
           /\ \A i \in DOMAIN Without(x, id) : ShapeOf(Without(y, id)[i]) = ShapeOf(Without(x, id)[i])
<1>1. PICK T : T = Objects(n)
    OBVIOUS
<1>2. PICK S : S = {t \in T : t.id # id}
    OBVIOUS
<1>3. PICK f : f = [o \in T |-> SettledOne(o)]
    OBVIOUS
<1>4. \A t \in T : f[t] \in T /\ f[t].id = t.id /\ ShapeOf(f[t]) = ShapeOf(t)
    BY <1>1, <1>3, SettledOneIs
<1>5. x \in Seq(T) /\ y = Mapped(x, f)
    BY <1>1, <1>3
<1>6. y \in Seq(T)
    BY <1>4, <1>5, MappedSeq
<1>7. Without(y, id) = Only(y, S) /\ Without(x, id) = Only(x, S)
    BY <1>2, <1>5, <1>6, WithoutIs
<1>8. \A t \in T : f[t] \in S <=> t \in S
    BY <1>2, <1>4
<1>9. PICK z : z = Only(x, S)
    OBVIOUS
<1>10. Only(y, S) = Mapped(z, f)
    BY <1>5, <1>8, <1>9, OnlyOfMapped
<1>11. z \in Seq(T)
    BY <1>5, <1>9, OnlySeq
<1>12. DOMAIN Mapped(z, f) = DOMAIN z /\ \A i \in DOMAIN z : z[i] \in T /\ Mapped(z, f)[i] = f[z[i]]
    BY <1>11, MappedIs
<1> QED
    BY <1>4, <1>7, <1>9, <1>10, <1>12

LEMMA CommittingHolds ==
    ASSUME NEW n \in Nat, NEW r, CanvasStands(r, n), r.undo # <<>>, r.gesture.kind # "draw",
           ed' = Commit(r), actions' = n
    PROVE  CanvasInv'
BY CommitHolds DEF CanvasInv

LEMMA DrawEndsHolds == ASSUME CanvasInv, DrawEnds, UNCHANGED actions PROVE CanvasInv'
<1>1. PICK n \in Nat : n = actions
    BY CanvasHere
<1>2. PICK r : r = ed
    OBVIOUS
<1>3. /\ CanvasTypes(r, n) /\ Modes(r) /\ View(r) /\ Shown(r) /\ DOMAIN r = CanvasFields
      /\ r.undo # <<>> /\ Tracked(r) /\ r.gesture.kind = "draw"
    BY <1>1, <1>2, CanvasHere DEF DrawEnds
<1>4. PICK id : id = r.gesture.id
    OBVIOUS
<1>5. Holding(r.gesture) = id
    BY <1>3, <1>4 DEF Holding
<1>6. r.typing = 0
    BY <1>3, NothingHeld DEF Modes
<1>7. PICK x : x = r.objects
    OBVIOUS
<1>8. PICK s : s = SettleRedactions(r)
    OBVIOUS
<1>9. /\ CanvasTypes(s, n) /\ Modes(s) /\ View(s) /\ BlocksFirst(s.objects) /\ DOMAIN s = CanvasFields
      /\ s.gesture = NoGesture /\ s.crop = r.crop /\ s.wide = r.wide /\ s.typing = r.typing
      /\ s.undo = r.undo /\ s.torn = r.torn
      /\ s.objects = Mapped(r.objects, [o \in Objects(n) |-> SettledOne(o)])
      /\ DOMAIN s.objects = DOMAIN r.objects
      /\ \A i \in DOMAIN r.objects : r.objects[i] \in Objects(n) /\ s.objects[i] = SettledOne(r.objects[i])
      /\ Document(s) = Document(r)
    BY <1>3, <1>8, SettleRedactionsIs
<1>10. \A i \in DOMAIN s.objects : s.objects[i].wide = s.wide /\ Calm(s.objects[i])
    <2> SUFFICES ASSUME NEW i \in DOMAIN r.objects
                 PROVE  s.objects[i].wide = s.wide /\ Calm(s.objects[i])
        BY <1>9
    <2>1. PICK o \in Objects(n) : o = r.objects[i]
        BY <1>9
    <2>2. o.wide = r.wide /\ (o.kind = "text" => Sound(o))
        BY <1>3, <2>1 DEF Shown
    <2>3. o.kind = "redact" \/ Sound(o)
        BY <2>2 DEF Sound
    <2> QED
        BY <1>9, <2>1, <2>2, <2>3, SettledOneIs
<1>11. CanvasStands(s, n) /\ s.undo # <<>> /\ s.gesture.kind # "draw"
    BY <1>3, <1>9, <1>10, CalmIsShown, NothingHeld DEF CanvasStands
<1>12. PICK t : t = SetTool(s, "select")
    OBVIOUS
<1>13. /\ CanvasStands(t, n) /\ t.undo # <<>> /\ (Tracked(s) => Tracked(t))
       /\ t.torn = r.torn /\ t.gesture = NoGesture /\ t.crop = r.crop /\ t.typing = 0
       /\ t.objects = s.objects /\ t.undo = r.undo
    BY <1>6, <1>9, <1>11, <1>12, SetToolIs DEF Tools
<1>14. CanvasTypes(t, n) /\ Modes(t) /\ View(t) /\ Shown(t) /\ DOMAIN t = CanvasFields
    BY <1>13 DEF CanvasStands, CanvasTypes
<1>15. t.gesture.kind # "draw" /\ Holding(t.gesture) = 0
    BY <1>13, NothingHeld
<1>16. CASE id = 0 /\ ed' = t
    <2>1. Document(t) = Document(r)
        BY <1>9, <1>13, DocumentOf
    <2>2. ~r.torn => Document(r) = r.undo[Len(r.undo)]
        BY <1>3, <1>5, <1>6, <1>16 DEF Tracked
    <2>3. t.objects \in Seq(Objects(n))
        BY <1>14 DEF CanvasTypes
    <2>4. Tracked(t)
        BY <1>13, <1>14, <1>15, <2>1, <2>2, <2>3, KnownByTheTop
    <2> QED
        BY <1>1, <1>13, <1>16, <2>4 DEF CanvasInv, CanvasHolds
<1>17. CASE ed' = Commit(t)
    BY <1>1, <1>13, <1>15, <1>17, CommittingHolds
<1>18. CASE ed' = [t EXCEPT !.objects = Without(t.objects, id)]
    <2>1. PICK y : y = t.objects
        OBVIOUS
    <2>2. y \in Seq(Objects(n)) /\ BlocksFirst(y) /\ \A i \in DOMAIN y : y[i].wide = t.wide /\ Calm(y[i])
        BY <1>14, <1>15, <2>1, ShownIsCalm DEF CanvasTypes
    <2>3. PICK z : z = Without(y, id)
        OBVIOUS
    <2>4. z \in Seq(Objects(n)) /\ BlocksFirst(z) /\ \A i \in DOMAIN z : z[i].wide = t.wide /\ Calm(z[i])
        BY <2>2, <2>3, WithoutStands
    <2>5. PICK q : q = ed'
        OBVIOUS
    <2>6. /\ DOMAIN q = CanvasFields /\ q.objects = z /\ q.crop = t.crop /\ q.wide = t.wide
          /\ q.view = t.view /\ q.tool = t.tool /\ q.frame = t.frame /\ q.gesture = t.gesture
          /\ q.typing = t.typing /\ q.undo = t.undo /\ q.redo = t.redo /\ q.stray = t.stray /\ q.torn = t.torn
        BY <1>14, <1>18, <2>1, <2>3, <2>5 DEF CanvasFields
    <2>7. CanvasTypes(q, n)
        BY <1>14, <2>4, <2>6 DEF CanvasTypes
    <2>8. Modes(q) /\ View(q) /\ Shown(q)
        BY <1>13, <1>14, <2>4, <2>6, CalmIsShown DEF Modes, View
    <2>9. PICK w : w = Without(x, id)
        OBVIOUS
    <2>10. DOMAIN z = DOMAIN w /\ \A i \in DOMAIN w : ShapeOf(z[i]) = ShapeOf(w[i])
        <3>1. x \in Seq(Objects(n)) /\ y = Mapped(x, [o \in Objects(n) |-> SettledOne(o)])
            BY <1>3, <1>7, <1>9, <1>13, <2>1 DEF CanvasTypes
        <3> QED
            BY <2>3, <2>9, <3>1, SettledWithout
    <2>11. PICK d : d = [r EXCEPT !.objects = w]
        OBVIOUS
    <2>12. d.objects = w /\ d.crop = r.crop
        BY <1>3, <2>11 DEF CanvasFields
    <2>13. Document(q) = Document(d)
        BY <1>13, <2>6, <2>10, <2>12, SameDocument
    <2>14. ~r.torn => Document(d) = r.undo[Len(r.undo)]
        BY <1>3, <1>4, <1>6, <1>7, <2>9, <2>11 DEF Tracked
    <2>15. Tracked(q)
        BY <1>13, <1>15, <2>4, <2>6, <2>13, <2>14, KnownByTheTop
    <2> QED
        BY <1>1, <1>13, <2>5, <2>6, <2>7, <2>8, <2>15 DEF CanvasInv, CanvasHolds, CanvasStands
<1> QED
    BY <1>2, <1>4, <1>8, <1>12, <1>14, <1>16, <1>17, <1>18 DEF DrawEnds, CanvasFields

LEMMA NormalizeScalingIs ==
    ASSUME NEW n, NEW o \in Objects(n)
    PROVE  LET q == NormalizeScaling(o)
           IN q \in Objects(n) /\ q.id = o.id /\ q.kind = o.kind /\ q.wide = o.wide /\ Calm(q)
<1>1. DOMAIN o = ObjectFields /\ o = [f \in ObjectFields |-> o[f]]
      /\ Proper(o, n) /\ o.wide \in Int /\ o.opaque \in BOOLEAN
    BY FieldsOfObject
<1>2. PICK q : q = NormalizeScaling(o)
    OBVIOUS
<1>3. CASE o.kind = "redact"
    BY <1>3, SettleIs DEF NormalizeScaling
<1>4. CASE o.kind = "rect"
    <2>1. \A v \in Int : Max({Px, v}) \in Int /\ Max({Px, v}) >= 0
        BY MaxIs DEF Px
    <2>2. o.w \in Int /\ o.h \in Int
        BY <1>1 DEF Proper
    <2>3. PICK w \in Int : w = Max({Px, o.w}) /\ w >= 0
        BY <2>1, <2>2
    <2>4. PICK h \in Int : h = Max({Px, o.h}) /\ h >= 0
        BY <2>1, <2>2
    <2>5. q = [o EXCEPT !.w = w, !.h = h]
        BY <1>1, <1>2, <1>4, <2>3, <2>4 DEF NormalizeScaling, ObjectFields
    <2>6. /\ DOMAIN q = ObjectFields /\ q = [f \in ObjectFields |-> q[f]]
          /\ q.id = o.id /\ q.kind = o.kind /\ q.text = o.text /\ q.wide = o.wide /\ q.opaque = o.opaque
          /\ q.font = o.font /\ q.x = o.x /\ q.y = o.y /\ q.w = w /\ q.h = h
        BY <1>1, <2>5 DEF ObjectFields
    <2>7. Proper(q, n)
        BY <1>1, <2>3, <2>4, <2>6 DEF Proper, Upright
    <2>8. q \in Objects(n)
        BY <1>1, <2>6, <2>7, ObjectIs
    <2>9. Calm(q)
        BY <1>4, <2>6 DEF Calm, Sound
    <2> QED
        BY <1>2, <2>6, <2>8, <2>9
<1>5. CASE o.kind = "text"
    <2>1. o.font \in Int /\ MinFont \in Int /\ MaxFont \in Int
        BY <1>1, AnnotationAssumption DEF Proper
    <2>2. PICK v : v = ClampFont(o.font) /\ v \in MinFont..MaxFont
        BY <2>1, FontIs
    <2>3. q = [o EXCEPT !.font = v]
        BY <1>1, <1>2, <1>5, <2>2 DEF NormalizeScaling, ObjectFields
    <2>4. /\ DOMAIN q = ObjectFields /\ q = [f \in ObjectFields |-> q[f]]
          /\ q.id = o.id /\ q.kind = o.kind /\ q.text = o.text /\ q.wide = o.wide /\ q.opaque = o.opaque
          /\ q.font = v /\ q.x = o.x /\ q.y = o.y /\ q.w = o.w /\ q.h = o.h
        BY <1>1, <2>3 DEF ObjectFields
    <2>5. Proper(q, n)
        BY <1>1, <1>5, <2>1, <2>2, <2>4 DEF Proper, Upright
    <2>6. q \in Objects(n)
        BY <1>1, <2>4, <2>5, ObjectIs
    <2>7. Calm(q)
        BY <1>5, <2>2, <2>4 DEF Calm, Sound
    <2> QED
        BY <1>2, <2>4, <2>6, <2>7
<1>6. CASE o.kind = "arrow"
    BY <1>6 DEF NormalizeScaling, Calm, Sound
<1> QED
    BY <1>1, <1>3, <1>4, <1>5, <1>6 DEF Proper, Kinds

LEMMA DragEndsHolds == ASSUME CanvasInv, DragEnds, UNCHANGED actions PROVE CanvasInv'
<1>1. PICK n \in Nat : n = actions
    BY CanvasHere
<1>2. PICK r : r = ed
    OBVIOUS
<1>3. /\ CanvasTypes(r, n) /\ Modes(r) /\ View(r) /\ Shown(r) /\ DOMAIN r = CanvasFields
      /\ r.undo # <<>> /\ r.gesture.kind = "drag"
    BY <1>1, <1>2, CanvasHere DEF DragEnds
<1>4. PICK id : id = r.gesture.id
    OBVIOUS
<1>5. Holding(r.gesture) = id
    BY <1>3, <1>4 DEF Holding
<1>6. PICK s : s = SettleRedactions(r)
    OBVIOUS
<1>7. /\ CanvasTypes(s, n) /\ Modes(s) /\ View(s) /\ BlocksFirst(s.objects) /\ DOMAIN s = CanvasFields
      /\ s.gesture = NoGesture /\ s.wide = r.wide /\ s.undo = r.undo
      /\ DOMAIN s.objects = DOMAIN r.objects
      /\ \A i \in DOMAIN r.objects : r.objects[i] \in Objects(n) /\ s.objects[i] = SettledOne(r.objects[i])
    BY <1>3, <1>6, SettleRedactionsIs
<1>8. PICK x : x = s.objects
    OBVIOUS
<1>9. x \in Seq(Objects(n)) /\ BlocksFirst(x) /\ DOMAIN x = DOMAIN r.objects
      /\ \A i \in DOMAIN x : x[i].wide = s.wide /\ (x[i].id # id => Calm(x[i]))
    <2>1. x \in Seq(Objects(n)) /\ BlocksFirst(x) /\ DOMAIN x = DOMAIN r.objects
        BY <1>7, <1>8 DEF CanvasTypes
    <2> SUFFICES ASSUME NEW i \in DOMAIN r.objects PROVE x[i].wide = s.wide /\ (x[i].id # id => Calm(x[i]))
        BY <2>1
    <2>2. PICK o \in Objects(n) : o = r.objects[i]
        BY <1>7
    <2>3. o.wide = r.wide /\ (o.id # id => Calm(o))
        BY <1>3, <1>5, <2>2 DEF Shown
    <2> QED
        BY <1>7, <1>8, <2>2, <2>3, SettledOneIs
<1>10. PICK f : f = [o \in Objects(n) |-> IF o.id = id THEN NormalizeScaling(o) ELSE o]
    OBVIOUS
<1>11. \A o \in Objects(n) :
         /\ f[o] = (IF o.id = id THEN NormalizeScaling(o) ELSE o) /\ f[o] \in Objects(n)
         /\ f[o].id = o.id /\ f[o].kind = o.kind /\ f[o].wide = o.wide
         /\ (o.id = id \/ Calm(o) => Calm(f[o]))
    BY <1>10, NormalizeScalingIs
<1>12. PICK y : y = Mapped(x, f)
    OBVIOUS
<1>13. /\ y \in Seq(Objects(n)) /\ DOMAIN y = DOMAIN x /\ BlocksFirst(y)
       /\ \A i \in DOMAIN x : y[i] = f[x[i]] /\ x[i] \in Objects(n) /\ y[i].id = x[i].id /\ y[i].wide = x[i].wide
    BY <1>9, <1>11, <1>12, ChangedIs
<1>14. PICK u : u = Update(s, id, NormalizeScaling)
    OBVIOUS
<1>15. u = [s EXCEPT !.objects = y]
    <2>1. y = [i \in DOMAIN x |-> IF x[i].id = id THEN NormalizeScaling(x[i]) ELSE x[i]]
        BY <1>11, <1>12, <1>13 DEF Mapped
    <2> QED
        BY <1>7, <1>8, <1>14, <2>1 DEF Update, CanvasFields
<1>16. /\ DOMAIN u = CanvasFields /\ u.objects = y /\ u.crop = s.crop /\ u.wide = s.wide
       /\ u.view = s.view /\ u.tool = s.tool /\ u.frame = s.frame /\ u.gesture = s.gesture
       /\ u.typing = s.typing /\ u.undo = s.undo /\ u.redo = s.redo /\ u.stray = s.stray /\ u.torn = s.torn
    BY <1>7, <1>15 DEF CanvasFields
<1>17. CanvasTypes(u, n)
    BY <1>7, <1>13, <1>16 DEF CanvasTypes
<1>18. Modes(u)
    <2>1. s.typing # 0 => \E i \in DOMAIN y : y[i].id = s.typing
        BY <1>7, <1>8, <1>13 DEF Modes
    <2> QED
        BY <1>7, <1>16, <2>1 DEF Modes
<1>19. \A i \in DOMAIN y : y[i].wide = u.wide /\ Calm(y[i])
    BY <1>9, <1>11, <1>13, <1>16
<1>20. View(u) /\ Shown(u)
    BY <1>7, <1>13, <1>16, <1>19, CalmIsShown DEF View
<1>21. CanvasStands(u, n) /\ u.undo # <<>> /\ u.gesture.kind # "draw"
    BY <1>3, <1>7, <1>16, <1>17, <1>18, <1>20, NothingHeld DEF CanvasStands
<1>22. ed' = Commit(u) /\ actions' = n
    BY <1>1, <1>2, <1>4, <1>6, <1>14 DEF DragEnds
<1> QED
    BY <1>21, <1>22, CommittingHolds

LEMMA MouseUpHolds == ASSUME CanvasInv, MouseUp PROVE CanvasInv'
BY FrameEndsHolds, DrawEndsHolds, DragEndsHolds DEF MouseUp, Uncounted
LEMMA StartTypingHolds == ASSUME CanvasInv, StartTyping PROVE CanvasInv'
<1>1. PICK n \in Nat : n = actions
    BY CanvasHere
<1>2. PICK r : r = ed
    OBVIOUS
<1>3. /\ CanvasTypes(r, n) /\ Modes(r) /\ View(r) /\ Shown(r) /\ DOMAIN r = CanvasFields
      /\ r.undo # <<>> /\ r.gesture.kind = "none" /\ r.tool = "select"
    BY <1>1, <1>2, CanvasHere DEF StartTyping, Idle
<1>4. PICK i \in DOMAIN r.objects : ed' = [ed EXCEPT !.typing = r.objects[i].id]
    BY <1>2 DEF StartTyping
<1>5. PICK id : id = r.objects[i].id
    OBVIOUS
<1>6. id # 0
    BY <1>3, <1>5, ObjectsOf DEF CanvasTypes
<1>7. PICK q : q = ed'
    OBVIOUS
<1>8. /\ DOMAIN q = CanvasFields /\ q.objects = r.objects /\ q.crop = r.crop /\ q.wide = r.wide
      /\ q.view = r.view /\ q.tool = r.tool /\ q.frame = r.frame /\ q.gesture = r.gesture
      /\ q.typing = id /\ q.undo = r.undo /\ q.redo = r.redo /\ q.stray = r.stray /\ q.torn = r.torn
    BY <1>2, <1>3, <1>4, <1>5, <1>7 DEF CanvasFields
<1>9. CanvasTypes(q, n)
    BY <1>3, <1>8 DEF CanvasTypes
<1>10. r.gesture = NoGesture
    BY <1>3, KindOfGesture DEF CanvasTypes
<1>11. Modes(q) /\ View(q) /\ Shown(q)
    <2>1. \E j \in DOMAIN q.objects : q.objects[j].id = q.typing
        BY <1>5, <1>8
    <2> QED
        BY <1>3, <1>8, <1>10, <2>1, ShownElsewhere DEF Modes, View
<1>12. Tracked(q)
    BY <1>6, <1>8 DEF Tracked
<1>13. CanvasStands(q, n + 1) /\ actions' = n + 1
    BY <1>1, <1>9, <1>11, HoldsGrows DEF CanvasStands, StartTyping, Counted
<1> QED
    BY <1>3, <1>7, <1>8, <1>12, <1>13 DEF CanvasInv, CanvasHolds

LEMMA TypeTextHolds == ASSUME CanvasInv, NEW text \in Texts \cup {Blank}, TypeText(text) PROVE CanvasInv'
<1>1. PICK n \in Nat : n = actions
    BY CanvasHere
<1>2. PICK r : r = ed
    OBVIOUS
<1>3. /\ CanvasTypes(r, n) /\ Modes(r) /\ View(r) /\ Shown(r) /\ DOMAIN r = CanvasFields
      /\ r.undo # <<>> /\ r.typing # 0
    BY <1>1, <1>2, CanvasHere DEF TypeText
<1>4. PICK id : id = r.typing
    OBVIOUS
<1>5. PICK x : x = r.objects
    OBVIOUS
<1>6. r.gesture = NoGesture /\ Holding(r.gesture) = 0
    BY <1>3, NothingHeld DEF Modes
<1>7. x \in Seq(Objects(n)) /\ BlocksFirst(x) /\ \A i \in DOMAIN x : x[i].wide = r.wide /\ Calm(x[i])
    BY <1>3, <1>5, <1>6, ShownIsCalm DEF CanvasTypes
<1>8. PICK f : f = [o \in Objects(n) |-> IF o.id = id THEN [o EXCEPT !.text = text] ELSE o]
    OBVIOUS
<1>9. \A o \in Objects(n) :
        /\ [o EXCEPT !.text = text] \in Objects(n)
        /\ f[o] = (IF o.id = id THEN [o EXCEPT !.text = text] ELSE o)
        /\ f[o] \in Objects(n) /\ f[o].id = o.id /\ f[o].kind = o.kind /\ f[o].wide = o.wide
        /\ (Calm(o) => Calm(f[o]))
    <2> SUFFICES ASSUME NEW o \in Objects(n)
                 PROVE  /\ [o EXCEPT !.text = text] \in Objects(n)
                        /\ f[o] = (IF o.id = id THEN [o EXCEPT !.text = text] ELSE o)
                        /\ f[o] \in Objects(n) /\ f[o].id = o.id /\ f[o].kind = o.kind /\ f[o].wide = o.wide
                        /\ (Calm(o) => Calm(f[o]))
        OBVIOUS
    <2>1. DOMAIN o = ObjectFields /\ o = [g \in ObjectFields |-> o[g]]
          /\ Proper(o, n) /\ o.wide \in Int /\ o.opaque \in BOOLEAN
        BY FieldsOfObject
    <2>2. PICK q : q = [o EXCEPT !.text = text]
        OBVIOUS
    <2>3. /\ DOMAIN q = ObjectFields /\ q = [g \in ObjectFields |-> q[g]]
          /\ q.id = o.id /\ q.kind = o.kind /\ q.text = text /\ q.wide = o.wide /\ q.opaque = o.opaque
          /\ q.font = o.font /\ q.x = o.x /\ q.y = o.y /\ q.w = o.w /\ q.h = o.h
        BY <2>1, <2>2 DEF ObjectFields
    <2>4. text \in Words
        BY DEF Words
    <2>5. Proper(q, n)
        BY <2>1, <2>3, <2>4 DEF Proper, Upright
    <2>6. q \in Objects(n)
        BY <2>1, <2>3, <2>5, ObjectIs
    <2>7. Calm(o) => Calm(q)
        <3>1. RedactionPixelRect(q) = RedactionPixelRect(o)
            BY <2>3 DEF RedactionPixelRect
        <3> QED
            BY <2>3, <3>1 DEF Calm, Sound
    <2> QED
        BY <1>8, <2>2, <2>3, <2>6, <2>7
<1>10. PICK y : y = Mapped(x, f)
    OBVIOUS
<1>11. /\ y \in Seq(Objects(n)) /\ DOMAIN y = DOMAIN x /\ BlocksFirst(y)
       /\ \A i \in DOMAIN x : y[i] = f[x[i]] /\ x[i] \in Objects(n) /\ y[i].id = x[i].id /\ y[i].wide = x[i].wide
    <2>1. \A o \in Objects(n) : f[o] \in Objects(n) /\ f[o].id = o.id /\ f[o].kind = o.kind /\ f[o].wide = o.wide
        BY <1>9
    <2> QED
        BY <1>7, <1>10, <2>1, ChangedIs
<1>12. PICK q : q = ed'
    OBVIOUS
<1>13. q = [r EXCEPT !.objects = y]
    <2>1. y = [i \in DOMAIN x |-> IF x[i].id = id THEN [x[i] EXCEPT !.text = text] ELSE x[i]]
        BY <1>9, <1>10, <1>11 DEF Mapped
    <2>2. ed' = [ed EXCEPT !.objects = [i \in DOMAIN ed.objects |->
                   IF ed.objects[i].id = ed.typing THEN [ed.objects[i] EXCEPT !.text = text] ELSE ed.objects[i]]]
        BY CanvasHere DEF TypeText, Update, CanvasFields
    <2> QED
        BY <1>2, <1>4, <1>5, <1>12, <2>1, <2>2
<1>14. /\ DOMAIN q = CanvasFields /\ q.objects = y /\ q.crop = r.crop /\ q.wide = r.wide
       /\ q.view = r.view /\ q.tool = r.tool /\ q.frame = r.frame /\ q.gesture = r.gesture
       /\ q.typing = r.typing /\ q.undo = r.undo /\ q.redo = r.redo /\ q.stray = r.stray /\ q.torn = r.torn
    BY <1>3, <1>13 DEF CanvasFields
<1>15. CanvasTypes(q, n)
    BY <1>3, <1>11, <1>14 DEF CanvasTypes
<1>16. Modes(q)
    <2>1. \E i \in DOMAIN y : y[i].id = r.typing
        BY <1>3, <1>5, <1>11 DEF Modes
    <2> QED
        BY <1>3, <1>14, <2>1 DEF Modes
<1>17. \A i \in DOMAIN y : y[i].wide = q.wide /\ Calm(y[i])
    <2> SUFFICES ASSUME NEW i \in DOMAIN x PROVE y[i].wide = q.wide /\ Calm(y[i])
        BY <1>11
    <2>1. PICK o \in Objects(n) : o = x[i]
        BY <1>11
    <2>2. o.wide = r.wide /\ Calm(o) /\ y[i] = f[o]
        BY <1>7, <1>11, <2>1
    <2>3. f[o].wide = o.wide /\ Calm(f[o])
        BY <1>9, <2>2
    <2> QED
        BY <1>14, <2>2, <2>3
<1>18. View(q) /\ Shown(q)
    BY <1>3, <1>11, <1>14, <1>17, CalmIsShown DEF View
<1>19. Tracked(q)
    BY <1>3, <1>14 DEF Tracked
<1>20. actions' = n
    BY <1>1 DEF TypeText, Uncounted
<1> QED
    BY <1>3, <1>12, <1>14, <1>15, <1>16, <1>18, <1>19, <1>20 DEF CanvasInv, CanvasHolds, CanvasStands

LEMMA StopTypingHolds == ASSUME CanvasInv, StopTyping PROVE CanvasInv'
<1>1. PICK n \in Nat : n = actions
    BY CanvasHere
<1>2. PICK r : r = ed
    OBVIOUS
<1>3. PICK q : q = Exits(r)
    OBVIOUS
<1>4. CanvasStands(q, n) /\ q.undo # <<>> /\ Tracked(q)
    BY <1>1, <1>2, <1>3, CanvasHere, ExitsIs
<1>5. ed' = q /\ actions' = n
    BY <1>1, <1>2, <1>3 DEF StopTyping, Uncounted
<1> QED
    BY <1>4, <1>5 DEF CanvasInv, CanvasHolds

LEMMA DeleteSelectionHolds == ASSUME CanvasInv, DeleteSelection PROVE CanvasInv'
<1>1. PICK n \in Nat : n = actions
    BY CanvasHere
<1>2. PICK r : r = ed
    OBVIOUS
<1>3. /\ CanvasTypes(r, n) /\ Modes(r) /\ View(r) /\ Shown(r) /\ DOMAIN r = CanvasFields
      /\ r.undo # <<>> /\ r.tool = "select" /\ r.typing = 0
    BY <1>1, <1>2, CanvasHere DEF DeleteSelection
<1>4. PICK x : x = r.objects
    OBVIOUS
<1>5. PICK i \in DOMAIN x :
        /\ r.gesture.kind = "none" \/ (r.gesture.kind = "drag" /\ r.gesture.id = x[i].id)
        /\ ed' = Commit([ed EXCEPT !.objects = Without(x, x[i].id),
                                   !.gesture = IF r.gesture.kind = "none" THEN r.gesture ELSE [r.gesture EXCEPT !.id = 0]])
    BY <1>2, <1>3, <1>4 DEF DeleteSelection, Idle, CanvasFields
<1>6. PICK id : id = x[i].id
    OBVIOUS
<1>7. x \in Seq(Objects(n)) /\ BlocksFirst(x)
      /\ \A j \in DOMAIN x : x[j].id # 0 /\ x[j].wide = r.wide /\ (x[j].id # Holding(r.gesture) => Calm(x[j]))
    BY <1>3, <1>4, ObjectsOf DEF CanvasTypes, Shown
<1>8. PICK y : y = Without(x, id)
    OBVIOUS
<1>9. y \in Seq(Objects(n)) /\ BlocksFirst(y)
      /\ \A k \in DOMAIN y : \E j \in DOMAIN x : y[k] = x[j] /\ x[j].id # id
    BY <1>7, <1>8, WithoutStands
<1>10. Holding(r.gesture) \in {0, id}
    BY <1>5, <1>6 DEF Holding
<1>11. \A k \in DOMAIN y : y[k].wide = r.wide /\ Calm(y[k])
    BY <1>7, <1>9, <1>10
<1>12. PICK h : h = IF r.gesture.kind = "none" THEN r.gesture ELSE [r.gesture EXCEPT !.id = 0]
    OBVIOUS
<1>13. h \in GestureTypes /\ h.kind = r.gesture.kind /\ Holding(h) = 0
    <2>1. PICK g \in GestureTypes : g = r.gesture
        BY <1>3 DEF CanvasTypes
    <2>2. CASE r.gesture.kind = "none"
        BY <1>12, <2>1, <2>2 DEF Holding
    <2>3. CASE r.gesture.kind = "drag"
        <3>1. "id" \in DOMAIN g
            BY <2>1, <2>3 DEF GestureTypes, NoGesture
        <3> QED
            BY <1>12, <2>1, <2>3, <3>1, LetGo
    <2> QED
        BY <1>5, <2>2, <2>3
<1>14. PICK s : s = [r EXCEPT !.objects = y, !.gesture = h]
    OBVIOUS
<1>15. /\ DOMAIN s = CanvasFields /\ s.objects = y /\ s.crop = r.crop /\ s.wide = r.wide
       /\ s.view = r.view /\ s.tool = r.tool /\ s.frame = r.frame /\ s.gesture = h
       /\ s.typing = r.typing /\ s.undo = r.undo /\ s.redo = r.redo /\ s.stray = r.stray /\ s.torn = r.torn
    BY <1>3, <1>14 DEF CanvasFields
<1>16. CanvasTypes(s, n)
    BY <1>3, <1>9, <1>13, <1>15 DEF CanvasTypes
<1>17. Modes(s) /\ View(s) /\ Shown(s)
    BY <1>3, <1>5, <1>9, <1>11, <1>13, <1>15, CalmIsShown DEF Modes, View
<1>18. PICK m \in Nat : m = n + 1
    OBVIOUS
<1>19. CanvasStands(s, m) /\ s.undo # <<>> /\ s.gesture.kind # "draw"
    BY <1>3, <1>5, <1>13, <1>15, <1>16, <1>17, <1>18, HoldsGrows DEF CanvasStands
<1>20. ed' = Commit(s)
    BY <1>2, <1>5, <1>6, <1>8, <1>12, <1>14
<1>21. actions' = m
    BY <1>1, <1>18 DEF DeleteSelection, Counted
<1> QED
    BY <1>19, <1>20, <1>21, CommittingHolds

-----------------------------------------------------------------------------
(* The history.                                                               *)

\* An undo or a redo starts by leaving crop mode.
LEMMA LeavingIs ==
    ASSUME NEW n, NEW r, CanvasStands(r, n), r.undo # <<>>
    PROVE  LET q == LeavingCrop(Tearing(r))
           IN /\ CanvasStands(q, n) /\ q.undo = r.undo /\ q.redo = r.redo
              /\ q.typing # 0 => q.torn
<1>1. CanvasTypes(r, n) /\ Modes(r) /\ View(r) /\ Shown(r) /\ DOMAIN r = CanvasFields
    BY DEF CanvasStands, CanvasTypes
<1>2. PICK torn : torn = (r.torn \/ r.typing # 0)
    OBVIOUS
<1>3. torn \in BOOLEAN
    BY <1>2
<1>4. PICK t : t = Tearing(r)
    OBVIOUS
<1>5. t = [r EXCEPT !.torn = torn]
    BY <1>1, <1>2, <1>4 DEF Tearing, CanvasFields
<1>6. /\ DOMAIN t = CanvasFields /\ t.objects = r.objects /\ t.crop = r.crop /\ t.wide = r.wide
      /\ t.view = r.view /\ t.tool = r.tool /\ t.frame = r.frame /\ t.gesture = r.gesture
      /\ t.typing = r.typing /\ t.undo = r.undo /\ t.redo = r.redo /\ t.stray = r.stray /\ t.torn = torn
    BY <1>1, <1>5 DEF CanvasFields
<1>7. CanvasTypes(t, n)
    BY <1>1, <1>3, <1>6 DEF CanvasTypes
<1>8. Modes(t) /\ View(t)
    BY <1>1, <1>6 DEF Modes, View
<1>9. Shown(t)
    BY <1>1, <1>6, ShownElsewhere
<1>10. CanvasStands(t, n) /\ t.undo # <<>>
    BY <1>6, <1>7, <1>8, <1>9 DEF CanvasStands
<1>11. CASE t.tool = "crop"
    <2>1. t.gesture.kind # "draw" /\ t.typing = 0
        BY <1>8, <1>11 DEF Modes, ShapeTools
    <2>2. PICK q : q = SetTool(t, "select")
        OBVIOUS
    <2>3. CanvasStands(q, n) /\ q.undo = t.undo /\ q.redo = t.redo /\ q.typing = t.typing
        BY <1>10, <2>1, <2>2, SetToolIs DEF Tools
    <2> QED
        BY <1>4, <1>6, <1>11, <2>1, <2>2, <2>3 DEF LeavingCrop
<1>12. CASE t.tool # "crop"
    <2>1. LeavingCrop(Tearing(r)) = t
        BY <1>4, <1>12 DEF LeavingCrop
    <2>2. t.typing # 0 => t.torn
        BY <1>2, <1>6
    <2> QED
        BY <1>6, <1>10, <2>1, <2>2
<1> QED
    BY <1>11, <1>12

\* A document of the history is loaded, and is the top of the undo stack from then on.
LEMMA SteppingHolds ==
    ASSUME NEW n \in Nat, NEW q, CanvasStands(q, n), q.typing # 0 => q.torn, NEW doc \in Snapshots(n),
           NEW undo \in Seq(Snapshots(n)), undo # <<>>, undo[Len(undo)] = doc, NEW redo \in Seq(Snapshots(n)),
           ed' = LoadDoc([q EXCEPT !.redo = redo, !.undo = undo], doc), actions' = n + 1
    PROVE  CanvasInv'
<1>1. CanvasTypes(q, n) /\ Modes(q) /\ View(q) /\ Shown(q) /\ DOMAIN q = CanvasFields
    BY DEF CanvasStands, CanvasTypes
<1>2. PICK s : s = [q EXCEPT !.redo = redo, !.undo = undo]
    OBVIOUS
<1>3. /\ DOMAIN s = CanvasFields /\ s.objects = q.objects /\ s.crop = q.crop /\ s.wide = q.wide
      /\ s.view = q.view /\ s.tool = q.tool /\ s.frame = q.frame /\ s.gesture = q.gesture
      /\ s.typing = q.typing /\ s.undo = undo /\ s.redo = redo /\ s.stray = q.stray /\ s.torn = q.torn
    BY <1>1, <1>2 DEF CanvasFields
<1>4. CanvasTypes(s, n)
    BY <1>1, <1>3 DEF CanvasTypes
<1>5. Modes(s) /\ BlocksFirst(s.objects)
    BY <1>1, <1>3 DEF Modes, Shown
<1>6. doc \in LoadableDocs(n)
    BY SnapshotsAreLoadable
<1>7. PICK l : l = LoadDoc(s, doc)
    OBVIOUS
<1>8. /\ CanvasStands(l, n) /\ l.torn = s.torn /\ Holding(l.gesture) = 0 /\ Document(l) = doc
      /\ (s.undo # <<>> => l.undo # <<>>) /\ (s.typing = 0 => l.undo = s.undo)
    BY <1>4, <1>5, <1>6, <1>7, LoadDocIs
<1>9. l.objects \in Seq(Objects(n)) /\ DOMAIN l = CanvasFields
    BY <1>8 DEF CanvasStands, CanvasTypes
<1>10. ~l.torn => Document(l) = l.undo[Len(l.undo)]
    BY <1>3, <1>8
<1>11. Tracked(l)
    BY <1>8, <1>9, <1>10, KnownByTheTop
<1>12. CanvasStands(l, n + 1) /\ l.undo # <<>> /\ ed' = l
    BY <1>2, <1>3, <1>7, <1>8, HoldsGrows
<1> QED
    BY <1>11, <1>12 DEF CanvasInv, CanvasHolds

LEMMA FrontIs ==
    ASSUME NEW T, NEW s \in Seq(T), s # <<>>
    PROVE  /\ Front(s) \in Seq(T) /\ Last(s) \in T /\ Last(s) = s[Len(s)]
           /\ Len(s) >= 2 => /\ Front(s) # <<>> /\ Front(s)[Len(Front(s))] = s[Len(s) - 1]
                             /\ s[Len(s) - 1] \in T
<1>1. PICK k \in Nat : k = Len(s)
    BY LenProperties
<1>2. k >= 1 /\ \A i \in 1..k : s[i] \in T
    BY <1>1, EmptySeq, ElementOfSeq, LenProperties
<1>3. PICK f : f = Front(s)
    OBVIOUS
<1>4. f = SubSeq(s, 1, k - 1)
    BY <1>1, <1>3 DEF Front
<1>5. f \in Seq(T) /\ Len(f) = k - 1 /\ \A i \in 1..(k - 1) : f[i] = s[i]
    BY <1>1, <1>2, <1>4
<1>6. Last(s) = s[k] /\ s[k] \in T
    BY <1>1, <1>2 DEF Last
<1>7. k >= 2 => f # <<>> /\ f[k - 1] = s[k - 1] /\ s[k - 1] \in T
    BY <1>2, <1>5
<1> QED
    BY <1>1, <1>3, <1>5, <1>6, <1>7

LEMMA UndoHolds == ASSUME CanvasInv, Undo PROVE CanvasInv'
<1>1. PICK n \in Nat : n = actions
    BY CanvasHere
<1>2. PICK r : r = ed
    OBVIOUS
<1>3. CanvasStands(r, n) /\ r.undo # <<>> /\ Len(r.undo) >= 2
    BY <1>1, <1>2, CanvasHere DEF Undo
<1>4. PICK q : q = LeavingCrop(Tearing(r))
    OBVIOUS
<1>5. CanvasStands(q, n) /\ q.undo = r.undo /\ q.redo = r.redo /\ (q.typing # 0 => q.torn)
    BY <1>3, <1>4, LeavingIs
<1>6. PICK old : old = q.undo
    OBVIOUS
<1>7. old \in Seq(Snapshots(n)) /\ q.redo \in Seq(Snapshots(n)) /\ DOMAIN q = CanvasFields /\ old # <<>> /\ Len(old) >= 2
    BY <1>3, <1>5, <1>6 DEF CanvasStands, CanvasTypes
<1>8. PICK undo : undo = Front(old)
    OBVIOUS
<1>9. PICK doc : doc = old[Len(old) - 1]
    OBVIOUS
<1>10. PICK top : top = Last(old)
    OBVIOUS
<1>11. undo \in Seq(Snapshots(n)) /\ undo # <<>> /\ undo[Len(undo)] = doc /\ doc \in Snapshots(n) /\ top \in Snapshots(n)
    BY <1>7, <1>8, <1>9, <1>10, FrontIs
<1>12. PICK redo : redo = Append(q.redo, top)
    OBVIOUS
<1>13. redo \in Seq(Snapshots(n))
    BY <1>7, <1>11, <1>12, AppendProperties
<1>14. ed' = LoadDoc([q EXCEPT !.redo = redo, !.undo = undo], doc)
    BY <1>2, <1>4, <1>6, <1>7, <1>8, <1>9, <1>10, <1>12 DEF Undo, CanvasFields
<1>15. actions' = n + 1
    BY <1>1 DEF Undo, Counted
<1> QED
    BY <1>5, <1>11, <1>13, <1>14, <1>15, SteppingHolds

LEMMA RedoHolds == ASSUME CanvasInv, Redo PROVE CanvasInv'
<1>1. PICK n \in Nat : n = actions
    BY CanvasHere
<1>2. PICK r : r = ed
    OBVIOUS
<1>3. CanvasStands(r, n) /\ r.undo # <<>> /\ r.redo # <<>>
    BY <1>1, <1>2, CanvasHere DEF Redo
<1>4. PICK q : q = LeavingCrop(Tearing(r))
    OBVIOUS
<1>5. CanvasStands(q, n) /\ q.undo = r.undo /\ q.redo = r.redo /\ (q.typing # 0 => q.torn)
    BY <1>3, <1>4, LeavingIs
<1>6. PICK ahead : ahead = q.redo
    OBVIOUS
<1>7. ahead \in Seq(Snapshots(n)) /\ q.undo \in Seq(Snapshots(n)) /\ DOMAIN q = CanvasFields /\ ahead # <<>>
    BY <1>3, <1>5, <1>6 DEF CanvasStands, CanvasTypes
<1>8. PICK redo : redo = Front(ahead)
    OBVIOUS
<1>9. PICK doc : doc = Last(ahead)
    OBVIOUS
<1>10. redo \in Seq(Snapshots(n)) /\ doc \in Snapshots(n)
    BY <1>7, <1>8, <1>9, FrontIs
<1>11. PICK undo : undo = Append(q.undo, doc)
    OBVIOUS
<1>12. undo \in Seq(Snapshots(n)) /\ undo # <<>> /\ undo[Len(undo)] = doc
    <2>1. PICK T : T = Snapshots(n)
        OBVIOUS
    <2>2. PICK old \in Seq(T) : old = q.undo
        BY <1>7, <2>1
    <2>3. doc \in T /\ undo = Append(old, doc)
        BY <1>10, <1>11, <2>1, <2>2
    <2> QED
        BY <2>1, <2>3, AppendProperties
<1>13. ed' = LoadDoc([q EXCEPT !.redo = redo, !.undo = undo], doc)
    <2>1. ed' = LoadDoc([q EXCEPT !.undo = undo, !.redo = redo], doc)
        BY <1>2, <1>4, <1>6, <1>7, <1>8, <1>9, <1>11 DEF Redo, CanvasFields
    <2>2. [q EXCEPT !.undo = undo, !.redo = redo] = [q EXCEPT !.redo = redo, !.undo = undo]
        BY <1>7 DEF CanvasFields
    <2> QED
        BY <2>1, <2>2
<1>14. actions' = n + 1
    BY <1>1 DEF Redo, Counted
<1> QED
    BY <1>5, <1>10, <1>12, <1>13, <1>14, SteppingHolds

\* A history that starts with what is on the canvas.
LEMMA AnewHolds ==
    ASSUME NEW n, NEW r, CanvasStands(r, n), Holding(r.gesture) = 0, NEW redo \in Seq(Snapshots(n)),
           NEW torn \in BOOLEAN, NEW q, q = [r EXCEPT !.undo = <<Document(r)>>, !.redo = redo, !.torn = torn]
    PROVE  CanvasHolds(q, n)
<1>1. CanvasTypes(r, n) /\ Modes(r) /\ View(r) /\ Shown(r) /\ DOMAIN r = CanvasFields /\ BlocksFirst(r.objects)
    BY DEF CanvasStands, CanvasTypes, Shown
<1>2. PICK doc \in Snapshots(n) : doc = Document(r)
    BY <1>1, DocumentIs
<1>3. PICK undo : undo = <<doc>>
    OBVIOUS
<1>4. undo \in Seq(Snapshots(n)) /\ undo # <<>> /\ undo[Len(undo)] = doc
    BY <1>3
<1>5. /\ DOMAIN q = CanvasFields /\ q.objects = r.objects /\ q.crop = r.crop /\ q.wide = r.wide
      /\ q.view = r.view /\ q.tool = r.tool /\ q.frame = r.frame /\ q.gesture = r.gesture
      /\ q.typing = r.typing /\ q.undo = undo /\ q.redo = redo /\ q.stray = r.stray /\ q.torn = torn
    BY <1>1, <1>2, <1>3 DEF CanvasFields
<1>6. CanvasTypes(q, n)
    BY <1>1, <1>4, <1>5 DEF CanvasTypes
<1>7. Modes(q) /\ View(q) /\ Shown(q)
    BY <1>1, <1>5, ShownElsewhere DEF Modes, View
<1>8. Document(q) = Document(r)
    BY <1>5, DocumentOf
<1>9. q.objects \in Seq(Objects(n))
    BY <1>6 DEF CanvasTypes
<1>10. Tracked(q)
    BY <1>2, <1>4, <1>5, <1>8, <1>9, KnownByTheTop
<1> QED
    BY <1>4, <1>5, <1>6, <1>7, <1>10 DEF CanvasHolds, CanvasStands

LEMMA ReloadHolds == ASSUME CanvasInv, NEW doc \in ForeignDocs, Reload(doc) PROVE CanvasInv'
<1>1. PICK m \in Nat : m = actions + 1
    BY CanvasHere
<1>2. PICK r : r = ed
    OBVIOUS
<1>3. CanvasStands(r, m)
    BY <1>1, <1>2, CanvasHere, HoldsGrows
<1>4. CanvasTypes(r, m) /\ Modes(r) /\ BlocksFirst(r.objects)
    BY <1>3 DEF CanvasStands, Shown
<1>5. doc \in LoadableDocs(m)
    BY ForeignAreLoadable
<1>6. PICK l : l = LoadDoc(r, doc)
    OBVIOUS
<1>7. CanvasStands(l, m) /\ Holding(l.gesture) = 0
    BY <1>4, <1>5, <1>6, LoadDocIs
<1>8. <<>> \in Seq(Snapshots(m)) /\ FALSE \in BOOLEAN
    BY EmptySeq
<1>9. PICK q : q = [l EXCEPT !.undo = <<Document(l)>>, !.redo = <<>>, !.torn = FALSE]
    OBVIOUS
<1>10. CanvasHolds(q, m)
    BY <1>7, <1>8, <1>9, AnewHolds
<1>11. ed' = q /\ actions' = m
    BY <1>1, <1>2, <1>6, <1>9 DEF Reload, Counted
<1> QED
    BY <1>10, <1>11 DEF CanvasInv

LEMMA CanvasStarts == CanvasInit => CanvasInv
<1> SUFFICES ASSUME CanvasInit PROVE CanvasInv
    OBVIOUS
<1>1. PICK doc \in ForeignDocs \cup {EmptyDoc} :
        LET blank == [objects |-> <<>>, crop |-> NoCrop, wide |-> Width, view |-> WholeImage,
                      tool |-> "select", frame |-> NoFrame, gesture |-> NoGesture, typing |-> 0,
                      undo |-> <<>>, redo |-> <<>>, stray |-> FALSE, torn |-> FALSE]
            r == LoadDoc(blank, doc)
        IN ed = [r EXCEPT !.undo = <<Document(r)>>]
    BY DEF CanvasInit
<1>2. PICK b : b = [objects |-> <<>>, crop |-> NoCrop, wide |-> Width, view |-> WholeImage,
                    tool |-> "select", frame |-> NoFrame, gesture |-> NoGesture, typing |-> 0,
                    undo |-> <<>>, redo |-> <<>>, stray |-> FALSE, torn |-> FALSE]
    OBVIOUS
<1>3. PICK n \in Nat : n = 0
    OBVIOUS
<1>4. /\ DOMAIN b = CanvasFields /\ b.objects = <<>> /\ b.crop = NoCrop /\ b.wide = Width /\ b.tool = "select"
      /\ b.frame = NoFrame /\ b.gesture = NoGesture /\ b.typing = 0 /\ b.undo = <<>> /\ b.redo = <<>>
      /\ b.stray = FALSE /\ b.torn = FALSE
    BY <1>2 DEF CanvasFields
<1>5. CanvasTypes(b, n)
    <2>1. NoCrop \in ValidCrops /\ NoFrame \in Boxes
        BY DEF ValidCrops, NoCrop, NoFrame, Boxes
    <2>2. <<>> \in Seq(Objects(n)) /\ <<>> \in Seq(Snapshots(n))
        BY EmptySeq
    <2> QED
        BY <1>4, <2>1, <2>2, NothingHeld DEF CanvasTypes, Tools
<1>6. Modes(b)
    BY <1>4, NothingHeld DEF Modes, EffectiveWidth
<1>7. BlocksFirst(b.objects)
    <2>1. DOMAIN b.objects = {}
        BY <1>4
    <2> QED
        BY <2>1 DEF BlocksFirst
<1>8. doc \in LoadableDocs(n)
    BY ForeignAreLoadable
<1>9. PICK r : r = LoadDoc(b, doc)
    OBVIOUS
<1>10. CanvasStands(r, n) /\ Holding(r.gesture) = 0
    BY <1>5, <1>6, <1>7, <1>8, <1>9, LoadDocIs
<1>11. r.redo \in Seq(Snapshots(n)) /\ r.torn \in BOOLEAN /\ DOMAIN r = CanvasFields
    BY <1>10 DEF CanvasStands, CanvasTypes
<1>12. ed = [r EXCEPT !.undo = <<Document(r)>>]
    BY <1>1, <1>2, <1>9
<1>13. ed = [r EXCEPT !.undo = <<Document(r)>>, !.redo = r.redo, !.torn = r.torn]
    <2>1. PICK undo : undo = <<Document(r)>>
        OBVIOUS
    <2> QED
        BY <1>11, <1>12, <2>1 DEF CanvasFields
<1>14. CanvasHolds(ed, n)
    BY <1>10, <1>11, <1>13, AnewHolds
<1> QED
    BY <1>3, <1>14 DEF CanvasInv, CanvasInit

LEMMA CanvasSteps == CanvasInv /\ [CanvasNext]_canvasVars => CanvasInv'
<1> SUFFICES ASSUME CanvasInv, [CanvasNext]_canvasVars PROVE CanvasInv'
    OBVIOUS
<1>1. ASSUME NEW tool \in Tools, Pick(tool) PROVE CanvasInv'
    BY <1>1, PickHolds
<1>2. CASE PickCropAgain
    BY <1>2, PickCropAgainHolds
<1>3. CASE CancelCrop
    BY <1>3, CancelCropHolds
<1>4. CASE ApplyCrop
    BY <1>4, ApplyCropHolds
<1>5. CASE ClearCrop
    BY <1>5, ClearCropHolds
<1>6. ASSUME NEW p \in Points, MouseDown(p) \/ Drag(p) \/ AdjustFrame(p) \/ MouseMove(p) PROVE CanvasInv'
    BY <1>6, MouseDownHolds, DragHolds, AdjustFrameHolds, MouseMoveHolds
<1>7. CASE MouseUp
    BY <1>7, MouseUpHolds
<1>8. CASE StartTyping
    BY <1>8, StartTypingHolds
<1>9. CASE StopTyping
    BY <1>9, StopTypingHolds
<1>10. ASSUME NEW text \in Texts \cup {Blank}, TypeText(text) PROVE CanvasInv'
    BY <1>10, TypeTextHolds
<1>11. CASE DeleteSelection
    BY <1>11, DeleteSelectionHolds
<1>12. CASE Undo
    BY <1>12, UndoHolds
<1>13. CASE Redo
    BY <1>13, RedoHolds
<1>14. ASSUME NEW doc \in ForeignDocs, Reload(doc) PROVE CanvasInv'
    BY <1>14, ReloadHolds
<1>15. CASE UNCHANGED canvasVars
    BY <1>15, StandingStillHolds
<1> QED
    BY <1>1, <1>2, <1>3, <1>4, <1>5, <1>6, <1>7, <1>8, <1>9, <1>10, <1>11, <1>12, <1>13, <1>14, <1>15 DEF CanvasNext

(* The objects of the canvas, the modes of the editor and its history agree    *)
(* after every handler (capture-editor.ts): the stack has its blocks below,    *)
(* every object not held by a gesture is one that saving and loading keeps,    *)
(* strokes are scaled for the crop, a crop is whole, inside the image and no   *)
(* smaller than the minimum, and the top of the history is the canvas.         *)
THEOREM CanvasIsConsistent == CanvasSpec => []CanvasInv
BY CanvasStarts, CanvasSteps, PTL DEF CanvasSpec

(* At rest the top of the undo stack is the document of the canvas, unless     *)
(* undo or redo came while a text was typed: commit ends every change, and     *)
(* undo, redo and a reload show the document they move to (capture-editor.ts   *)
(* commit, undo, redo, loadDoc).                                               *)
THEOREM HistoryIsTheCanvas == CanvasSpec => []HistoryTracksCanvas
<1>1. CanvasInv => HistoryTracksCanvas
    BY CanvasHere DEF HistoryTracksCanvas, AtRest, Idle, Tracked, Holding, Last
<1> QED
    BY <1>1, CanvasIsConsistent, PTL

\* A saved shape passes the schema, the size of a block aside.
LEMMA SavedIsOk ==
    ASSUME NEW n, NEW s \in Saved(n), s.kind = "redact" => s.w >= MinRedact /\ s.h >= MinRedact
    PROVE  ShapeOk(s)
<1>1. Proper(s, n) /\ ShapeOf(s) = s /\ s.kind \in Kinds
    BY ObjectsAreProper DEF Saved
<1>2. s.x \in Int /\ s.y \in Int /\ s.w \in Int /\ s.h \in Int /\ s.font \in Int /\ Upright(s)
    BY <1>1 DEF Proper
<1>3. CASE s.kind = "redact"
    <2>1. PICK g : g = RedactionPixelRect(s)
        OBVIOUS
    <2>2. g \in Boxes /\ Whole(g)
        BY <1>2, <2>1, PixelRectIs
    <2>3. s.x = g.x /\ s.y = g.y /\ s.w = g.w /\ s.h = g.h
        BY <1>1, <1>3, <2>1 DEF ShapeOf, ToShape
    <2> QED
        BY <1>3, <2>2, <2>3 DEF ShapeOk, Whole
<1>4. CASE s.kind = "text"
    <2>1. s.font = Round2(ClampFont(s.font))
        BY <1>1, <1>4 DEF ShapeOf
    <2>2. Round2(ClampFont(s.font)) \in MinFont..MaxFont
        BY <1>2, FontIs
    <2> QED
        BY <1>4, <2>1, <2>2 DEF ShapeOk
<1>5. CASE s.kind = "rect"
    BY <1>2, <1>5 DEF ShapeOk, Upright
<1>6. CASE s.kind = "arrow"
    BY <1>6 DEF ShapeOk
<1> QED
    BY <1>1, <1>3, <1>4, <1>5, <1>6 DEF Kinds

(* The document of a canvas at rest passes the schema of the server, whatever  *)
(* gestures, crops, undos and reloads made it, unless there are too many       *)
(* shapes, one is past the margin or a block was resized below the minimum     *)
(* (shapes.ts shapeOf, model.ts normalizeCrop; annotations.ts                  *)
(* validateAnnotationDocument).                                                *)
THEOREM DocumentsAreAccepted == CanvasSpec => []DocumentIsAccepted
<1>1. CanvasInv => DocumentIsAccepted
    <2> SUFFICES ASSUME CanvasInv PROVE DocumentIsAccepted
        OBVIOUS
    <2>1. PICK n \in Nat : n = actions
        BY CanvasHere
    <2>2. PICK doc : doc = Document(ed)
        OBVIOUS
    <2>3. doc \in Snapshots(n)
        BY <2>1, <2>2, CanvasHere, DocumentIs
    <2>4. doc.shapes \in Seq(Saved(n)) /\ doc.crop \in ValidCrops
        BY <2>3 DEF Snapshots
    <2>5. \A i \in DOMAIN doc.shapes : doc.shapes[i] \in Saved(n)
        BY <2>4, ElementOfSeq, LenProperties
    <2> SUFFICES ASSUME ~(Len(doc.shapes) > MaxShapes),
                        \A i \in DOMAIN doc.shapes : InBounds(doc.shapes[i]) /\ ~ResizedAway(doc.shapes[i])
                 PROVE  Valid(doc)
        BY <2>2 DEF DocumentIsAccepted
    <2>6. ASSUME NEW i \in DOMAIN doc.shapes PROVE ShapeOk(doc.shapes[i])
        <3>1. PICK s \in Saved(n) : s = doc.shapes[i]
            BY <2>5
        <3>2. s.w \in Int /\ s.h \in Int /\ MinRedact \in Int
            BY AnnotationAssumption DEF Saved
        <3>3. s.kind = "redact" => s.w >= MinRedact /\ s.h >= MinRedact
            BY <3>1, <3>2 DEF ResizedAway
        <3> QED
            BY <3>1, <3>3, SavedIsOk
    <2>7. Len(doc.shapes) <= MaxShapes
        BY <2>4, LenProperties, AnnotationAssumption
    <2>8. doc.crop # NoCrop => /\ Whole(doc.crop) /\ doc.crop.x >= 0 /\ doc.crop.y >= 0
                               /\ doc.crop.w >= MinCrop /\ doc.crop.h >= MinCrop /\ CropInBounds(doc.crop)
        BY <2>4 DEF ValidCrops
    <2> QED
        BY <2>6, <2>7, <2>8 DEF Valid, SchemaOk
<1> QED
    BY <1>1, CanvasIsConsistent, PTL
-----------------------------------------------------------------------------
(* What is painted.                                                           *)

\* f is the function that FlattenSeq builds, up to n.
Flattens(f, n, seqs) ==
    f = [i \in 1..n |-> IF i = 1 THEN seqs[i] ELSE f[i - 1] \o seqs[i]]

LEMMA FlattenExists ==
    ASSUME NEW seqs
    PROVE  \A n \in Nat : \E f : Flattens(f, n, seqs)
<1> DEFINE Ns == {n \in Nat : \E f : Flattens(f, n, seqs)}
<1>1. 0 \in Ns
    <2>1. PICK f : f = [i \in 1..0 |-> <<>>]
        OBVIOUS
    <2>2. Flattens(f, 0, seqs)
        BY <2>1 DEF Flattens
    <2> QED
        BY <2>2
<1>2. \A n \in Nat : n \in Ns => n + 1 \in Ns
    <2> SUFFICES ASSUME NEW n \in Nat, n \in Ns PROVE n + 1 \in Ns
        OBVIOUS
    <2>1. PICK f : Flattens(f, n, seqs)
        OBVIOUS
    <2>2. PICK last : last = IF n + 1 = 1 THEN seqs[n + 1] ELSE f[n] \o seqs[n + 1]
        OBVIOUS
    <2>3. PICK g : g = [i \in 1..(n + 1) |-> IF i = n + 1 THEN last ELSE f[i]]
        OBVIOUS
    <2>4. Flattens(g, n + 1, seqs)
        <3>1. \A i \in 1..n : g[i] = f[i]
            BY <2>3
        <3>2. g[n + 1] = last
            BY <2>3
        <3>3. \A i \in 1..n : f[i] = IF i = 1 THEN seqs[i] ELSE f[i - 1] \o seqs[i]
            BY <2>1 DEF Flattens
        <3>4. \A i \in 1..(n + 1) : g[i] = IF i = 1 THEN seqs[i] ELSE g[i - 1] \o seqs[i]
            <4> SUFFICES ASSUME NEW i \in 1..(n + 1)
                         PROVE  g[i] = IF i = 1 THEN seqs[i] ELSE g[i - 1] \o seqs[i]
                OBVIOUS
            <4>1. CASE i = n + 1
                <5>1. i # 1 => g[i - 1] = f[n]
                    BY <3>1, <4>1
                <5> QED
                    BY <2>2, <3>2, <4>1, <5>1
            <4>2. CASE i \in 1..n
                <5>1. g[i] = f[i] /\ (i # 1 => g[i - 1] = f[i - 1])
                    BY <3>1, <4>2
                <5> QED
                    BY <3>3, <4>2, <5>1
            <4> QED
                BY <4>1, <4>2
        <3> QED
            BY <2>3, <3>4 DEF Flattens
    <2> QED
        BY <2>4
<1> HIDE DEF Ns
<1>3. \A n \in Nat : n \in Ns
    BY <1>1, <1>2, NumbersFollow
<1> QED
    BY <1>3 DEF Ns

LEMMA FlattenIs ==
    ASSUME NEW seqs, Len(seqs) \in Nat, Len(seqs) # 0
    PROVE  \E f : Flattens(f, Len(seqs), seqs) /\ FlattenSeq(seqs) = f[Len(seqs)]
<1>1. \E f : Flattens(f, Len(seqs), seqs)
    BY FlattenExists
<1> QED
    BY <1>1 DEF FlattenSeq, Flattens

LEMMA AlikeConcat ==
    ASSUME NEW U, NEW V, NEW a \in Seq(U), NEW c \in Seq(U), NEW b \in Seq(V), NEW d \in Seq(V),
           Alike(a, b), Alike(c, d)
    PROVE  Alike(a \o c, b \o d)
<1>1. PICK n \in Nat : n = Len(a) /\ n = Len(b)
    BY LenProperties DEF Alike
<1>2. PICK m \in Nat : m = Len(c) /\ m = Len(d)
    BY LenProperties DEF Alike
<1>3. PICK x : x = a \o c
    OBVIOUS
<1>4. PICK y : y = b \o d
    OBVIOUS
<1>5. x \in Seq(U) /\ Len(x) = n + m /\ \A i \in 1..(n + m) : x[i] = IF i <= n THEN a[i] ELSE c[i - n]
    <2>1. a \o c \in Seq(U) /\ Len(a \o c) = Len(a) + Len(c)
          /\ \A i \in 1..(Len(a) + Len(c)) : (a \o c)[i] = IF i <= Len(a) THEN a[i] ELSE c[i - Len(a)]
        BY ConcatProperties
    <2> QED
        BY <1>1, <1>2, <1>3, <2>1
<1>6. y \in Seq(V) /\ Len(y) = n + m /\ \A i \in 1..(n + m) : y[i] = IF i <= n THEN b[i] ELSE d[i - n]
    <2>1. b \o d \in Seq(V) /\ Len(b \o d) = Len(b) + Len(d)
          /\ \A i \in 1..(Len(b) + Len(d)) : (b \o d)[i] = IF i <= Len(b) THEN b[i] ELSE d[i - Len(b)]
        BY ConcatProperties
    <2> QED
        BY <1>1, <1>2, <1>4, <2>1
<1>7. DOMAIN y = 1..(n + m) /\ DOMAIN b = 1..n /\ DOMAIN d = 1..m
    BY <1>1, <1>2, <1>6, LenProperties
<1>8. ASSUME NEW i \in 1..(n + m)
      PROVE  x[i].tag = y[i].tag /\ \A j \in DOMAIN y[i].at : Abs(x[i].at[j] - y[i].at[j]) <= Fine
    <2>1. CASE i <= n
        <3>1. i \in DOMAIN b /\ x[i] = a[i] /\ y[i] = b[i]
            BY <1>5, <1>6, <1>7, <2>1
        <3> QED
            BY <3>1 DEF Alike
    <2>2. CASE ~(i <= n)
        <3>1. PICK k \in 1..m : k = i - n
            BY <2>2
        <3>2. k \in DOMAIN d /\ x[i] = c[k] /\ y[i] = d[k]
            BY <1>5, <1>6, <1>7, <2>2, <3>1
        <3> QED
            BY <3>2 DEF Alike
    <2> QED
        BY <2>1, <2>2
<1> QED
    BY <1>3, <1>4, <1>5, <1>6, <1>7, <1>8 DEF Alike

\* Lists of lists that are pairwise alike are alike.
LEMMA AlikeFlat ==
    ASSUME NEW a, NEW b, NEW n \in Nat, Len(a) = n, Len(b) = n, NEW U, NEW V,
           n = 0 => a = <<>> /\ b = <<>>,
           \A i \in 1..n : a[i] \in Seq(U) /\ b[i] \in Seq(V) /\ Alike(a[i], b[i])
    PROVE  FlattenSeq(a) \in Seq(U) /\ Alike(FlattenSeq(a), FlattenSeq(b))
<1>1. CASE n = 0
    <2>1. FlattenSeq(a) = <<>> /\ FlattenSeq(b) = <<>>
        BY <1>1 DEF FlattenSeq
    <2>2. Alike(<<>>, <<>>) /\ <<>> \in Seq(U)
        BY EmptySeq DEF Alike
    <2> QED
        BY <2>1, <2>2
<1>2. CASE n # 0
    <2>1. PICK f : Flattens(f, n, a) /\ FlattenSeq(a) = f[n]
        BY <1>2, FlattenIs
    <2>2. PICK g : Flattens(g, n, b) /\ FlattenSeq(b) = g[n]
        BY <1>2, FlattenIs
    <2>3. \A i \in 1..n : f[i] = IF i = 1 THEN a[i] ELSE f[i - 1] \o a[i]
        BY <2>1 DEF Flattens
    <2>4. \A i \in 1..n : g[i] = IF i = 1 THEN b[i] ELSE g[i - 1] \o b[i]
        BY <2>2 DEF Flattens
    <2> DEFINE Ks == {k \in Nat : k \in 1..n => f[k] \in Seq(U) /\ g[k] \in Seq(V) /\ Alike(f[k], g[k])}
    <2>5. 0 \in Ks
        OBVIOUS
    <2>6. ASSUME NEW k \in Nat, k \in Ks PROVE k + 1 \in Ks
        <3> SUFFICES ASSUME k + 1 \in 1..n
                     PROVE  f[k + 1] \in Seq(U) /\ g[k + 1] \in Seq(V) /\ Alike(f[k + 1], g[k + 1])
            OBVIOUS
        <3>1. CASE k = 0
            <4>1. f[k + 1] = a[k + 1] /\ g[k + 1] = b[k + 1]
                BY <2>3, <2>4, <3>1
            <4> QED
                BY <4>1
        <3>2. CASE k # 0
            <4>1. PICK i \in 1..n : i = k + 1
                OBVIOUS
            <4>2. i # 1 /\ i - 1 = k /\ k \in 1..n
                BY <3>2, <4>1
            <4>3. f[i] = f[k] \o a[i] /\ g[i] = g[k] \o b[i]
                BY <2>3, <2>4, <4>1, <4>2
            <4>4. PICK p \in Seq(U) : p = f[k]
                BY <2>6, <4>2
            <4>5. PICK q \in Seq(V) : q = g[k]
                BY <2>6, <4>2
            <4>6. PICK c \in Seq(U) : c = a[i]
                OBVIOUS
            <4>7. PICK d \in Seq(V) : d = b[i]
                OBVIOUS
            <4>8. Alike(p, q) /\ Alike(c, d)
                BY <2>6, <4>2, <4>4, <4>5, <4>6, <4>7
            <4>9. Alike(p \o c, q \o d) /\ p \o c \in Seq(U) /\ q \o d \in Seq(V)
                BY <4>8, AlikeConcat, ConcatProperties
            <4> QED
                BY <4>1, <4>3, <4>4, <4>5, <4>6, <4>7, <4>9
        <3> QED
            BY <3>1, <3>2
    <2> HIDE DEF Ks
    <2>7. n \in Ks
        BY <2>5, <2>6, NumbersFollow
    <2> QED
        BY <1>2, <2>1, <2>2, <2>7 DEF Ks
<1> QED
    BY <1>1, <1>2

\* A paint and the mark that is drawn for it.
Matches(paint, mark) ==
    /\ paint.tag = mark.tag
    /\ \A j \in DOMAIN mark.at : Abs(paint.at[j] - mark.at[j]) <= Fine

LEMMA NumNear ==
    ASSUME NEW v \in Int, NEW u \in Int, u = v \/ u = v + 1
    PROVE  Abs(v - Num(u)) <= Fine
<1>1. PICK k \in Int : k = Num(u)
    BY Round2Near DEF Num
<1>2. u <= k /\ k <= u + 1
    BY <1>1, Round2Near DEF Num
<1>3. PICK d \in Int : d = v - k
    OBVIOUS
<1>4. PICK e \in Int : e = -d
    OBVIOUS
<1>5. Abs(d) = IF d >= e THEN d ELSE e
    <2>1. Max({d, e}) = IF d >= e THEN d ELSE e
        BY MaxIs
    <2> QED
        BY <1>4, <2>1 DEF Abs
<1>6. Abs(d) <= 2
    BY <1>2, <1>3, <1>4, <1>5
<1> QED
    BY <1>1, <1>3, <1>6 DEF Fine

LEMMA MarkMatches ==
    ASSUME NEW tag, NEW p, NEW q, DOMAIN q \subseteq DOMAIN p,
           \A j \in DOMAIN q : p[j] \in Int /\ q[j] \in Int /\ (q[j] = p[j] \/ q[j] = p[j] + 1)
    PROVE  Matches(Paint(tag, p), Mark(tag, q))
<1>1. PICK m : m = Mark(tag, q)
    OBVIOUS
<1>2. m.tag = tag /\ DOMAIN m.at = DOMAIN q /\ \A j \in DOMAIN q : m.at[j] = Num(q[j])
    BY <1>1 DEF Mark
<1>3. Paint(tag, p).tag = tag /\ Paint(tag, p).at = p
    BY DEF Paint
<1>4. \A j \in DOMAIN q : Abs(p[j] - Num(q[j])) <= Fine
    BY NumNear
<1> QED
    BY <1>1, <1>2, <1>3, <1>4 DEF Matches

LEMMA AlikeLists ==
    ASSUME NEW n \in Nat, NEW U, NEW V, NEW a \in Seq(U), NEW b \in Seq(V), Len(a) = n, Len(b) = n,
           \A i \in 1..n : Matches(a[i], b[i])
    PROVE  Alike(a, b)
<1>1. DOMAIN b = 1..n
    BY LenProperties
<1> QED
    BY <1>1 DEF Alike, Matches
\* Lists of matching paints, as long as the marks of any shape.
LEMMA OneAlike ==
    ASSUME NEW p, NEW m, Matches(p, m)
    PROVE  /\ Alike(<<p>>, <<m>>) /\ <<p>> \in Seq(Members(<<p>>)) /\ <<m>> \in Seq(Members(<<m>>))
<1>1. PICK a : a = <<p>>
    OBVIOUS
<1>2. PICK b : b = <<m>>
    OBVIOUS
<1>3. PICK n \in Nat : n = 1
    OBVIOUS
<1>4. PICK U : U = {p}
    OBVIOUS
<1>5. PICK V : V = {m}
    OBVIOUS
<1>6. a \in Seq(U) /\ b \in Seq(V) /\ Len(a) = 1 /\ Len(b) = 1
    BY <1>1, <1>2, <1>4, <1>5
<1>7. \A i \in 1..n : Matches(a[i], b[i])
    BY <1>1, <1>2, <1>3
<1>8. Alike(a, b)
    BY <1>3, <1>7, <1>6, AlikeLists
<1>9. a \in Seq(Members(a)) /\ b \in Seq(Members(b))
    BY <1>6, MembersOf
<1> QED
    BY <1>1, <1>2, <1>8, <1>9

LEMMA TwoAlike ==
    ASSUME NEW p1, NEW m1, Matches(p1, m1), NEW p2, NEW m2, Matches(p2, m2)
    PROVE  /\ Alike(<<p1, p2>>, <<m1, m2>>) /\ <<p1, p2>> \in Seq(Members(<<p1, p2>>))
           /\ <<m1, m2>> \in Seq(Members(<<m1, m2>>))
<1>1. PICK a : a = <<p1, p2>>
    OBVIOUS
<1>2. PICK b : b = <<m1, m2>>
    OBVIOUS
<1>3. PICK n \in Nat : n = 2
    OBVIOUS
<1>4. PICK U : U = {p1, p2}
    OBVIOUS
<1>5. PICK V : V = {m1, m2}
    OBVIOUS
<1>6. a \in Seq(U) /\ b \in Seq(V) /\ Len(a) = 2 /\ Len(b) = 2
    BY <1>1, <1>2, <1>4, <1>5
<1>7. \A i \in 1..n : Matches(a[i], b[i])
    <2> SUFFICES ASSUME NEW i \in 1..n PROVE Matches(a[i], b[i])
        OBVIOUS
    <2>1. i = 1 \/ i = 2
        BY <1>3
    <2> QED
        BY <1>1, <1>2, <2>1
<1>8. Alike(a, b)
    BY <1>3, <1>7, <1>6, AlikeLists
<1>9. a \in Seq(Members(a)) /\ b \in Seq(Members(b))
    BY <1>6, MembersOf
<1> QED
    BY <1>1, <1>2, <1>8, <1>9

\* A coordinate that is moved by k after it was rounded is a unit off at most.
LEMMA MovedIs ==
    ASSUME NEW v \in Int, NEW k \in Int
    PROVE  /\ v + k \in Int /\ Round2(v) + k \in Int
           /\ Round2(v) + k = v + k \/ Round2(v) + k = v + k + 1
<1>1. PICK u \in Int : u = Round2(v) /\ v <= u /\ u <= v + 1
    BY Round2Near
<1> QED
    BY <1>1

\* A calm object paints what the server draws for its shape.
LEMMA PaintedIs ==
    ASSUME NEW n, NEW o \in Objects(n), Calm(o), o.wide \in Int
    PROVE  LET p == Painted(o)
               m == ShapeMarks(ShapeOf(o), AnnotationSizes(o.wide))
           IN Alike(p, m) /\ p \in Seq(Members(p)) /\ m \in Seq(Members(m))
<1>1. PICK z : z = AnnotationSizes(o.wide)
    OBVIOUS
<1>2. /\ z.stroke \in Int /\ z.outline \in Int /\ z.outer \in Int /\ z.headLength \in Int
      /\ z.headWidth \in Int /\ z.textStroke \in Int
    <2>1. PICK wide \in Int : wide = o.wide
        OBVIOUS
    <2> QED
        BY <1>1, <2>1, SizesAre
<1>3. /\ o.kind \in Kinds /\ o.x \in Int /\ o.y \in Int /\ o.w \in Int /\ o.h \in Int /\ o.font \in Int
    BY FieldsOfObject DEF Proper
<1>4. PICK s : s = ShapeOf(o)
    OBVIOUS
<1>5. s.kind = o.kind /\ s.text = o.text /\ s.x = ToShape(o.kind, o).x /\ s.y = ToShape(o.kind, o).y
      /\ s.w = ToShape(o.kind, o).w /\ s.h = ToShape(o.kind, o).h
      /\ s.font = IF o.kind = "text" THEN Round2(ClampFont(o.font)) ELSE 0
    BY <1>4 DEF ShapeOf
<1>6. CASE o.kind = "redact"
    <2>1. PICK g : g = Geom(o.x, o.y, o.w, o.h)
        OBVIOUS
    <2>2. RedactionPixelRect(o) = g /\ o.opaque
        BY <1>6, <2>1 DEF Calm, Sound
    <2>3. s.x = o.x /\ s.y = o.y /\ s.w = o.w /\ s.h = o.h
        BY <1>5, <1>6, <2>1, <2>2 DEF ToShape, Geom
    <2>4. RedactionPixelRect(s) = g
        BY <2>2, <2>3 DEF RedactionPixelRect
    <2>5. PICK tag : tag = <<"block", g>>
        OBVIOUS
    <2>6. PICK p : p = Paint(tag, <<>>)
        OBVIOUS
    <2>7. PICK m : m = Mark(tag, <<>>)
        OBVIOUS
    <2>8. PICK none : none = <<>>
        OBVIOUS
    <2>9. Matches(p, m)
        <3>1. DOMAIN none = {}
            BY <2>8
        <3>2. Matches(Paint(tag, none), Mark(tag, none))
            BY <3>1, MarkMatches
        <3> QED
            BY <2>6, <2>7, <2>8, <3>2
    <2>10. Painted(o) = <<p>>
        BY <1>6, <2>1, <2>2, <2>5, <2>6 DEF Painted, AnnoRedact
    <2>11. ShapeMarks(s, z) = <<m>>
        BY <1>5, <1>6, <2>4, <2>5, <2>7 DEF ShapeMarks, RedactMarks
    <2> QED
        BY <1>1, <1>4, <2>9, <2>10, <2>11, OneAlike
<1>7. CASE o.kind = "rect"
    <2>1. PICK k \in Int : k = z.outer \div 2
        BY <1>2
    <2>2. s.x = Round2(o.x) /\ s.y = Round2(o.y) /\ s.w = Round2(o.w) /\ s.h = Round2(o.h)
        BY <1>5, <1>7 DEF ToShape, RectToShape, Geom
    <2>3. PICK p : p = <<o.x + k, o.y + k, o.w, o.h>>
        OBVIOUS
    <2>4. PICK q : q = <<s.x + k, s.y + k, s.w, s.h>>
        OBVIOUS
    <2>5. /\ s.x + k \in Int /\ (s.x + k = o.x + k \/ s.x + k = o.x + k + 1)
          /\ s.y + k \in Int /\ (s.y + k = o.y + k \/ s.y + k = o.y + k + 1)
          /\ s.w \in Int /\ (s.w = o.w \/ s.w = o.w + 1)
          /\ s.h \in Int /\ (s.h = o.h \/ s.h = o.h + 1)
        <3>1. PICK x \in Int : x = o.x
            BY <1>3
        <3>2. PICK y \in Int : y = o.y
            BY <1>3
        <3>3. PICK w \in Int : w = o.w
            BY <1>3
        <3>4. PICK h \in Int : h = o.h
            BY <1>3
        <3>5. Round2(x) + k \in Int /\ (Round2(x) + k = x + k \/ Round2(x) + k = x + k + 1)
            BY MovedIs
        <3>6. Round2(y) + k \in Int /\ (Round2(y) + k = y + k \/ Round2(y) + k = y + k + 1)
            BY MovedIs
        <3>7. PICK r \in Int : r = Round2(w) /\ w <= r /\ r <= w + 1
            BY Round2Near
        <3>8. PICK t \in Int : t = Round2(h) /\ h <= t /\ t <= h + 1
            BY Round2Near
        <3>9. (r = w \/ r = w + 1) /\ (t = h \/ t = h + 1)
            BY <3>7, <3>8
        <3> QED
            BY <2>2, <3>1, <3>2, <3>3, <3>4, <3>5, <3>6, <3>7, <3>8, <3>9
    <2>6. DOMAIN q = DOMAIN p /\ \A j \in DOMAIN q : p[j] \in Int /\ q[j] \in Int /\ (q[j] = p[j] \/ q[j] = p[j] + 1)
        <3>1. DOMAIN p = 1..4 /\ p[1] = o.x + k /\ p[2] = o.y + k /\ p[3] = o.w /\ p[4] = o.h
            BY <2>3
        <3>2. DOMAIN q = 1..4 /\ q[1] = s.x + k /\ q[2] = s.y + k /\ q[3] = s.w /\ q[4] = s.h
            BY <2>4
        <3>3. \A j \in 1..4 : j = 1 \/ j = 2 \/ j = 3 \/ j = 4
            OBVIOUS
        <3> QED
            BY <1>3, <2>5, <3>1, <3>2, <3>3
    <2>7. \A tag : Matches(Paint(tag, p), Mark(tag, q))
        BY <2>6, MarkMatches
    <2>8. Painted(o) = <<Paint(<<"box", "white", z.outer>>, p), Paint(<<"box", "red", z.stroke>>, p)>>
        BY <1>1, <1>7, <2>1, <2>3 DEF Painted, AnnoRect
    <2>9. ShapeMarks(s, z) = <<Mark(<<"box", "white", z.outer>>, q), Mark(<<"box", "red", z.stroke>>, q)>>
        BY <1>5, <1>7, <2>1, <2>4 DEF ShapeMarks, RectMarks
    <2> QED
        BY <1>1, <1>4, <2>7, <2>8, <2>9, TwoAlike
<1>8. CASE o.kind = "arrow"
    <2>1. /\ s.x = Round2(o.x) /\ s.y = Round2(o.y)
          /\ s.w = Round2(o.x + o.w) - Round2(o.x) /\ s.h = Round2(o.y + o.h) - Round2(o.y)
        BY <1>5, <1>8 DEF ToShape, ArrowToShape, Geom
    <2>2. PICK ex \in Int : ex = o.x + o.w
        BY <1>3
    <2>3. PICK ey \in Int : ey = o.y + o.h
        BY <1>3
    <2>4. /\ Round2(o.x) \in Int /\ o.x <= Round2(o.x) /\ Round2(o.x) <= o.x + 1
          /\ Round2(o.y) \in Int /\ o.y <= Round2(o.y) /\ Round2(o.y) <= o.y + 1
          /\ Round2(ex) \in Int /\ ex <= Round2(ex) /\ Round2(ex) <= ex + 1
          /\ Round2(ey) \in Int /\ ey <= Round2(ey) /\ Round2(ey) <= ey + 1
        BY <1>3, Round2Near
    <2>5. PICK p : p = <<o.x, o.y, o.x + o.w, o.y + o.h, z.headLength, z.headWidth>>
        OBVIOUS
    <2>6. PICK q : q = <<s.x, s.y, s.x + s.w, s.y + s.h, z.headLength, z.headWidth>>
        OBVIOUS
    <2>7. s.x + s.w = Round2(ex) /\ s.y + s.h = Round2(ey)
        BY <2>1, <2>2, <2>3, <2>4
    <2>8. DOMAIN q = DOMAIN p /\ \A j \in DOMAIN q : p[j] \in Int /\ q[j] \in Int /\ (q[j] = p[j] \/ q[j] = p[j] + 1)
        <3>1. DOMAIN p = 1..6 /\ p[1] = o.x /\ p[2] = o.y /\ p[3] = ex /\ p[4] = ey
              /\ p[5] = z.headLength /\ p[6] = z.headWidth
            BY <2>2, <2>3, <2>5
        <3>2. DOMAIN q = 1..6 /\ q[1] = Round2(o.x) /\ q[2] = Round2(o.y) /\ q[3] = Round2(ex) /\ q[4] = Round2(ey)
              /\ q[5] = z.headLength /\ q[6] = z.headWidth
            BY <2>1, <2>6, <2>7
        <3>3. \A j \in 1..6 : j = 1 \/ j = 2 \/ j = 3 \/ j = 4 \/ j = 5 \/ j = 6
            OBVIOUS
        <3>4. \A j \in {1, 2, 3, 4} : p[j] \in Int /\ q[j] \in Int /\ (q[j] = p[j] \/ q[j] = p[j] + 1)
            BY <1>3, <2>4, <3>1, <3>2
        <3>5. \A j \in {5, 6} : p[j] \in Int /\ q[j] \in Int /\ q[j] = p[j]
            BY <1>2, <3>1, <3>2
        <3> QED
            BY <3>1, <3>2, <3>3, <3>4, <3>5
    <2>9. \A tag : Matches(Paint(tag, p), Mark(tag, q))
        BY <2>8, MarkMatches
    <2>10. PICK p1 : p1 = Paint(<<"shaft", "white", z.outer>>, p)
        OBVIOUS
    <2>11. PICK p2 : p2 = Paint(<<"head", "white", 2 * z.outline>>, p)
        OBVIOUS
    <2>12. PICK p3 : p3 = Paint(<<"shaft", "red", z.stroke>>, p)
        OBVIOUS
    <2>13. PICK p4 : p4 = Paint(<<"head", "red", 0>>, p)
        OBVIOUS
    <2>14. PICK m1 : m1 = Mark(<<"shaft", "white", z.outer>>, q)
        OBVIOUS
    <2>15. PICK m2 : m2 = Mark(<<"head", "white", 2 * z.outline>>, q)
        OBVIOUS
    <2>16. PICK m3 : m3 = Mark(<<"shaft", "red", z.stroke>>, q)
        OBVIOUS
    <2>17. PICK m4 : m4 = Mark(<<"head", "red", 0>>, q)
        OBVIOUS
    <2>18. Matches(p1, m1) /\ Matches(p2, m2) /\ Matches(p3, m3) /\ Matches(p4, m4)
        BY <2>9, <2>10, <2>11, <2>12, <2>13, <2>14, <2>15, <2>16, <2>17
    <2>19. Painted(o) = <<p1, p2>> \o <<p3, p4>>
        BY <1>1, <1>8, <2>5, <2>10, <2>11, <2>12, <2>13 DEF Painted, AnnoArrow, DrawArrow
    <2>20. ShapeMarks(s, z) = <<m1, m2, m3, m4>>
        BY <1>5, <1>8, <2>6, <2>14, <2>15, <2>16, <2>17 DEF ShapeMarks, ArrowMarks
    <2>21. <<m1, m2, m3, m4>> = <<m1, m2>> \o <<m3, m4>>
        OBVIOUS
    <2>22. PICK a : a = <<p1, p2>>
        OBVIOUS
    <2>23. PICK c : c = <<p3, p4>>
        OBVIOUS
    <2>24. PICK b : b = <<m1, m2>>
        OBVIOUS
    <2>25. PICK d : d = <<m3, m4>>
        OBVIOUS
    <2>26. Alike(a, b) /\ Alike(c, d)
        BY <2>18, <2>22, <2>23, <2>24, <2>25, TwoAlike
    <2>27. PICK U : U = {p1, p2, p3, p4}
        OBVIOUS
    <2>28. PICK V : V = {m1, m2, m3, m4}
        OBVIOUS
    <2>29. a \in Seq(U) /\ c \in Seq(U)
        BY <2>22, <2>23, <2>27
    <2>30. b \in Seq(V) /\ d \in Seq(V)
        BY <2>24, <2>25, <2>28
    <2>31. Alike(a \o c, b \o d) /\ a \o c \in Seq(U) /\ b \o d \in Seq(V)
        BY <2>26, <2>29, <2>30, AlikeConcat, ConcatProperties
    <2>32. PICK x \in Seq(U) : x = a \o c
        BY <2>31
    <2>33. PICK y \in Seq(V) : y = b \o d
        BY <2>31
    <2>34. x \in Seq(Members(x)) /\ y \in Seq(Members(y))
        BY MembersOf
    <2> QED
        BY <1>1, <1>4, <2>19, <2>20, <2>21, <2>22, <2>23, <2>24, <2>25, <2>31, <2>32, <2>33, <2>34
<1>9. CASE o.kind = "text" /\ o.text = Blank
    <2>1. Painted(o) = <<>>
        BY <1>9 DEF Painted, AnnoText
    <2>2. ShapeMarks(s, z) = <<>>
        BY <1>5, <1>9 DEF ShapeMarks, TextMarks
    <2>3. Alike(<<>>, <<>>)
        BY DEF Alike
    <2>4. <<>> \in Seq(Members(<<>>))
        BY EmptySeq
    <2> QED
        BY <1>1, <1>4, <2>1, <2>2, <2>3, <2>4
<1>10. CASE o.kind = "text" /\ o.text # Blank
    <2>1. PICK k \in Int : k = z.textStroke \div 2
        BY <1>2
    <2>2. s.x = Round2(o.x) /\ s.y = Round2(o.y)
        BY <1>5, <1>10 DEF ToShape, TextToShape, Geom
    <2>3. s.font = Round2(o.font)
        <3>1. o.font \in MinFont..MaxFont /\ MinFont \in Int /\ MaxFont \in Int /\ MinFont <= MaxFont
            BY <1>10, AnnotationAssumption DEF Calm, Sound
        <3>2. ClampFont(o.font) = o.font
            BY <3>1, ClampIs DEF ClampFont
        <3> QED
            BY <1>5, <1>10, <3>2
    <2>4. PICK p : p = <<o.x + k, o.y + k, o.font>>
        OBVIOUS
    <2>5. PICK q : q = <<s.x + k, s.y + k, s.font>>
        OBVIOUS
    <2>6. /\ s.x + k \in Int /\ (s.x + k = o.x + k \/ s.x + k = o.x + k + 1)
          /\ s.y + k \in Int /\ (s.y + k = o.y + k \/ s.y + k = o.y + k + 1)
          /\ s.font \in Int /\ (s.font = o.font \/ s.font = o.font + 1)
        <3>1. PICK x \in Int : x = o.x
            BY <1>3
        <3>2. PICK y \in Int : y = o.y
            BY <1>3
        <3>3. PICK f \in Int : f = o.font
            BY <1>3
        <3>4. Round2(x) + k \in Int /\ (Round2(x) + k = x + k \/ Round2(x) + k = x + k + 1)
            BY MovedIs
        <3>5. Round2(y) + k \in Int /\ (Round2(y) + k = y + k \/ Round2(y) + k = y + k + 1)
            BY MovedIs
        <3>6. PICK r \in Int : r = Round2(f) /\ f <= r /\ r <= f + 1
            BY Round2Near
        <3>7. r = f \/ r = f + 1
            BY <3>6
        <3> QED
            BY <2>2, <2>3, <3>1, <3>2, <3>3, <3>4, <3>5, <3>6, <3>7
    <2>7. DOMAIN q = DOMAIN p /\ \A j \in DOMAIN q : p[j] \in Int /\ q[j] \in Int /\ (q[j] = p[j] \/ q[j] = p[j] + 1)
        <3>1. DOMAIN p = 1..3 /\ p[1] = o.x + k /\ p[2] = o.y + k /\ p[3] = o.font
            BY <2>4
        <3>2. DOMAIN q = 1..3 /\ q[1] = s.x + k /\ q[2] = s.y + k /\ q[3] = s.font
            BY <2>5
        <3>3. \A j \in 1..3 : j = 1 \/ j = 2 \/ j = 3
            OBVIOUS
        <3> QED
            BY <1>3, <2>6, <3>1, <3>2, <3>3
    <2>8. \A tag : Matches(Paint(tag, p), Mark(tag, q))
        BY <2>7, MarkMatches
    <2>9. PICK tag : tag = <<"text", o.text, z.textStroke>>
        OBVIOUS
    <2>10. Painted(o) = <<Paint(tag, p)>>
        BY <1>1, <1>10, <2>1, <2>4, <2>9 DEF Painted, AnnoText
    <2>11. ShapeMarks(s, z) = <<Mark(tag, q)>>
        BY <1>5, <1>10, <2>1, <2>5, <2>9 DEF ShapeMarks, TextMarks
    <2> QED
        BY <1>1, <1>4, <2>8, <2>10, <2>11, OneAlike
<1> QED
    BY <1>3, <1>6, <1>7, <1>8, <1>9, <1>10 DEF Kinds

LEMMA CanvasIsTheRender == ASSUME CanvasInv PROVE CanvasShowsTheRender
<1> SUFFICES ASSUME AtRest, ed.tool # "crop", ~ed.stray
             PROVE  LET svg == Svg(Document(ed))
                    IN ed.view = svg.view /\ Alike(Canvas(ed), svg.marks)
    BY DEF CanvasShowsTheRender
<1>1. PICK n \in Nat : n = actions
    BY CanvasHere
<1>2. PICK r : r = ed
    OBVIOUS
<1>3. CanvasTypes(r, n) /\ Modes(r) /\ View(r) /\ Shown(r) /\ BlocksFirst(r.objects)
    BY <1>1, <1>2, CanvasHere
<1>4. PICK x : x = r.objects
    OBVIOUS
<1>5. /\ x \in Seq(Objects(n)) /\ BlocksFirst(x)
      /\ \A i \in DOMAIN x : x[i].wide = r.wide /\ Calm(x[i]) /\ x[i] \in Objects(n)
    <2>1. Holding(r.gesture) = 0
        BY <1>2 DEF AtRest, Idle, Holding
    <2> QED
        BY <1>3, <1>4, <2>1, ShownIsCalm, ObjectsOf DEF CanvasTypes
<1>6. PICK k \in Nat : k = Len(x)
    BY <1>5, LenProperties
<1>7. DOMAIN x = 1..k
    BY <1>5, <1>6, LenProperties
<1>8. PICK doc : doc = Document(r)
    OBVIOUS
<1>9. PICK shapes : shapes = doc.shapes
    OBVIOUS
<1>10. doc.crop = r.crop /\ shapes = [i \in DOMAIN x |-> ShapeOf(x[i])]
    BY <1>4, <1>8, <1>9 DEF Document, Shapes
<1>11. shapes \in Seq(Saved(n)) /\ BlocksFirst(shapes)
    BY <1>3, <1>8, <1>9, DocumentIs DEF Snapshots
<1>12. RenderOrder(shapes) = shapes
    BY <1>11, BlocksFirstIsLayered, LayeredStays
<1>13. r.wide = EffectiveWidth(doc.crop) /\ r.wide \in Int
    <2>1. r.crop \in Boxes
        BY <1>3 DEF CanvasTypes, ValidCrops
    <2> QED
        BY <1>3, <1>10, <2>1, EffectiveWidthIs DEF Modes
<1>14. PICK z : z = AnnotationSizes(r.wide)
    OBVIOUS
<1>15. PICK a : a = [i \in DOMAIN x |-> Painted(x[i])]
    OBVIOUS
<1>16. PICK b : b = [i \in DOMAIN shapes |-> ShapeMarks(shapes[i], z)]
    OBVIOUS
<1>17. DOMAIN shapes = 1..k /\ \A i \in 1..k : shapes[i] = ShapeOf(x[i])
    BY <1>7, <1>10
<1>18. Len(a) = k /\ Len(b) = k /\ \A i \in 1..k : a[i] = Painted(x[i]) /\ b[i] = ShapeMarks(ShapeOf(x[i]), z)
    BY <1>7, <1>15, <1>16, <1>17
<1>19. \A i \in 1..k : Alike(a[i], b[i]) /\ a[i] \in Seq(Members(a[i])) /\ b[i] \in Seq(Members(b[i]))
    <2> SUFFICES ASSUME NEW i \in 1..k
                 PROVE  Alike(a[i], b[i]) /\ a[i] \in Seq(Members(a[i])) /\ b[i] \in Seq(Members(b[i]))
        OBVIOUS
    <2>1. PICK o \in Objects(n) : o = x[i]
        BY <1>5, <1>7
    <2>2. o.wide = r.wide /\ Calm(o)
        BY <1>5, <1>7, <2>1
    <2> QED
        BY <1>13, <1>14, <1>18, <2>1, <2>2, PaintedIs
<1>20. PICK U : U = UNION {Members(a[i]) : i \in 1..k}
    OBVIOUS
<1>21. PICK V : V = UNION {Members(b[i]) : i \in 1..k}
    OBVIOUS
<1>22. \A i \in 1..k : a[i] \in Seq(U) /\ b[i] \in Seq(V)
    <2> SUFFICES ASSUME NEW i \in 1..k PROVE a[i] \in Seq(U) /\ b[i] \in Seq(V)
        OBVIOUS
    <2>1. Members(a[i]) \subseteq U /\ Members(b[i]) \subseteq V
        BY <1>20, <1>21
    <2> QED
        BY <1>19, <2>1, SeqMonotonic
<1>23. k = 0 => a = <<>> /\ b = <<>>
    BY <1>7, <1>15, <1>16, <1>17
<1>24. FlattenSeq(a) \in Seq(U) /\ Alike(FlattenSeq(a), FlattenSeq(b))
    BY <1>18, <1>19, <1>22, <1>23, AlikeFlat
<1>25. Canvas(r) = FlattenSeq(a)
    <2>1. r.frame = NoFrame /\ ~r.stray
        BY <1>2, <1>3 DEF Modes
    <2>2. Canvas(r) = FlattenSeq(a) \o <<>>
        BY <1>4, <1>15, <2>1 DEF Canvas
    <2> QED
        BY <1>24, <2>2, ConcatEmptySeq
<1>26. Svg(doc).marks = FlattenSeq(b)
    BY <1>9, <1>12, <1>13, <1>14, <1>16 DEF Svg
<1>27. Svg(doc).view = IF doc.crop = NoCrop THEN WholeImage ELSE doc.crop
    BY DEF Svg
<1>28. r.view = IF doc.crop = NoCrop THEN WholeImage ELSE doc.crop
    BY <1>2, <1>3, <1>10 DEF View
<1> QED
    BY <1>2, <1>8, <1>24, <1>25, <1>26, <1>27, <1>28

(* What an owner sees at rest is what every viewer gets: the canvas paints     *)
(* the marks the server renders from the document it would save, in the same   *)
(* order, each coordinate within the precision of the schema, in the same view *)
(* (capture-editor.ts loadDoc, fit, shapes.ts; svg-overlay.ts buildOverlaySvg).*)
THEOREM CanvasIsRendered == CanvasSpec => []CanvasShowsTheRender
BY CanvasIsTheRender, CanvasIsConsistent, PTL
=============================================================================
