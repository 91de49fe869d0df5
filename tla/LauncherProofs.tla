------------------------------ MODULE LauncherProofs ------------------------------
(***************************************************************************)
(* The safety of a wrapped run, for any commands, any environment and any  *)
(* number of descendants: the program runs at most once, its tree never    *)
(* goes on without the lease unwatched, success is only reported for a     *)
(* program that ended with it, and the program gets word for word what the *)
(* command line asks for.  The last rests on what quote_argument writes    *)
(* and CommandLineToArgvW reads, shown first for any words.                *)
(***************************************************************************)
EXTENDS Launcher, InductionLemmas, SequenceTheorems, FiniteSetTheorems

-----------------------------------------------------------------------------
(* The words, quote_argument and what CommandLineToArgvW reads.              *)

\* The strings, and the states of the two loops over them.
Texts == Seq(Characters)
Escaping == [text : Texts, backslashes : Nat]
Reading == [words : Seq(Texts), begun : BOOLEAN, word : Texts, backslashes : Nat,
            quoted : BOOLEAN]

(* A unit, repeated.                                                         *)
LEMMA Repeats ==
    ASSUME NEW c \in Characters, NEW n \in Nat
    PROVE  /\ Repeat(c, n) \in Texts /\ Len(Repeat(c, n)) = n
           /\ \A k \in 1..n : Repeat(c, n)[k] = c
           /\ Repeat(c, 0) = <<>>
           /\ Repeat(c, n + 1) = Repeat(c, n) \o <<c>>
<1>1. \A m \in Nat : /\ Repeat(c, m) \in Texts /\ Len(Repeat(c, m)) = m
                     /\ \A k \in 1..m : Repeat(c, m)[k] = c
  BY DEF Repeat, Texts
<1>2. Repeat(c, 0) = <<>>
  BY DEF Repeat
<1>3. Repeat(c, n + 1) = Repeat(c, n) \o <<c>>
  <2> DEFINE r == Repeat(c, n)
  <2>1. r \in Seq(Characters) /\ <<c>> \in Seq(Characters) /\ Len(<<c>>) = 1 /\ Len(r) = n
        /\ \A k \in 1..n : r[k] = c
    BY <1>1 DEF Texts
  <2>2. r \o <<c>> \in Seq(Characters) /\ Len(r \o <<c>>) = n + 1
        /\ \A k \in 1..(n + 1) : (r \o <<c>>)[k] = c
    <3>1. r \o <<c>> \in Seq(Characters) /\ Len(r \o <<c>>) = n + 1
        /\ \A k \in 1..(n + 1) : (r \o <<c>>)[k] = IF k <= n THEN r[k] ELSE <<c>>[k - n]
      BY <2>1, ConcatProperties
    <3> QED
      BY <2>1, <3>1
  <2> HIDE DEF r
  <2>3. Repeat(c, n + 1) = r \o <<c>>
    <3> DEFINE s == Repeat(c, n + 1)
               t == r \o <<c>>
    <3>1. n + 1 \in Nat
      OBVIOUS
    <3>2. s \in Seq(Characters) /\ Len(s) = n + 1 /\ \A k \in 1..(n + 1) : s[k] = c
      BY <1>1, <3>1 DEF Texts
    <3> HIDE DEF s, t
    <3> QED
      BY <2>2, <3>2, SeqEqual DEF s, t
  <2> QED
    BY <2>3 DEF r
<1> QED
  BY <1>1, <1>2, <1>3

(* The three units that mean something are different ones.                   *)
LEMMA Marks ==
    /\ Backslash \in Characters /\ Quote \in Characters /\ Blank \in Characters
    /\ Backslash # Quote /\ Backslash # Blank /\ Quote # Blank
BY CharactersAssumption DEF Backslash, Quote, Blank

(* quote_argument's state stays one of its states.                           *)
LEMMA EscapeType ==
    ASSUME NEW state \in Escaping, NEW unit \in Characters
    PROVE  Escape(state, unit) \in Escaping
<1> DEFINE n == IF unit = Quote THEN 2 * state.backslashes + 1 ELSE state.backslashes
<1>1. n \in Nat /\ state.text \in Texts /\ state.backslashes \in Nat
  BY DEF Escaping
<1>2. Repeat(Backslash, n) \in Texts
  BY <1>1, Marks, Repeats
<1>3. state.text \o Repeat(Backslash, n) \o <<unit>> \in Texts
  BY <1>1, <1>2 DEF Texts
<1> HIDE DEF n
<1> QED
  BY <1>1, <1>3 DEF Escape, Escaping, n

\* The states of quote_argument while it escapes a value.
Escapes(value) ==
    {v \in [0..Len(value) -> Escaping] :
        /\ v[0] = [text |-> <<Quote>>, backslashes |-> 0]
        /\ \A k \in 1..Len(value) : v[k] = Escape(v[k - 1], value[k])
        /\ Escaped(value) = v[Len(value)]}

(* A value is escaped unit by unit.                                          *)
LEMMA EscapedUnfolds ==
    ASSUME NEW value \in Texts
    PROVE  \E v : v \in Escapes(value)
<1> DEFINE n == Len(value)
           first == [text |-> <<Quote>>, backslashes |-> 0]
           step == [k \in 1..n |-> [x \in Escaping |-> Escape(x, value[k])]]
<1>1. n \in Nat /\ \A k \in 1..n : value[k] \in Characters
  BY DEF Texts
<1>2. first \in Escaping
  BY Marks DEF Escaping, Texts
<1>3. step \in [1..n -> [Escaping -> Escaping]]
  BY <1>1, EscapeType
<1> HIDE DEF first
<1>4. PICK f \in [0..n -> Escaping] : f[0] = first /\ \A k \in 1..n : f[k] = step[k][f[k - 1]]
  <2> HIDE DEF step, n
  <2> QED
    BY <1>1, <1>2, <1>3, RecursionTo
<1>5. ASSUME NEW k \in 1..n PROVE f[k] = Escape(f[k - 1], value[k])
  <2>1. k - 1 \in 0..n
    BY <1>1
  <2> QED
    BY <1>4, <2>1
<1>6. f = [k \in 0..n |-> IF k = 0 THEN first ELSE Escape(f[k - 1], value[k])]
  <2>1. \A k \in 0..n : f[k] = IF k = 0 THEN first ELSE Escape(f[k - 1], value[k])
    BY <1>1, <1>4, <1>5
  <2> QED
    BY <1>4, <2>1
<1>7. PICK v :
        /\ v = [k \in 0..n |-> IF k = 0 THEN first ELSE Escape(v[k - 1], value[k])]
        /\ Escaped(value) = v[n]
  BY <1>6 DEF Escaped, first
<1>8. v[0] = first /\ \A k \in 1..n : v[k] = Escape(v[k - 1], value[k])
  <2> DEFINE to(k) == IF k = 0 THEN first ELSE Escape(v[k - 1], value[k])
  <2>1. v = [k \in 0..n |-> to(k)]
    BY <1>7
  <2> HIDE DEF to
  <2>2. \A k \in 0..n : v[k] = to(k)
    BY <2>1
  <2> QED
    BY <1>1, <2>2 DEF to
<1>9. \A k \in 0..n : v[k] \in Escaping
  <2> DEFINE S == {k \in 0..n : v[k] \in Escaping}
  <2>1. 0 \in S
    BY <1>1, <1>2, <1>8
  <2>2. ASSUME NEW k \in 1..n, k - 1 \in S PROVE k \in S
    BY <1>1, <1>8, <2>2, EscapeType
  <2> HIDE DEF S
  <2>3. 0..n \subseteq S
    BY <1>1, <2>1, <2>2, InductionTo
  <2> QED
    BY <2>3 DEF S
<1>10. v \in [0..n -> Escaping]
  BY <1>7, <1>9
<1> QED
  BY <1>7, <1>8, <1>10 DEF Escapes, first

(* Texts behind one another.                                                 *)
LEMMA TextsJoin ==
    ASSUME NEW s \in Texts, NEW t \in Texts, NEW r \in Texts
    PROVE  /\ s \o t \in Texts /\ Len(s \o t) = Len(s) + Len(t)
           /\ (s \o t) \o r = s \o (t \o r)
           /\ s \o <<>> = s /\ <<>> \o s = s /\ <<>> \in Texts
           /\ \A k \in 1..Len(s) : (s \o t)[k] = s[k]
           /\ \A k \in 1..Len(t) : (s \o t)[Len(s) + k] = t[k]
<1>1. s \o t \in Seq(Characters) /\ Len(s \o t) = Len(s) + Len(t)
      /\ \A k \in 1..(Len(s) + Len(t)) : (s \o t)[k] = IF k <= Len(s) THEN s[k] ELSE t[k - Len(s)]
  BY ConcatProperties DEF Texts
<1>2. Len(s) \in Nat /\ Len(t) \in Nat
  BY DEF Texts
<1>3. \A k \in 1..Len(s) : (s \o t)[k] = s[k]
  BY <1>1, <1>2
<1>4. \A k \in 1..Len(t) : (s \o t)[Len(s) + k] = t[k]
  <2> SUFFICES ASSUME NEW k \in 1..Len(t) PROVE (s \o t)[Len(s) + k] = t[k]
    OBVIOUS
  <2> DEFINE j == Len(s) + k
  <2>1. j \in 1..(Len(s) + Len(t)) /\ ~(j <= Len(s)) /\ j - Len(s) = k
    BY <1>2
  <2> HIDE DEF j
  <2>2. (s \o t)[j] = t[k]
    BY <1>1, <2>1
  <2> QED
    BY <2>2 DEF j
<1>5. (s \o t) \o r = s \o (t \o r)
  BY ConcatAssociative DEF Texts
<1>6. s \o <<>> = s /\ <<>> \o s = s /\ <<>> \in Texts
  BY ConcatEmptySeq DEF Texts
<1> QED
  BY <1>1, <1>3, <1>4, <1>5, <1>6 DEF Texts

(* A text behind a text is one.                                              *)
LEMMA JoinTypes ==
    \A s \in Texts, t \in Texts : s \o t \in Texts
BY TextsJoin

\* The order in which three texts are joined does not matter.
Joins(s, t, r) == (s \o t) \o r = s \o (t \o r)

(* It does not matter which texts are joined first.                          *)
LEMMA JoinAssociates == \A s, t, r : s \in Texts /\ t \in Texts /\ r \in Texts => Joins(s, t, r)
BY ConcatAssociative DEF Texts, Joins

(* The empty text adds nothing.                                              *)
LEMMA JoinEmpty ==
    <<>> \in Texts /\ \A s \in Texts : s \o <<>> = s /\ <<>> \o s = s
<1>1. <<>> \in Texts
  BY DEF Texts
<1> QED
  BY <1>1, TextsJoin

(* What the end of the line leaves is a state of CommandLineToArgvW.         *)
LEMMA EndedType ==
    ASSUME NEW state \in Reading
    PROVE  Ended(state) \in Reading
<1>1. state.words \in Seq(Texts) /\ state.word \in Texts /\ state.backslashes \in Nat
  BY DEF Reading
<1>2. Repeat(Backslash, state.backslashes) \in Texts
  BY <1>1, Marks, Repeats
<1>3. state.word \o Repeat(Backslash, state.backslashes) \in Texts
  BY <1>1, <1>2, TextsJoin
<1>4. Append(state.words, state.word \o Repeat(Backslash, state.backslashes)) \in Seq(Texts)
  BY <1>1, <1>3, AppendProperties
<1>5. <<>> \in Texts
  BY DEF Texts
<1> QED
  BY <1>4, <1>5 DEF Ended, Unread, Reading

\* A unit that is read belongs to a word.
Added(state, units, quoted) ==
    [words |-> state.words, begun |-> TRUE, word |-> state.word \o units,
     backslashes |-> 0, quoted |-> quoted]

(* What CommandLineToArgvW makes of each unit.                               *)
LEMMA ReadCases ==
    ASSUME NEW state \in Reading, NEW unit \in Characters
    PROVE  LET n == state.backslashes
               r == Read(state, unit)
           IN /\ unit = Backslash =>
                    r = [words |-> state.words, begun |-> TRUE, word |-> state.word,
                         backslashes |-> n + 1, quoted |-> state.quoted]
              /\ unit = Quote /\ n % 2 = 0 =>
                    r = Added(state, Repeat(Backslash, n \div 2), ~state.quoted)
              /\ unit = Quote /\ n % 2 = 1 =>
                    r = Added(state, Repeat(Backslash, n \div 2) \o <<Quote>>, state.quoted)
              /\ unit = Blank /\ ~state.quoted => r = Ended(state)
              /\ unit \notin {Backslash, Quote} /\ ~(unit = Blank /\ ~state.quoted) =>
                    r = Added(state, Repeat(Backslash, n) \o <<unit>>, state.quoted)
<1> DEFINE n == state.backslashes
<1>1. n \in Nat
  BY DEF Reading
<1>2. unit = Backslash => Read(state, unit) =
        [words |-> state.words, begun |-> TRUE, word |-> state.word,
                         backslashes |-> n + 1, quoted |-> state.quoted]
  BY Marks DEF Read, Reading
<1>3. unit = Quote /\ n % 2 = 0 =>
                    Read(state, unit) = Added(state, Repeat(Backslash, n \div 2), ~state.quoted)
  BY Marks, <1>1 DEF Read, Added
<1>4. unit = Quote /\ n % 2 = 1 => Read(state, unit) =
        Added(state, Repeat(Backslash, n \div 2) \o <<Quote>>, state.quoted)
  BY Marks, <1>1 DEF Read, Added
<1>5. unit = Blank /\ ~state.quoted => Read(state, unit) = Ended(state)
  BY Marks DEF Read
<1>6. unit \notin {Backslash, Quote} /\ ~(unit = Blank /\ ~state.quoted) =>
         Read(state, unit) = Added(state, Repeat(Backslash, n) \o <<unit>>, state.quoted)
  BY Marks DEF Read, Added
<1> QED
  BY <1>2, <1>3, <1>4, <1>5, <1>6

(* A state with a unit added is a state.                                     *)
LEMMA AddedType ==
    ASSUME NEW state \in Reading, NEW units \in Texts, NEW quoted \in BOOLEAN
    PROVE  Added(state, units, quoted) \in Reading
<1>1. state.word \o units \in Texts /\ state.words \in Seq(Texts)
  BY TextsJoin DEF Reading
<1> QED
  BY <1>1 DEF Added, Reading

(* CommandLineToArgvW's state stays one of its states.                       *)
LEMMA ReadType ==
    ASSUME NEW state \in Reading, NEW unit \in Characters
    PROVE  Read(state, unit) \in Reading
<1> DEFINE n == state.backslashes
<1>1. n \in Nat /\ n % 2 \in {0, 1} /\ n \div 2 \in Nat /\ state.quoted \in BOOLEAN
  BY DEF Reading
<1>2. /\ Repeat(Backslash, n) \in Texts /\ Repeat(Backslash, n \div 2) \in Texts
      /\ <<Quote>> \in Texts /\ <<unit>> \in Texts
  <2>1. \A m \in Nat : Repeat(Backslash, m) \in Texts
    BY Marks, Repeats
  <2>2. <<Quote>> \in Texts /\ <<unit>> \in Texts
    BY Marks DEF Texts
  <2> QED
    BY <1>1, <2>1, <2>2
<1>3. Repeat(Backslash, n) \o <<unit>> \in Texts /\ Repeat(Backslash, n \div 2) \o <<Quote>> \in Texts
  BY <1>2, TextsJoin
<1>4. CASE unit = Backslash
  <2>1. Read(state, unit) = [words |-> state.words, begun |-> TRUE, word |-> state.word,
                             backslashes |-> n + 1, quoted |-> state.quoted]
    BY <1>4, ReadCases
  <2>2. n + 1 \in Nat /\ state.words \in Seq(Texts) /\ state.word \in Texts
    BY <1>1 DEF Reading
  <2> QED
    BY <1>1, <2>1, <2>2 DEF Reading
<1>5. CASE unit = Quote /\ n % 2 = 0
  <2>1. Added(state, Repeat(Backslash, n \div 2), ~state.quoted) \in Reading
    BY <1>1, <1>2, AddedType
  <2> QED
    BY <1>5, <2>1, ReadCases
<1>6. CASE unit = Quote /\ n % 2 = 1
  <2>1. Added(state, Repeat(Backslash, n \div 2) \o <<Quote>>, state.quoted) \in Reading
    BY <1>1, <1>3, AddedType
  <2> QED
    BY <1>6, <2>1, ReadCases
<1>7. CASE unit = Blank /\ ~state.quoted
  BY <1>7, EndedType, ReadCases
<1>8. CASE unit \notin {Backslash, Quote} /\ ~(unit = Blank /\ ~state.quoted)
  <2>1. Added(state, Repeat(Backslash, n) \o <<unit>>, state.quoted) \in Reading
    BY <1>1, <1>3, AddedType
  <2> QED
    BY <1>8, <2>1, ReadCases
<1> QED
  BY <1>1, <1>4, <1>5, <1>6, <1>7, <1>8

\* The states of CommandLineToArgvW while it reads a line.
Readings(state, line) ==
    {v \in [0..Len(line) -> Reading] :
        /\ v[0] = state
        /\ \A k \in 1..Len(line) : v[k] = Read(v[k - 1], line[k])
        /\ Reads(state, line) = v[Len(line)]}

(* A line is read unit by unit.                                              *)
LEMMA ReadsUnfolds ==
    ASSUME NEW line \in Texts, NEW state \in Reading
    PROVE  \E v : v \in Readings(state, line)
<1> DEFINE n == Len(line)
           step == [k \in 1..n |-> [x \in Reading |-> Read(x, line[k])]]
<1>1. n \in Nat /\ \A k \in 1..n : line[k] \in Characters
  BY DEF Texts
<1>3. step \in [1..n -> [Reading -> Reading]]
  BY <1>1, ReadType
<1>4. PICK f \in [0..n -> Reading] : f[0] = state /\ \A k \in 1..n : f[k] = step[k][f[k - 1]]
  <2> HIDE DEF step, n
  <2> QED
    BY <1>1, <1>3, RecursionTo
<1>5. ASSUME NEW k \in 1..n PROVE f[k] = Read(f[k - 1], line[k])
  <2>1. k - 1 \in 0..n
    BY <1>1
  <2> QED
    BY <1>4, <2>1
<1>6. f = [k \in 0..n |-> IF k = 0 THEN state ELSE Read(f[k - 1], line[k])]
  <2>1. \A k \in 0..n : f[k] = IF k = 0 THEN state ELSE Read(f[k - 1], line[k])
    BY <1>1, <1>4, <1>5
  <2> QED
    BY <1>4, <2>1
<1>7. PICK v :
        /\ v = [k \in 0..n |-> IF k = 0 THEN state ELSE Read(v[k - 1], line[k])]
        /\ Reads(state, line) = v[n]
  BY <1>6 DEF Reads
<1>8. v[0] = state /\ \A k \in 1..n : v[k] = Read(v[k - 1], line[k])
  <2> DEFINE to(k) == IF k = 0 THEN state ELSE Read(v[k - 1], line[k])
  <2>1. v = [k \in 0..n |-> to(k)]
    BY <1>7
  <2> HIDE DEF to
  <2>2. \A k \in 0..n : v[k] = to(k)
    BY <2>1
  <2> QED
    BY <1>1, <2>2 DEF to
<1>9. \A k \in 0..n : v[k] \in Reading
  <2> DEFINE S == {k \in 0..n : v[k] \in Reading}
  <2>1. 0 \in S
    BY <1>1, <1>8
  <2>2. ASSUME NEW k \in 1..n, k - 1 \in S PROVE k \in S
    BY <1>1, <1>8, <2>2, ReadType
  <2> HIDE DEF S
  <2>3. 0..n \subseteq S
    BY <1>1, <2>1, <2>2, InductionTo
  <2> QED
    BY <2>3 DEF S
<1>10. v \in [0..n -> Reading]
  BY <1>7, <1>9
<1> QED
  BY <1>7, <1>8, <1>10 DEF Readings

(* A line that has been read leaves a state.                                 *)
LEMMA ReadsType ==
    ASSUME NEW line \in Texts, NEW state \in Reading
    PROVE  Reads(state, line) \in Reading
<1>1. PICK v : v \in Readings(state, line)
  BY ReadsUnfolds
<1>2. Len(line) \in Nat
  BY DEF Texts
<1> QED
  BY <1>1, <1>2 DEF Readings

(* What is read in two parts is read at once.                                *)
LEMMA ReadsJoin ==
    ASSUME NEW s \in Texts, NEW t \in Texts, NEW state \in Reading
    PROVE  Reads(state, s \o t) = Reads(Reads(state, s), t)
<1> DEFINE m == Len(s)
           n == Len(t)
           middle == Reads(state, s)
<1>0. m \in Nat /\ n \in Nat /\ middle \in Reading
  BY ReadsType DEF Texts
<1>1. s \o t \in Texts /\ Len(s \o t) = m + n
      /\ (\A k \in 1..m : (s \o t)[k] = s[k])
      /\ (\A k \in 1..n : (s \o t)[m + k] = t[k])
  BY TextsJoin
<1>2. PICK a : a \in Readings(state, s)
  BY ReadsUnfolds
<1>3. PICK b : b \in Readings(middle, t)
  BY <1>0, ReadsUnfolds
<1>4. PICK u : u \in Readings(state, s \o t)
  BY <1>1, ReadsUnfolds
<1>5. /\ a[0] = state /\ (\A k \in 1..m : a[k] = Read(a[k - 1], s[k])) /\ middle = a[m]
      /\ b[0] = middle /\ (\A k \in 1..n : b[k] = Read(b[k - 1], t[k]))
      /\ Reads(middle, t) = b[n]
      /\ u[0] = state /\ (\A k \in 1..(m + n) : u[k] = Read(u[k - 1], (s \o t)[k]))
      /\ Reads(state, s \o t) = u[m + n]
  BY <1>1, <1>2, <1>3, <1>4 DEF Readings
<1> HIDE DEF m, n, middle
<1>6. \A k \in 0..m : u[k] = a[k]
  <2> DEFINE S == {k \in 0..m : u[k] = a[k]}
  <2>1. 0 \in S
    BY <1>0, <1>5
  <2>2. ASSUME NEW k \in 1..m, k - 1 \in S PROVE k \in S
    <3>1. k \in 1..(m + n)
      BY <1>0
    <3> QED
      BY <1>1, <1>5, <2>2, <3>1
  <2> HIDE DEF S
  <2>3. 0..m \subseteq S
    BY <1>0, <2>1, <2>2, InductionTo
  <2> QED
    BY <2>3 DEF S
<1>7. \A k \in 0..n : u[m + k] = b[k]
  <2> DEFINE S == {k \in 0..n : u[m + k] = b[k]}
  <2>1. 0 \in S
    <3>1. m + 0 = m /\ m \in 0..m /\ 0 \in 0..n
      BY <1>0
    <3>2. u[m] = b[0]
      BY <1>5, <1>6, <3>1
    <3> QED
      BY <3>1, <3>2
  <2>2. ASSUME NEW k \in 1..n, k - 1 \in S PROVE k \in S
    <3>1. m + k \in 1..(m + n) /\ (m + k) - 1 = m + (k - 1)
      BY <1>0
    <3>2. u[m + k] = Read(u[m + (k - 1)], (s \o t)[m + k])
      BY <1>5, <3>1
    <3>3. u[m + (k - 1)] = b[k - 1]
      BY <2>2
    <3>4. (s \o t)[m + k] = t[k]
      BY <1>1
    <3>5. b[k] = Read(b[k - 1], t[k])
      BY <1>5
    <3>6. k \in 0..n
      BY <1>0
    <3> QED
      BY <3>2, <3>3, <3>4, <3>5, <3>6
  <2> HIDE DEF S
  <2>3. 0..n \subseteq S
    BY <1>0, <2>1, <2>2, InductionTo
  <2> QED
    BY <2>3 DEF S
<1> QED
  BY <1>0, <1>5, <1>7 DEF middle

(* A line of one unit.                                                       *)
LEMMA ReadsOne ==
    ASSUME NEW state \in Reading, NEW unit \in Characters
    PROVE  Reads(state, <<unit>>) = Read(state, unit) /\ Reads(state, <<>>) = state
<1>1. <<unit>> \in Texts /\ Len(<<unit>>) = 1 /\ <<unit>>[1] = unit /\ <<>> \in Texts /\ Len(<<>>) = 0
  BY DEF Texts
<1>2. PICK v : v \in Readings(state, <<unit>>)
  BY <1>1, ReadsUnfolds
<1>3. PICK w : w \in Readings(state, <<>>)
  BY <1>1, ReadsUnfolds
<1>4. v[1] = Read(v[0], unit) /\ v[0] = state
  BY <1>1, <1>2 DEF Readings
<1> QED
  BY <1>1, <1>2, <1>3, <1>4 DEF Readings

(* One unit more.                                                            *)
LEMMA ReadsMore ==
    ASSUME NEW s \in Texts, NEW unit \in Characters, NEW state \in Reading
    PROVE  Reads(state, s \o <<unit>>) = Read(Reads(state, s), unit)
<1>1. <<unit>> \in Texts /\ Reads(state, s) \in Reading
  BY ReadsType DEF Texts
<1> QED
  BY <1>1, ReadsJoin, ReadsOne

-----------------------------------------------------------------------------
(* A word that is quoted, and one that is not.                               *)

\* Between two words, in one, and in one within quotes.
Between(words) ==
    [words |-> words, begun |-> FALSE, word |-> <<>>, backslashes |-> 0, quoted |-> FALSE]
Plain(words, word, n) ==
    [words |-> words, begun |-> TRUE, word |-> word, backslashes |-> n, quoted |-> FALSE]
Quoted(words, word, n) ==
    [words |-> words, begun |-> TRUE, word |-> word, backslashes |-> n, quoted |-> TRUE]

(* What the states are.                                                      *)
LEMMA States ==
    ASSUME NEW words \in Seq(Texts), NEW word \in Texts, NEW n \in Nat
    PROVE  /\ Between(words) \in Reading
           /\ Plain(words, word, n) \in Reading /\ Quoted(words, word, n) \in Reading
<1>1. <<>> \in Texts
  BY DEF Texts
<1> QED
  BY <1>1 DEF Between, Plain, Quoted, Reading

\* A word with so many backslashes behind it.
Held(state, n) ==
    [words |-> state.words, begun |-> TRUE, word |-> state.word, backslashes |-> n,
     quoted |-> state.quoted]

(* Backslashes are held back until it is known what follows them.            *)
LEMMA BackslashesRead ==
    ASSUME NEW state \in Reading, state.begun, state.backslashes = 0, NEW n \in Nat
    PROVE  Reads(state, Repeat(Backslash, n)) = Held(state, n)
<1> DEFINE S == {k \in Nat : Reads(state, Repeat(Backslash, k)) = Held(state, k)}
<1>1. 0 \in S
  <2>1. Repeat(Backslash, 0) = <<>>
    BY Marks, Repeats
  <2>2. Held(state, 0) = state
    BY DEF Held, Reading
  <2> QED
    BY <2>1, <2>2, ReadsOne, Marks
<1>2. ASSUME NEW k \in S PROVE k + 1 \in S
  <2>1. /\ k \in Nat /\ Repeat(Backslash, k + 1) = Repeat(Backslash, k) \o <<Backslash>>
        /\ Repeat(Backslash, k) \in Texts
    BY Marks, Repeats
  <2>2. Reads(state, Repeat(Backslash, k + 1)) = Read(Held(state, k), Backslash)
    BY <2>1, Marks, ReadsMore
  <2>3. Held(state, k) \in Reading
    BY <2>1 DEF Held, Reading
  <2>4. Read(Held(state, k), Backslash) = Held(state, k + 1)
    <3> DEFINE h == Held(state, k)
    <3>1. Read(h, Backslash) = [words |-> h.words, begun |-> TRUE, word |-> h.word,
                                backslashes |-> h.backslashes + 1, quoted |-> h.quoted]
      <4> HIDE DEF h
      <4> QED
        BY <2>3, Marks, ReadCases DEF h
    <3> QED
      BY <3>1 DEF Held
  <2> QED
    BY <2>1, <2>2, <2>4
<1> HIDE DEF S
<1>3. Nat \subseteq S
  BY <1>1, <1>2, Induction DEF S
<1> QED
  BY <1>3 DEF S

(* The same within quotes, where a word has begun.                           *)
LEMMA QuotedBackslashes ==
    ASSUME NEW words \in Seq(Texts), NEW word \in Texts, NEW n \in Nat
    PROVE  Reads(Quoted(words, word, 0), Repeat(Backslash, n)) = Quoted(words, word, n)
<1> DEFINE state == Quoted(words, word, 0)
<1>1. state \in Reading
  BY States
<1>2. state.begun /\ state.backslashes = 0 /\ Held(state, n) = Quoted(words, word, n)
  BY DEF Quoted, Held
<1> HIDE DEF state
<1>3. Reads(state, Repeat(Backslash, n)) = Held(state, n)
  BY <1>1, <1>2, BackslashesRead
<1> QED
  BY <1>2, <1>3 DEF state

(* A word's beginning grows by one unit at a time.                           *)
LEMMA Beginnings ==
    ASSUME NEW D, NEW s \in Seq(D), NEW i \in 1..Len(s)
    PROVE  /\ SubSeq(s, 1, i) = SubSeq(s, 1, i - 1) \o <<s[i]>>
           /\ SubSeq(s, 1, i - 1) \in Seq(D) /\ s[i] \in D
<1> DEFINE a == SubSeq(s, 1, i)
           b == SubSeq(s, 1, i - 1)
           c == <<s[i]>>
<1>1. a \in Seq(D) /\ Len(a) = i /\ \A k \in 1..i : a[k] = s[k]
  BY SubSeqProperties
<1>2. b \in Seq(D) /\ Len(b) = i - 1 /\ \A k \in 1..(i - 1) : b[k] = s[k]
  BY SubSeqProperties
<1>3. c \in Seq(D) /\ Len(c) = 1 /\ c[1] = s[i] /\ s[i] \in D
  OBVIOUS
<1> HIDE DEF a, b, c
<1>4. b \o c \in Seq(D) /\ Len(b \o c) = i
      /\ \A k \in 1..i : (b \o c)[k] = IF k <= i - 1 THEN b[k] ELSE c[k - (i - 1)]
  <2>1. b \o c \in Seq(D) /\ Len(b \o c) = Len(b) + Len(c)
        /\ \A k \in 1..(Len(b) + Len(c)) :
              (b \o c)[k] = IF k <= Len(b) THEN b[k] ELSE c[k - Len(b)]
    BY <1>2, <1>3, ConcatProperties
  <2>2. Len(b) + Len(c) = i /\ Len(b) = i - 1
    BY <1>2, <1>3
  <2> QED
    BY <2>1, <2>2
<1>5. \A k \in 1..i : (b \o c)[k] = s[k]
  BY <1>2, <1>3, <1>4
<1>6. a = b \o c
  BY <1>1, <1>4, <1>5, SeqEqual
<1> QED
  BY <1>2, <1>3, <1>6 DEF a, b, c

(* The beginning of its own length is the text.                              *)
LEMMA Whole ==
    ASSUME NEW D, NEW value \in Seq(D)
    PROVE  SubSeq(value, 1, Len(value)) = value /\ SubSeq(value, 1, 0) = <<>>
<1> DEFINE a == SubSeq(value, 1, Len(value))
           b == SubSeq(value, 1, 0)
<1>0. Len(value) \in Nat
  OBVIOUS
<1>1. a \in Seq(D) /\ Len(a) = Len(value) /\ \A i \in 1..Len(value) : a[i] = value[i]
  BY <1>0, SubSeqProperties
<1>2. b \in Seq(D) /\ Len(b) = 0
  BY <1>0, SubSeqProperties
<1> HIDE DEF a, b
<1>3. a = value
  BY <1>1, SeqEqual
<1>4. b = <<>>
  BY <1>2, EmptySeq
<1> QED
  BY <1>3, <1>4 DEF a, b

\* A word has been read up to the backslashes that are still held back.
IsReadBy(words, w, text, m, prefix) ==
    /\ Reads(Between(words), text) = Quoted(words, w, 0)
    /\ w \o Repeat(Backslash, m) = prefix

(* A unit that is no quote is added as it is, with what was held back.       *)
LEMMA QuotedMore ==
    ASSUME NEW words \in Seq(Texts), NEW w \in Texts, NEW text \in Texts,
           NEW j \in Nat, NEW unit \in Characters,
           Reads(Between(words), text) = Quoted(words, w, 0)
    PROVE  /\ text \o Repeat(Backslash, j) \o <<unit>> \in Texts
           /\ Reads(Between(words), text \o Repeat(Backslash, j) \o <<unit>>)
                = Read(Quoted(words, w, j), unit)
<1>1. Between(words) \in Reading /\ Quoted(words, w, 0) \in Reading
  BY States, JoinEmpty
<1>2. Repeat(Backslash, j) \in Texts
  BY Marks, Repeats
<1> DEFINE s == text \o Repeat(Backslash, j)
<1>3. s \in Texts
  BY <1>2, JoinTypes
<1>4. Reads(Between(words), s) = Reads(Quoted(words, w, 0), Repeat(Backslash, j))
  BY <1>1, <1>2, ReadsJoin
<1>6. Reads(Between(words), s) = Quoted(words, w, j)
  BY <1>4, QuotedBackslashes
<1> HIDE DEF s
<1>7. Reads(Between(words), s \o <<unit>>) = Read(Quoted(words, w, j), unit)
  BY <1>1, <1>3, <1>6, ReadsMore
<1>9. <<unit>> \in Texts
  BY DEF Texts
<1>10. s \o <<unit>> \in Texts
  BY <1>3, <1>9, JoinTypes
<1> QED
  BY <1>7, <1>10 DEF s

(* What quote_argument writes for a unit is read as that unit.               *)
LEMMA QuotedStep ==
    ASSUME NEW words \in Seq(Texts), NEW w \in Texts, NEW state \in Escaping,
           NEW unit \in Characters, NEW prefix \in Texts,
           IsReadBy(words, w, state.text, state.backslashes, prefix)
    PROVE  \E u \in Texts : IsReadBy(words, u, Escape(state, unit).text,
                                     Escape(state, unit).backslashes, prefix \o <<unit>>)
<1> DEFINE m == state.backslashes
           text == state.text
           held == Repeat(Backslash, m)
           u == w \o (held \o <<unit>>)
<1>1. m \in Nat /\ text \in Texts /\ <<unit>> \in Texts
  BY DEF Escaping, Texts
<1>2. held \in Texts /\ Repeat(Backslash, m + 1) = held \o <<Backslash>> /\ Repeat(Backslash, 0) = <<>>
  BY <1>1, Marks, Repeats
<1>3. /\ Reads(Between(words), text) = Quoted(words, w, 0)
      /\ w \o held = prefix
  BY DEF IsReadBy
<1> HIDE DEF held
<1>4. held \o <<unit>> \in Texts
  BY <1>1, <1>2, JoinTypes
<1>5. u \in Texts /\ u = prefix \o <<unit>> /\ u \o Repeat(Backslash, 0) = u
  <2>1. u \in Texts
    BY <1>4, JoinTypes
  <2>2. (w \o held) \o <<unit>> = u
    <3>1. Joins(w, held, <<unit>>)
      BY <1>1, <1>2, JoinAssociates
    <3> QED
      BY <3>1 DEF Joins
  <2>3. u \o <<>> = u
    BY <2>1, JoinEmpty
  <2> QED
    BY <1>2, <1>3, <2>1, <2>2, <2>3
<1>6. CASE unit = Backslash
  <2>1. Escape(state, unit).text = text /\ Escape(state, unit).backslashes = m + 1
    BY <1>6 DEF Escape
  <2>2. w \o Repeat(Backslash, m + 1) = prefix \o <<unit>>
    BY <1>2, <1>5, <1>6
  <2>3. IsReadBy(words, w, Escape(state, unit).text,
                 Escape(state, unit).backslashes, prefix \o <<unit>>)
    BY <1>3, <2>1, <2>2 DEF IsReadBy
  <2> QED
    BY <2>3
<1>7. ASSUME NEW j \in Nat, Escape(state, unit).text = text \o Repeat(Backslash, j) \o <<unit>>,
             Escape(state, unit).backslashes = 0,
             Read(Quoted(words, w, j), unit) = Quoted(words, u, 0)
      PROVE  IsReadBy(words, u, Escape(state, unit).text,
                      Escape(state, unit).backslashes, prefix \o <<unit>>)
  <2>2. Reads(Between(words), Escape(state, unit).text) = Quoted(words, u, 0)
    <3>1. Reads(Between(words), text \o Repeat(Backslash, j) \o <<unit>>)
             = Read(Quoted(words, w, j), unit)
      BY <1>1, <1>3, QuotedMore
    <3> QED
      BY <1>7, <3>1
  <2> HIDE DEF u
  <2> QED
    BY <1>5, <1>7, <2>2 DEF IsReadBy
<1>8. ASSUME NEW j \in Nat
      PROVE  /\ Quoted(words, w, j) \in Reading
             /\ Quoted(words, w, j).backslashes = j
             /\ Quoted(words, w, j).quoted = TRUE
             /\ Added(Quoted(words, w, j), held \o <<unit>>, TRUE) = Quoted(words, u, 0)
  BY States DEF Quoted, Added
<1>9. CASE unit = Quote
  <2> DEFINE j == 2 * m + 1
  <2>1. Escape(state, unit).text = text \o Repeat(Backslash, j) \o <<unit>>
        /\ Escape(state, unit).backslashes = 0
    BY <1>9, Marks DEF Escape
  <2>2. j \in Nat /\ j % 2 = 1 /\ j \div 2 = m
    BY <1>1
  <2> HIDE DEF j
  <2>3. Read(Quoted(words, w, j), unit)
          = Quoted(words, u, 0)
    <3> DEFINE i == Quoted(words, w, j)
    <3>1. i \in Reading /\ i.backslashes = j /\ i.quoted = TRUE
      BY <1>8, <2>2
    <3> HIDE DEF i
    <3>2. Read(i, unit) = Added(i, Repeat(Backslash, i.backslashes \div 2) \o <<Quote>>, i.quoted)
      BY <1>9, <2>2, <3>1, ReadCases
    <3>3. Read(i, unit) = Added(i, Repeat(Backslash, m) \o <<Quote>>, TRUE)
      BY <2>2, <3>1, <3>2
    <3> QED
      BY <1>8, <1>9, <2>2, <3>3 DEF held, i
  <2>4. IsReadBy(words, u, Escape(state, unit).text,
                      Escape(state, unit).backslashes, prefix \o <<unit>>)
    BY <1>7, <2>1, <2>2, <2>3
  <2> HIDE DEF u
  <2> QED
    BY <1>5, <2>4
<1>10. CASE unit \notin {Backslash, Quote}
  <2>1. Escape(state, unit).text = text \o Repeat(Backslash, m) \o <<unit>>
        /\ Escape(state, unit).backslashes = 0
    BY <1>10 DEF Escape
  <2>3. Read(Quoted(words, w, m), unit)
          = Quoted(words, u, 0)
    <3> DEFINE i == Quoted(words, w, m)
    <3>1. i \in Reading /\ i.backslashes = m /\ i.quoted = TRUE
      BY <1>1, <1>8
    <3> HIDE DEF i
    <3>2. Read(i, unit) = Added(i, Repeat(Backslash, i.backslashes) \o <<unit>>, i.quoted)
      BY <1>10, <3>1, ReadCases
    <3> QED
      BY <1>1, <1>8, <3>1, <3>2 DEF held, i
  <2>4. IsReadBy(words, u, Escape(state, unit).text,
                      Escape(state, unit).backslashes, prefix \o <<unit>>)
    BY <1>1, <1>7, <2>1, <2>3
  <2> HIDE DEF u
  <2> QED
    BY <1>5, <2>4
<1> QED
  BY <1>6, <1>9, <1>10

(* A quoted word is read as it was.                                          *)
LEMMA QuotedIsRead ==
    ASSUME NEW words \in Seq(Texts), NEW value \in Texts, NeedsQuotes(value)
    PROVE  /\ QuoteArgument(value) \in Texts
           /\ Reads(Between(words), QuoteArgument(value)) = Plain(words, value, 0)
<1> DEFINE n == Len(value)
           before(k) == SubSeq(value, 1, k)
<1>0. n \in Nat /\ (\A k \in 1..n : value[k] \in Characters) /\ <<>> \in Texts
  BY DEF Texts
<1>1. PICK v : v \in Escapes(value)
  BY EscapedUnfolds
<1>2. /\ v \in [0..n -> Escaping] /\ v[0] = [text |-> <<Quote>>, backslashes |-> 0]
      /\ \A k \in 1..n : v[k] = Escape(v[k - 1], value[k])
      /\ Escaped(value) = v[n]
  BY <1>1 DEF Escapes
<1> DEFINE S == {k \in 0..n : \E w \in Texts :
                    IsReadBy(words, w, v[k].text, v[k].backslashes, before(k))}
<1>3. 0 \in S
  <2>1. v[0].text = <<Quote>> /\ v[0].backslashes = 0
    BY <1>2
  <2> DEFINE start == Between(words)
  <2>2. start \in Reading
    BY <1>0, States
  <2>3. start.backslashes = 0 /\ start.quoted = FALSE /\ 0 % 2 = 0 /\ 0 \div 2 = 0
    BY DEF Between
  <2>4. Repeat(Backslash, 0) = <<>> /\ <<>> \o <<>> = <<>>
    BY <1>0, Marks, Repeats, JoinEmpty
  <2>5. Read(start, Quote) = Added(start, Repeat(Backslash, 0), TRUE)
    <3> HIDE DEF start
    <3>1. Read(start, Quote) = Added(start, Repeat(Backslash, start.backslashes \div 2), ~start.quoted)
      BY <2>2, <2>3, Marks, ReadCases
    <3> QED
      BY <2>3, <3>1
  <2>6. Added(start, <<>>, TRUE) = Quoted(words, <<>>, 0)
    BY <2>4 DEF Added, Between, Quoted
  <2>7. Reads(start, <<Quote>>) = Read(start, Quote)
    BY <2>2, Marks, ReadsOne
  <2>8. before(0) = <<>>
    BY Whole DEF Texts
  <2>9. IsReadBy(words, <<>>, v[0].text, v[0].backslashes, before(0))
    BY <2>1, <2>4, <2>5, <2>6, <2>7, <2>8 DEF IsReadBy
  <2> QED
    BY <1>0, <2>9
<1>4. ASSUME NEW k \in 1..n, k - 1 \in S PROVE k \in S
  <2>1. PICK w \in Texts : IsReadBy(words, w, v[k - 1].text, v[k - 1].backslashes, before(k - 1))
    BY <1>4
  <2>2. /\ k - 1 \in 0..n /\ k \in 0..n /\ v[k - 1] \in Escaping
        /\ v[k] = Escape(v[k - 1], value[k]) /\ value[k] \in Characters
    <3>1. k - 1 \in 0..n /\ k \in 0..n
      BY <1>0
    <3>2. v[k - 1] \in Escaping
      BY <1>2, <3>1
    <3> QED
      BY <1>0, <1>2, <3>1, <3>2
  <2>3. before(k) = before(k - 1) \o <<value[k]>> /\ before(k - 1) \in Texts
    <3>1. value \in Seq(Characters)
      BY DEF Texts
    <3>2. /\ before(k) = before(k - 1) \o <<value[k]>>
          /\ before(k - 1) \in Seq(Characters)
      BY <3>1, Beginnings
    <3> QED
      BY <3>2 DEF Texts
  <2> HIDE DEF before
  <2>4. \E u \in Texts : IsReadBy(words, u, v[k].text, v[k].backslashes, before(k))
    BY <2>1, <2>2, <2>3, QuotedStep
  <2> QED
    BY <2>2, <2>4
<1> HIDE DEF S
<1>5. 0..n \subseteq S
  BY <1>0, <1>3, <1>4, InductionTo
<1>6. PICK w \in Texts : IsReadBy(words, w, v[n].text, v[n].backslashes, before(n))
  <2>1. n \in S
    BY <1>0, <1>5
  <2> QED
    BY <2>1 DEF S
<1>7. before(n) = value
  BY Whole DEF Texts
<1> DEFINE m == v[n].backslashes
           text == v[n].text
           j == 2 * m
           held == Repeat(Backslash, m)
<1>8. m \in Nat /\ text \in Texts
  <2>1. v[n] \in Escaping
    BY <1>0, <1>2
  <2> QED
    BY <2>1 DEF Escaping
<1>9. QuoteArgument(value) = text \o Repeat(Backslash, j) \o <<Quote>>
  BY <1>2 DEF QuoteArgument
<1>10. j \in Nat /\ j % 2 = 0 /\ j \div 2 = m
  BY <1>8
<1>11. /\ Reads(Between(words), text) = Quoted(words, w, 0)
       /\ w \o held = value
  BY <1>6, <1>7 DEF IsReadBy
<1>12. held \in Texts
  BY <1>8, Marks, Repeats
<1> HIDE DEF m, text, j, held
<1>13. Read(Quoted(words, w, j), Quote) = Plain(words, value, 0)
  <2> DEFINE i == Quoted(words, w, j)
  <2>1. i \in Reading /\ i.backslashes = j /\ i.quoted = TRUE
    BY <1>10, States DEF Quoted
  <2>2. Added(i, held, FALSE) = Plain(words, value, 0)
    BY <1>11 DEF Added, Plain, Quoted
  <2> HIDE DEF i
  <2>3. Read(i, Quote) = Added(i, Repeat(Backslash, i.backslashes \div 2), ~i.quoted)
    BY <1>10, <2>1, Marks, ReadCases
  <2>4. Read(i, Quote) = Added(i, Repeat(Backslash, m), FALSE)
    BY <1>10, <2>1, <2>3
  <2> QED
    BY <2>2, <2>4 DEF held, i
<1>15. /\ text \o Repeat(Backslash, j) \o <<Quote>> \in Texts
       /\ Reads(Between(words), text \o Repeat(Backslash, j) \o <<Quote>>)
                = Read(Quoted(words, w, j), Quote)
  BY <1>8, <1>10, <1>11, Marks, QuotedMore
<1> QED
  BY <1>9, <1>13, <1>15

\* A word has been read up to the backslashes that are still held back.
IsPlain(state, words, w, m) ==
    /\ state \in Reading
    /\ state.words = words /\ state.word = w /\ state.backslashes = m /\ state.quoted = FALSE

\* Some word and the backslashes held back behind it are the beginning read so far.
IsPlainBy(state, words, prefix) ==
    \E w \in Texts, m \in Nat : IsPlain(state, words, w, m) /\ w \o Repeat(Backslash, m) = prefix

(* A unit that needs no quotes is read as it is.                             *)
LEMMA PlainStep ==
    ASSUME NEW words \in Seq(Texts), NEW state \in Reading, NEW prefix \in Texts,
           IsPlainBy(state, words, prefix), NEW unit \in Characters \ {Blank, Quote}
    PROVE  IsPlainBy(Read(state, unit), words, prefix \o <<unit>>) /\ Read(state, unit).begun
<1>0. PICK w \in Texts, m \in Nat : IsPlain(state, words, w, m) /\ w \o Repeat(Backslash, m) = prefix
  BY DEF IsPlainBy
<1> DEFINE held == Repeat(Backslash, m)
           u == w \o (held \o <<unit>>)
<1>1. held \in Texts /\ Repeat(Backslash, m + 1) = held \o <<Backslash>> /\ Repeat(Backslash, 0) = <<>>
  BY Marks, Repeats
<1>2. <<unit>> \in Texts
  BY DEF Texts
<1> HIDE DEF held
<1>3. held \o <<unit>> \in Texts
  BY <1>1, <1>2, JoinTypes
<1>4. u \in Texts /\ u \o <<>> = u
  BY <1>3, JoinTypes, JoinEmpty
<1>5. u = prefix \o <<unit>>
  <2>1. (w \o held) \o <<unit>> = u
    <3>1. Joins(w, held, <<unit>>)
      BY <1>1, <1>2, JoinAssociates
    <3> QED
      BY <3>1 DEF Joins
  <2> QED
    BY <1>0, <2>1 DEF held
<1>6. state.words = words /\ state.word = w /\ state.backslashes = m /\ state.quoted = FALSE
  BY <1>0 DEF IsPlain
<1>7. Read(state, unit) \in Reading
  BY ReadType
<1>8. CASE unit = Backslash
  <2>1. Read(state, unit) = [words |-> state.words, begun |-> TRUE, word |-> state.word,
                             backslashes |-> state.backslashes + 1, quoted |-> state.quoted]
    BY <1>8, ReadCases
  <2>2. IsPlain(Read(state, unit), words, w, m + 1) /\ Read(state, unit).begun
    BY <1>6, <1>7, <2>1 DEF IsPlain
  <2>3. w \o Repeat(Backslash, m + 1) = prefix \o <<unit>>
    BY <1>1, <1>5, <1>8
  <2> DEFINE n == m + 1
  <2>4. n \in Nat
    OBVIOUS
  <2> HIDE DEF n
  <2> QED
    BY <2>2, <2>3, <2>4 DEF n, IsPlainBy
<1>9. CASE unit # Backslash
  <2>1. Read(state, unit) = Added(state, held \o <<unit>>, state.quoted)
    BY <1>6, <1>9, ReadCases DEF held
  <2>2. IsPlain(Read(state, unit), words, u, 0) /\ Read(state, unit).begun
    BY <1>6, <1>7, <2>1 DEF IsPlain, Added
  <2>3. u \o Repeat(Backslash, 0) = prefix \o <<unit>>
    BY <1>1, <1>4, <1>5
  <2> HIDE DEF u
  <2> QED
    BY <1>4, <2>2, <2>3 DEF IsPlainBy
<1> QED
  BY <1>8, <1>9

(* A word that needs no quotes is read as it was.                            *)
LEMMA PlainIsRead ==
    ASSUME NEW words \in Seq(Texts), NEW value \in Texts, ~NeedsQuotes(value)
    PROVE  /\ IsPlainBy(Reads(Between(words), value), words, value)
           /\ Reads(Between(words), value).begun
<1> DEFINE n == Len(value)
           before(k) == SubSeq(value, 1, k)
           start == Between(words)
<1>0. /\ n \in Nat /\ <<>> \in Texts /\ value \in Seq(Characters)
      /\ \A k \in 1..n : value[k] \in Characters \ {Blank, Quote}
  BY DEF Texts, NeedsQuotes, Range
<1>1. n # 0
  BY EmptySeq DEF Texts, NeedsQuotes
<1>2. start \in Reading
  BY <1>0, States
<1> DEFINE S == {k \in 0..n : /\ IsPlainBy(Reads(start, before(k)), words, before(k))
                              /\ k > 0 => Reads(start, before(k)).begun}
<1>3. 0 \in S
  <2>1. before(0) = <<>>
    BY <1>0, Whole
  <2>2. Reads(start, <<>>) = start
    BY <1>2, Marks, ReadsOne
  <2>3. IsPlain(start, words, <<>>, 0)
    BY <1>2 DEF IsPlain, Between
  <2>4. <<>> \o Repeat(Backslash, 0) = <<>>
    BY <1>0, Marks, Repeats, JoinEmpty
  <2>5. IsPlainBy(start, words, <<>>)
    BY <1>0, <2>3, <2>4 DEF IsPlainBy
  <2> HIDE DEF before, start
  <2> QED
    BY <1>0, <2>1, <2>2, <2>5
<1>4. ASSUME NEW k \in 1..n, k - 1 \in S PROVE k \in S
  <2> DEFINE old == Reads(start, before(k - 1))
             prefix == before(k - 1)
             unit == value[k]
  <2>1. IsPlainBy(old, words, prefix)
    BY <1>4
  <2>2. k \in 0..n /\ k > 0 /\ unit \in Characters \ {Blank, Quote} /\ unit \in Characters
    BY <1>0
  <2>3. before(k) = prefix \o <<unit>> /\ prefix \in Texts
    <3>1. /\ before(k) = before(k - 1) \o <<value[k]>>
          /\ before(k - 1) \in Seq(Characters)
      BY <1>0, Beginnings
    <3> QED
      BY <3>1 DEF Texts
  <2> HIDE DEF before, start, prefix, unit, n
  <2>4. Reads(start, before(k)) = Read(old, unit)
    BY <1>2, <2>2, <2>3, ReadsMore DEF prefix
  <2>5. old \in Reading
    BY <1>2, <2>3, ReadsType DEF prefix
  <2> HIDE DEF old
  <2>6. IsPlainBy(Read(old, unit), words, prefix \o <<unit>>) /\ Read(old, unit).begun
    BY <2>1, <2>2, <2>3, <2>5, PlainStep
  <2> QED
    BY <2>2, <2>3, <2>4, <2>6
<1> HIDE DEF S
<1>5. 0..n \subseteq S
  BY <1>0, <1>3, <1>4, InductionTo
<1>6. n \in S
  BY <1>0, <1>5
<1>7. before(n) = value /\ n > 0
  BY <1>0, <1>1, Whole
<1> HIDE DEF before, start, n
<1> QED
  BY <1>6, <1>7 DEF start, S

(* Whatever the word, what quote_argument makes of it is read as that word.  *)
LEMMA WordIsRead ==
    ASSUME NEW words \in Seq(Texts), NEW value \in Texts
    PROVE  /\ QuoteArgument(value) \in Texts
           /\ Reads(Between(words), QuoteArgument(value)).quoted = FALSE
           /\ Ended(Reads(Between(words), QuoteArgument(value))) = Between(Append(words, value))
<1>1. CASE NeedsQuotes(value)
  <2>1. /\ QuoteArgument(value) \in Texts
        /\ Reads(Between(words), QuoteArgument(value)) = Plain(words, value, 0)
    BY <1>1, QuotedIsRead
  <2>2. Repeat(Backslash, 0) = <<>> /\ value \o <<>> = value
    BY Marks, Repeats, JoinEmpty
  <2>3. Ended(Plain(words, value, 0)) = Between(Append(words, value))
    BY <2>2 DEF Ended, Plain, Between, Unread
  <2> QED
    BY <2>1, <2>3 DEF Plain
<1>2. CASE ~NeedsQuotes(value)
  <2> DEFINE state == Reads(Between(words), value)
  <2>1. QuoteArgument(value) = value
    BY <1>2 DEF QuoteArgument
  <2>2. PICK w \in Texts, m \in Nat :
              IsPlain(state, words, w, m) /\ state.begun /\ w \o Repeat(Backslash, m) = value
    BY <1>2, PlainIsRead DEF IsPlainBy
  <2> HIDE DEF state
  <2>3. Ended(state) = Between(Append(words, value))
    BY <2>2 DEF Ended, IsPlain, Between, Unread
  <2>4. state.quoted = FALSE
    BY <2>2 DEF IsPlain
  <2> QED
    BY <2>1, <2>3, <2>4 DEF state
<1> QED
  BY <1>1, <1>2

-----------------------------------------------------------------------------
(* The whole line.                                                           *)

\* What the line has become after some of the words.
Lines(command) ==
    {v \in [0..Len(command) -> Texts] :
        /\ v[0] = <<>>
        /\ \A k \in 1..Len(command) : v[k] =
              v[k - 1] \o (IF v[k - 1] = <<>> THEN <<>> ELSE <<Blank>>) \o QuoteArgument(command[k])
        /\ Joined(command) = v[Len(command)]}

\* A command, a line of arguments: some words.
Sentences == Seq(Texts)

(* A line is joined word by word.                                            *)
LEMMA JoinedUnfolds ==
    ASSUME NEW command \in Sentences
    PROVE  \E v : v \in Lines(command)
<1> DEFINE n == Len(command)
           next(x, k) == x \o (IF x = <<>> THEN <<>> ELSE <<Blank>>) \o QuoteArgument(command[k])
           step == [k \in 1..n |-> [x \in Texts |-> next(x, k)]]
<1>1. n \in Nat /\ (\A k \in 1..n : command[k] \in Texts) /\ <<>> \in Texts /\ <<Blank>> \in Texts
  BY Marks DEF Texts, Sentences
<1>2. ASSUME NEW x \in Texts, NEW k \in 1..n PROVE next(x, k) \in Texts
  <2>1. <<>> \in Seq(Texts) /\ command[k] \in Texts
    BY <1>1
  <2>2. QuoteArgument(command[k]) \in Texts
    BY <2>1, WordIsRead
  <2>3. x \o (IF x = <<>> THEN <<>> ELSE <<Blank>>) \in Texts
    BY <1>1, JoinTypes
  <2> QED
    BY <2>2, <2>3, JoinTypes
<1>3. step \in [1..n -> [Texts -> Texts]]
  <2> HIDE DEF next
  <2> QED
    BY <1>2
<1>4. PICK f \in [0..n -> Texts] : f[0] = <<>> /\ \A k \in 1..n : f[k] = step[k][f[k - 1]]
  <2> DEFINE first == <<>>
             V == Texts
  <2>1. first \in V /\ n \in Nat /\ step \in [1..n -> [V -> V]]
    BY <1>1, <1>3
  <2> HIDE DEF step, n, first, V
  <2>2. \E f \in [0..n -> V] : f[0] = first /\ \A k \in 1..n : f[k] = step[k][f[k - 1]]
    BY <2>1, RecursionTo
  <2> QED
    BY <2>2 DEF first, V
<1>5. ASSUME NEW k \in 1..n PROVE f[k] = next(f[k - 1], k)
  <2>1. k - 1 \in 0..n
    BY <1>1
  <2> HIDE DEF next
  <2> QED
    BY <1>4, <2>1
<1>6. f = [k \in 0..n |-> IF k = 0 THEN <<>> ELSE next(f[k - 1], k)]
  <2> HIDE DEF next
  <2>1. \A k \in 0..n : f[k] = IF k = 0 THEN <<>> ELSE next(f[k - 1], k)
    BY <1>1, <1>4, <1>5
  <2> QED
    BY <1>4, <2>1
<1>7. PICK v :
        /\ v = [k \in 0..n |-> IF k = 0 THEN <<>> ELSE next(v[k - 1], k)]
        /\ Joined(command) = v[n]
  BY <1>6 DEF Joined
<1> HIDE DEF next
<1>8. v[0] = <<>> /\ \A k \in 1..n : v[k] = next(v[k - 1], k)
  <2> DEFINE to(k) == IF k = 0 THEN <<>> ELSE next(v[k - 1], k)
  <2>1. v = [k \in 0..n |-> to(k)]
    BY <1>7
  <2> HIDE DEF to
  <2>2. \A k \in 0..n : v[k] = to(k)
    BY <2>1
  <2> QED
    BY <1>1, <2>2 DEF to
<1>9. \A k \in 0..n : v[k] \in Texts
  <2> DEFINE S == {k \in 0..n : v[k] \in Texts}
  <2>1. 0 \in S
    BY <1>1, <1>8
  <2>2. ASSUME NEW k \in 1..n, k - 1 \in S PROVE k \in S
    BY <1>1, <1>2, <1>8, <2>2
  <2> HIDE DEF S
  <2>3. 0..n \subseteq S
    BY <1>1, <2>1, <2>2, InductionTo
  <2> QED
    BY <2>3 DEF S
<1>10. v \in [0..n -> Texts]
  BY <1>7, <1>9
<1> QED
  BY <1>7, <1>8, <1>10 DEF Lines, next

\* A name that CreateProcessW finds a file for.
IsProgram(word) == word \in Texts /\ NamesFile(word)

(* What quote_argument makes of a program's name.                            *)
LEMMA ProgramQuoted ==
    ASSUME NEW p, IsProgram(p)
    PROVE  /\ Blank \notin Range(p) => QuoteArgument(p) = p
           /\ Blank \in Range(p) => QuoteArgument(p) = (<<Quote>> \o p) \o <<Quote>>
<1> DEFINE n == Len(p)
           before(k) == SubSeq(p, 1, k)
<1>0. /\ p \in Texts /\ p \in Seq(Characters) /\ n \in Nat /\ p[n] # Backslash /\ <<>> \in Texts
      /\ <<Quote>> \in Texts /\ (\A k \in 1..n : p[k] \in Characters /\ p[k] # Quote)
  BY Marks DEF IsProgram, NamesFile, Texts, Range
<1>1. n # 0
  BY <1>0, EmptySeq DEF IsProgram, NamesFile
<1>2. ASSUME Blank \notin Range(p) PROVE QuoteArgument(p) = p
  BY <1>2 DEF QuoteArgument, NeedsQuotes, IsProgram, NamesFile
<1>3. ASSUME Blank \in Range(p) PROVE QuoteArgument(p) = (<<Quote>> \o p) \o <<Quote>>
  <2>1. PICK v : v \in Escapes(p)
    BY <1>0, EscapedUnfolds
  <2>2. /\ v \in [0..n -> Escaping] /\ v[0] = [text |-> <<Quote>>, backslashes |-> 0]
        /\ \A k \in 1..n : v[k] = Escape(v[k - 1], p[k])
        /\ Escaped(p) = v[n]
    BY <2>1 DEF Escapes
  <2> DEFINE S == {k \in 0..n : v[k].text \o Repeat(Backslash, v[k].backslashes)
                                   = <<Quote>> \o before(k)}
  <2>3. 0 \in S
    <3>1. v[0].text = <<Quote>> /\ v[0].backslashes = 0 /\ 0 \in 0..n
      BY <1>0, <2>2
    <3>2. Repeat(Backslash, 0) = <<>> /\ before(0) = <<>>
      BY <1>0, Marks, Repeats, Whole
    <3> QED
      BY <3>1, <3>2
  <2>4. ASSUME NEW k \in 1..n, k - 1 \in S PROVE k \in S
    <3> DEFINE old == v[k - 1]
               unit == p[k]
               m == old.backslashes
               held == Repeat(Backslash, m)
               text == old.text
    <3>1. /\ k - 1 \in 0..n /\ k \in 0..n /\ old \in Escaping /\ v[k] = Escape(old, unit)
          /\ unit \in Characters /\ unit # Quote
      BY <1>0, <2>2
    <3>2. m \in Nat /\ text \in Texts /\ <<unit>> \in Texts
      BY <3>1 DEF Escaping, Texts
    <3>3. /\ held \in Texts /\ Repeat(Backslash, m + 1) = held \o <<Backslash>>
          /\ Repeat(Backslash, 0) = <<>>
      BY <3>2, Marks, Repeats
    <3>4. before(k) = before(k - 1) \o <<unit>> /\ before(k - 1) \in Texts
      <4>1. /\ before(k) = before(k - 1) \o <<unit>>
            /\ before(k - 1) \in Seq(Characters)
        BY <1>0, Beginnings
      <4> QED
        BY <4>1 DEF Texts
    <3>5. text \o held = <<Quote>> \o before(k - 1)
      BY <2>4
    <3>6. CASE unit = Backslash
      <4>1. v[k].text = text /\ v[k].backslashes = m + 1
        BY <3>1, <3>6 DEF Escape
      <4> HIDE DEF text, held, m, old, unit, before
      <4>2. v[k].text \o Repeat(Backslash, v[k].backslashes) = text \o (held \o <<unit>>)
        BY <3>3, <3>6, <4>1
      <4>3. text \o (held \o <<unit>>) = (text \o held) \o <<unit>>
        <5>1. Joins(text, held, <<unit>>)
          BY <3>2, <3>3, JoinAssociates
        <5> QED
          BY <5>1 DEF Joins
      <4>4. (<<Quote>> \o before(k - 1)) \o <<unit>> = <<Quote>> \o (before(k - 1) \o <<unit>>)
        <5>1. Joins(<<Quote>>, before(k - 1), <<unit>>)
          BY <1>0, <3>2, <3>4, JoinAssociates
        <5> QED
          BY <5>1 DEF Joins
      <4> QED
        BY <3>1, <3>4, <3>5, <4>2, <4>3, <4>4
    <3>7. CASE unit # Backslash
      <4>1. v[k].text = text \o held \o <<unit>> /\ v[k].backslashes = 0
        <5> HIDE DEF old, unit
        <5> DEFINE longer == old.text \o Repeat(Backslash, old.backslashes) \o <<unit>>
        <5>1. Escape(old, unit) = [text |-> longer, backslashes |-> 0]
          BY <3>1, <3>7 DEF Escape
        <5>2. v[k].text = longer /\ v[k].backslashes = 0
          <6> HIDE DEF longer
          <6> QED
            BY <3>1, <5>1
        <5> QED
          BY <5>2 DEF text, held, m
      <4> HIDE DEF text, held, m, old, unit, before
      <4>2. (text \o held) \o <<unit>> \in Texts
        BY <3>2, <3>3, JoinTypes
      <4>3. v[k].text \o Repeat(Backslash, v[k].backslashes) = (text \o held) \o <<unit>>
        BY <3>3, <4>1, <4>2, JoinEmpty
      <4>4. (<<Quote>> \o before(k - 1)) \o <<unit>> = <<Quote>> \o (before(k - 1) \o <<unit>>)
        <5>1. Joins(<<Quote>>, before(k - 1), <<unit>>)
          BY <1>0, <3>2, <3>4, JoinAssociates
        <5> QED
          BY <5>1 DEF Joins
      <4> QED
        BY <3>1, <3>4, <3>5, <4>3, <4>4
    <3> QED
      BY <3>6, <3>7
  <2> HIDE DEF S
  <2>5. 0..n \subseteq S
    BY <1>0, <2>3, <2>4, InductionTo
  <2>6. v[n].text \o Repeat(Backslash, v[n].backslashes) = <<Quote>> \o p
    <3>1. n \in S /\ before(n) = p
      BY <1>0, <2>5, Whole
    <3> QED
      BY <3>1 DEF S
  <2>7. v[n].backslashes = 0 /\ v[n].text \in Texts
    <3>1. n \in 1..n /\ v[n] \in Escaping
      BY <1>0, <1>1, <2>2
    <3>2. v[n] = Escape(v[n - 1], p[n])
      BY <2>2, <3>1
    <3> QED
      BY <1>0, <3>1, <3>2 DEF Escape, Escaping
  <2>8. Repeat(Backslash, 0) = <<>>
    BY Marks, Repeats
  <2>9. v[n].text = <<Quote>> \o p
    BY <2>6, <2>7, <2>8, JoinEmpty
  <2>10. QuoteArgument(p) = v[n].text \o Repeat(Backslash, 2 * v[n].backslashes) \o <<Quote>>
    BY <1>3, <2>2 DEF QuoteArgument, NeedsQuotes
  <2>11. 2 * v[n].backslashes = 0
    BY <2>7
  <2> QED
    BY <2>7, <2>8, <2>9, <2>10, <2>11, JoinEmpty
<1> QED
  BY <1>2, <1>3

\* The words behind the program, as far as the line has got.
IsTail(command, k, tail) ==
    /\ tail \in Texts
    /\ Reads(Unread, tail).quoted = FALSE
    /\ Ended(Reads(Unread, tail)) = Between(SubSeq(command, 2, k))

\* The line's first part, and what follows it.
IsLine(command, k, line, tail) ==
    \/ k = 1 /\ tail = <<>> /\ line = QuoteArgument(command[1])
    \/ line = QuoteArgument(command[1]) \o (<<Blank>> \o tail)

(* A further word of the line is a further word that is read.                *)
LEMMA TailGrows ==
    ASSUME NEW command \in Sentences, NEW k \in Nat, k >= 1, k + 1 <= Len(command),
           NEW line \in Texts, NEW tail \in Texts,
           IsTail(command, k, tail), IsLine(command, k, line, tail)
    PROVE  \E more \in Texts :
              /\ IsTail(command, k + 1, more)
              /\ IsLine(command, k + 1, line \o <<Blank>> \o QuoteArgument(command[k + 1]), more)
<1> DEFINE word == command[k + 1]
           added == QuoteArgument(word)
           words == SubSeq(command, 2, k)
           first == QuoteArgument(command[1])
           blank == <<Blank>>
<1>1. /\ command \in Seq(Texts) /\ word \in Texts /\ command[1] \in Texts /\ blank \in Texts
      /\ \A i \in 1..Len(command) : command[i] \in Texts
  BY Marks DEF Sentences, Texts
<1>2. words \in Seq(Texts) /\ SubSeq(command, 2, k + 1) = Append(words, word)
  <2>1. \A i \in 2..k : command[i] \in Texts
    BY <1>1
  <2>2. /\ words \in Seq(Texts) /\ Len(words) = k - 1
        /\ \A i \in 1..(k - 1) : words[i] = command[i + 1]
    <3>1. /\ words \in Seq(Texts)
          /\ Len(words) = IF 2 <= k THEN k - 2 + 1 ELSE 0
          /\ \A i \in 1..(k - 2 + 1) : words[i] = command[2 + i - 1]
      BY <2>1, SubSeqProperties
    <3>2. (IF 2 <= k THEN k - 2 + 1 ELSE 0) = k - 1 /\ k - 2 + 1 = k - 1
      OBVIOUS
    <3>3. \A i \in 1..(k - 1) : 2 + i - 1 = i + 1
      OBVIOUS
    <3> QED
      BY <3>1, <3>2, <3>3
  <2> DEFINE longer == SubSeq(command, 2, k + 1)
  <2>3. /\ longer \in Seq(Texts) /\ Len(longer) = k
        /\ \A i \in 1..k : longer[i] = command[i + 1]
    <3>0. k + 1 \in Int /\ \A i \in 2..(k + 1) : command[i] \in Texts
      BY <1>1
    <3>1. /\ longer \in Seq(Texts)
          /\ Len(longer) = IF 2 <= k + 1 THEN (k + 1) - 2 + 1 ELSE 0
          /\ \A i \in 1..((k + 1) - 2 + 1) : longer[i] = command[2 + i - 1]
      BY <3>0, SubSeqProperties
    <3>2. (IF 2 <= k + 1 THEN (k + 1) - 2 + 1 ELSE 0) = k /\ (k + 1) - 2 + 1 = k
      OBVIOUS
    <3>3. \A i \in 1..k : 2 + i - 1 = i + 1
      OBVIOUS
    <3> QED
      BY <3>1, <3>2, <3>3
  <2> HIDE DEF longer, words, word
  <2>4. /\ Append(words, word) \in Seq(Texts) /\ Len(Append(words, word)) = k
        /\ \A i \in 1..k : Append(words, word)[i] = IF i <= k - 1 THEN words[i] ELSE word
    <3>1. /\ Append(words, word) \in Seq(Texts) /\ Len(Append(words, word)) = Len(words) + 1
          /\ \A i \in 1..Len(words) : Append(words, word)[i] = words[i]
          /\ Append(words, word)[Len(words) + 1] = word
      BY <1>1, <2>2, AppendProperties
    <3> QED
      BY <2>2, <3>1
  <2>5. \A i \in 1..k : Append(words, word)[i] = longer[i]
    <3>1. \A i \in 1..k : i <= k - 1 => words[i] = longer[i]
      BY <2>2, <2>3
    <3>2. \A i \in 1..k : ~(i <= k - 1) => word = longer[i]
      <4> SUFFICES ASSUME NEW i \in 1..k, ~(i <= k - 1) PROVE word = longer[i]
        OBVIOUS
      <4>1. i = k
        OBVIOUS
      <4> QED
        BY <2>3, <4>1 DEF word
    <3> QED
      BY <2>4, <3>1, <3>2
  <2>6. Append(words, word) = longer
    BY <2>3, <2>4, <2>5, SeqEqual
  <2> QED
    BY <2>2, <2>6 DEF longer
<1>3. /\ added \in Texts /\ first \in Texts
      /\ Reads(Between(words), added).quoted = FALSE
      /\ Ended(Reads(Between(words), added)) = Between(Append(words, word))
  <2>1. <<>> \in Seq(Texts)
    OBVIOUS
  <2> HIDE DEF words, word
  <2> QED
    BY <1>1, <1>2, <2>1, WordIsRead
<1>4. Unread \in Reading /\ Unread = Between(<<>>) /\ Unread.quoted = FALSE /\ Ended(Unread) = Unread
  <2>1. Unread \in Reading
    BY JoinEmpty DEF Unread, Reading
  <2> QED
    BY <2>1 DEF Unread, Between, Ended
<1>5. /\ Reads(Unread, tail).quoted = FALSE
      /\ Ended(Reads(Unread, tail)) = Between(words)
  BY DEF IsTail
<1>6. CASE k = 1 /\ tail = <<>> /\ line = first
  <2>1. words = <<>>
    <3>1. Reads(Unread, <<>>) = Unread
      BY <1>4, Marks, ReadsOne
    <3>2. Between(words) = Between(<<>>)
      BY <1>4, <1>5, <1>6, <3>1
    <3> HIDE DEF words
    <3> QED
      BY <3>2 DEF Between
  <2>2. IsTail(command, k + 1, added)
    <3> HIDE DEF words, added, word
    <3> QED
      BY <1>2, <1>3, <1>4, <2>1 DEF IsTail
  <2>3. line \o blank \o added = first \o (blank \o added)
    <3> HIDE DEF added, first, blank
    <3>1. first \in Texts /\ blank \in Texts /\ added \in Texts
      BY <1>1, <1>3
    <3>2. (first \o blank) \o added = first \o (blank \o added)
      <4>1. Joins(first, blank, added)
        BY <3>1, JoinAssociates
      <4> QED
        BY <4>1 DEF Joins
    <3> QED
      BY <1>6, <3>2
  <2>4. IsLine(command, k + 1, line \o blank \o added, added)
    BY <2>3 DEF IsLine
  <2> QED
    BY <1>3, <2>2, <2>4
<1>7. CASE line = first \o (blank \o tail)
  <2> DEFINE more == tail \o (blank \o added)
  <2> HIDE DEF words, word, added, first, blank
  <2>1. blank \o added \in Texts /\ more \in Texts /\ blank \o tail \in Texts
    BY <1>1, <1>3, JoinTypes
  <2>2. Reads(Unread, more) = Reads(Between(words), added)
    <3> DEFINE state == Reads(Unread, tail)
    <3>1. state \in Reading
      BY <1>4, ReadsType
    <3>2. Reads(Unread, more) = Reads(state, blank \o added)
      BY <1>4, <2>1, ReadsJoin
    <3>3. Reads(state, blank \o added) = Reads(Reads(state, blank), added)
      <4> HIDE DEF state
      <4> QED
        BY <1>1, <1>3, <3>1, ReadsJoin
    <3>4. Reads(state, blank) = Read(state, Blank)
      <4> HIDE DEF state
      <4> QED
        BY <3>1, Marks, ReadsOne DEF blank
    <3>5. Read(state, Blank) = Ended(state)
      <4>1. state.quoted = FALSE
        BY <1>5
      <4> HIDE DEF state
      <4> QED
        BY <3>1, <4>1, Marks, ReadCases
    <3> QED
      BY <1>5, <3>2, <3>3, <3>4, <3>5
  <2>3. IsTail(command, k + 1, more)
    <3> HIDE DEF more
    <3> QED
      BY <1>2, <1>3, <2>1, <2>2 DEF IsTail
  <2>4. line \o blank \o added = first \o (blank \o more)
    <3>1. first \in Texts /\ blank \in Texts /\ tail \in Texts /\ added \in Texts
      BY <1>1, <1>3
    <3>2. Joins(line, blank, added)
      BY <1>3, <3>1, JoinAssociates
    <3>3. Joins(first, blank \o tail, blank \o added) /\ Joins(blank, tail, blank \o added)
      BY <2>1, <3>1, JoinAssociates
    <3> QED
      BY <1>7, <3>2, <3>3 DEF Joins, more
  <2>5. IsLine(command, k + 1, line \o blank \o added, more)
    <3> HIDE DEF more
    <3> QED
      BY <2>4 DEF IsLine, first, blank
  <2> HIDE DEF more
  <2> QED
    BY <2>1, <2>3, <2>5 DEF word, added, blank
<1>8. \/ k = 1 /\ tail = <<>> /\ line = first
      \/ line = first \o (blank \o tail)
  BY DEF IsLine
<1> QED
  BY <1>6, <1>7, <1>8

(* The program's name at the front of the line.                              *)
LEMMA ProgramShape ==
    ASSUME NEW p, IsProgram(p)
    PROVE  /\ p \in Texts /\ Len(p) \in Nat /\ Len(p) >= 1
           /\ \A k \in 1..Len(p) : p[k] # Quote /\ (Blank \notin Range(p) => p[k] # Blank)
           /\ QuoteArgument(p) \in Texts /\ Len(QuoteArgument(p)) >= 1
           /\ Blank \in Range(p) =>
                 /\ Len(QuoteArgument(p)) = Len(p) + 2
                 /\ QuoteArgument(p)[1] = Quote /\ QuoteArgument(p)[Len(p) + 2] = Quote
                 /\ \A k \in 1..Len(p) : QuoteArgument(p)[1 + k] = p[k]
<1>1. /\ p \in Texts /\ Len(p) \in Nat /\ <<>> \in Seq(Texts) /\ <<Quote>> \in Texts
      /\ \A k \in 1..Len(p) : p[k] # Quote /\ (Blank \notin Range(p) => p[k] # Blank)
  BY Marks DEF IsProgram, NamesFile, Texts, Range
<1>2. Len(p) >= 1
  BY <1>1, EmptySeq DEF IsProgram, NamesFile, Texts
<1>3. QuoteArgument(p) \in Texts
  BY <1>1, WordIsRead
<1>4. ASSUME Blank \in Range(p)
      PROVE  /\ Len(QuoteArgument(p)) = Len(p) + 2
             /\ QuoteArgument(p)[1] = Quote /\ QuoteArgument(p)[Len(p) + 2] = Quote
             /\ \A k \in 1..Len(p) : QuoteArgument(p)[1 + k] = p[k]
  <2> DEFINE q == <<Quote>>
             a == q \o p
             b == a \o q
  <2>1. QuoteArgument(p) = b
    BY <1>4, ProgramQuoted
  <2>2. q \in Texts /\ Len(q) = 1 /\ q[1] = Quote
    BY <1>1
  <2> HIDE DEF q
  <2>3. /\ a \in Texts /\ Len(a) = Len(q) + Len(p)
        /\ (\A k \in 1..Len(q) : a[k] = q[k])
        /\ \A k \in 1..Len(p) : a[Len(q) + k] = p[k]
    BY <1>1, <2>2, TextsJoin
  <2> HIDE DEF a
  <2>4. /\ b \in Texts /\ Len(b) = Len(a) + Len(q)
        /\ (\A k \in 1..Len(a) : b[k] = a[k])
        /\ \A k \in 1..Len(q) : b[Len(a) + k] = q[k]
    <3>1. a \in Texts /\ q \in Texts
      BY <2>2, <2>3
    <3> QED
      BY <3>1, TextsJoin
  <2> HIDE DEF b
  <2>5. Len(a) = Len(p) + 1 /\ Len(b) = Len(p) + 2
    BY <1>1, <2>2, <2>3, <2>4
  <2>6. b[1] = Quote
    <3>1. 1 \in 1..Len(a) /\ 1 \in 1..Len(q)
      BY <1>1, <2>2, <2>5
    <3> QED
      BY <2>2, <2>3, <2>4, <3>1
  <2>7. b[Len(p) + 2] = Quote
    <3>1. Len(a) + 1 = Len(p) + 2 /\ 1 \in 1..Len(q)
      BY <1>1, <2>2, <2>5
    <3> QED
      BY <2>2, <2>4, <3>1
  <2>8. ASSUME NEW k \in 1..Len(p) PROVE b[1 + k] = p[k]
    <3>1. 1 + k \in 1..Len(a)
      BY <1>1, <2>5
    <3>2. a[1 + k] = p[k]
      BY <2>2, <2>3
    <3> QED
      BY <2>4, <3>1, <3>2
  <2> QED
    BY <2>1, <2>5, <2>6, <2>7, <2>8
<1>5. Len(QuoteArgument(p)) >= 1
  <2>1. CASE Blank \in Range(p)
    BY <1>1, <1>4, <2>1
  <2>2. CASE Blank \notin Range(p)
    BY <1>2, <2>2, ProgramQuoted
  <2> QED
    BY <2>1, <2>2
<1> QED
  BY <1>1, <1>2, <1>3, <1>4, <1>5

(* A part of a text.                                                         *)
LEMMA Slice ==
    ASSUME NEW s \in Texts, NEW b \in Texts, NEW m \in Nat, m + Len(b) <= Len(s),
           \A k \in 1..Len(b) : s[m + k] = b[k]
    PROVE  SubSeq(s, m + 1, m + Len(b)) = b
<1> DEFINE first == m + 1
           last == m + Len(b)
           t == SubSeq(s, first, last)
<1>1. /\ Len(b) \in Nat /\ Len(s) \in Nat /\ b \in Seq(Characters)
      /\ \A i \in 1..Len(s) : s[i] \in Characters
  BY DEF Texts
<1>2. first \in Int /\ last \in Int /\ \A i \in first..last : s[i] \in Characters
  BY <1>1
<1>3. /\ t \in Seq(Characters)
      /\ Len(t) = IF first <= last THEN last - first + 1 ELSE 0
      /\ \A i \in 1..(last - first + 1) : t[i] = s[first + i - 1]
  <2> HIDE DEF first, last
  <2> QED
    BY <1>2, SubSeqProperties
<1>4. (IF first <= last THEN last - first + 1 ELSE 0) = Len(b) /\ last - first + 1 = Len(b)
  BY <1>1
<1>5. \A k \in 1..Len(b) : first + k - 1 = m + k
  OBVIOUS
<1>6. t \in Seq(Characters) /\ Len(t) = Len(b) /\ \A k \in 1..Len(b) : t[k] = b[k]
  BY <1>3, <1>4, <1>5
<1> HIDE DEF t
<1>7. t = b
  BY <1>1, <1>6, SeqEqual
<1> QED
  BY <1>7 DEF t

(* The program ends where its name does, and the words follow.               *)
LEMMA LineRead ==
    ASSUME NEW p, IsProgram(p), NEW r \in Texts, NEW tail \in Texts,
           (r = <<>> /\ tail = <<>>) \/ r = <<Blank>> \o tail
    PROVE  ToArgv(QuoteArgument(p) \o r) = <<p>> \o WordsOf(tail)
<1> DEFINE q == QuoteArgument(p)
           line == q \o r
           n == Len(p)
<1>1. /\ p \in Texts /\ n \in Nat /\ n >= 1
      /\ \A k \in 1..n : p[k] # Quote /\ (Blank \notin Range(p) => p[k] # Blank)
  BY ProgramShape
<1>2. q \in Texts /\ Len(q) \in Nat /\ Len(q) >= 1 /\ Len(r) \in Nat /\ Len(tail) \in Nat
  BY ProgramShape DEF Texts
<1>3. /\ line \in Texts /\ Len(line) = Len(q) + Len(r)
      /\ (\A k \in 1..Len(q) : line[k] = q[k])
      /\ \A k \in 1..Len(r) : line[Len(q) + k] = r[k]
  <2> HIDE DEF q
  <2> QED
    BY <1>2, TextsJoin
<1>4. \/ r = <<>> /\ tail = <<>> /\ Len(r) = 0
      \/ /\ r = <<Blank>> \o tail /\ Len(r) = 1 + Len(tail) /\ r[1] = Blank
         /\ \A k \in 1..Len(tail) : r[1 + k] = tail[k]
  <2> DEFINE blank == <<Blank>>
  <2>1. blank \in Texts /\ Len(blank) = 1 /\ blank[1] = Blank
    BY Marks DEF Texts
  <2>2. /\ Len(blank \o tail) = Len(blank) + Len(tail)
        /\ (\A k \in 1..Len(blank) : (blank \o tail)[k] = blank[k])
        /\ \A k \in 1..Len(tail) : (blank \o tail)[Len(blank) + k] = tail[k]
    <3> HIDE DEF blank
    <3> QED
      BY <2>1, TextsJoin
  <2>3. r = <<>> => Len(r) = 0
    OBVIOUS
  <2> HIDE DEF blank
  <2>4. (r = <<>> /\ tail = <<>>) \/ r = blank \o tail
    BY DEF blank
  <2>5. /\ Len(blank \o tail) = 1 + Len(tail) /\ (blank \o tail)[1] = Blank
        /\ \A k \in 1..Len(tail) : (blank \o tail)[1 + k] = tail[k]
    BY <1>2, <2>1, <2>2
  <2> QED
    BY <2>3, <2>4, <2>5 DEF blank
<1>5. Unread \in Reading /\ Unread.quoted = FALSE /\ Ended(Unread) = Unread
  <2>1. Unread \in Reading
    BY JoinEmpty DEF Unread, Reading
  <2> QED
    BY <2>1 DEF Unread, Ended
<1>6. WordsOf(r) = WordsOf(tail)
  <2>1. CASE r = tail
    BY <2>1
  <2>2. CASE r = <<Blank>> \o tail
    <3> DEFINE blank == <<Blank>>
    <3>1. blank \in Texts /\ Reads(Unread, blank) = Read(Unread, Blank)
      BY <1>5, Marks, ReadsOne DEF Texts
    <3>2. Read(Unread, Blank) = Unread
      BY <1>5, Marks, ReadCases
    <3> HIDE DEF blank
    <3>3. Reads(Unread, blank \o tail) = Reads(Reads(Unread, blank), tail)
      BY <1>5, <3>1, ReadsJoin
    <3>4. Reads(Unread, r) = Reads(Unread, tail)
      BY <2>2, <3>1, <3>2, <3>3 DEF blank
    <3> QED
      BY <3>4 DEF WordsOf
  <2> QED
    BY <2>1, <2>2
<1>7. CASE Blank \notin Range(p)
  <2>1. q = p /\ Len(q) = n
    BY <1>7, ProgramQuoted
  <2>2. 1 \in 1..n /\ line[1] # Quote
    BY <1>1, <1>3, <2>1
  <2> DEFINE ends == {i \in 1..Len(line) : line[i] = Blank} \cup {Len(line) + 1}
             x == n + 1
  <2> HIDE DEF q, line
  <2>3. x \in ends
    <3>1. CASE Len(r) = 0
      BY <1>1, <1>3, <2>1, <3>1
    <3>2. CASE Len(r) = 1 + Len(tail) /\ r[1] = Blank
      <4>1. 1 \in 1..Len(r) /\ n + 1 \in 1..Len(line)
        BY <1>1, <1>2, <1>3, <2>1, <3>2
      <4>2. line[n + 1] = Blank
        BY <1>3, <2>1, <3>2, <4>1
      <4> QED
        BY <4>1, <4>2
    <3> QED
      BY <1>4, <3>1, <3>2
  <2>4. ASSUME NEW y \in ends PROVE x <= y
    <3> SUFFICES ASSUME y \in Nat, y >= 1, y <= n PROVE FALSE
      BY <1>1, <1>2, <1>3, <2>1
    <3>1. y \in 1..n /\ y # Len(line) + 1
      BY <1>1, <1>2, <1>3, <2>1
    <3>2. line[y] = Blank
      BY <3>1
    <3>3. line[y] = p[y]
      BY <1>3, <2>1, <3>1
    <3> QED
      BY <1>1, <1>7, <3>1, <3>2, <3>3
  <2>5. ends \subseteq Int
    BY <1>2, <1>3
  <2>6. Min(ends) = x
    <3> HIDE DEF ends, x
    <3> QED
      BY <2>3, <2>4, <2>5, LeastIs
  <2>7. ProgramEnd(line) = x
    BY <2>2, <2>6 DEF ProgramEnd
  <2>8. SubSeq(line, 1, x - 1) = p
    <3>1. SubSeq(line, 0 + 1, 0 + Len(p)) = p
      <4>1. 0 + Len(p) <= Len(line) /\ \A k \in 1..Len(p) : line[0 + k] = p[k]
        BY <1>1, <1>2, <1>3, <2>1
      <4> QED
        BY <1>1, <1>3, <4>1, Slice
    <3>2. 0 + 1 = 1 /\ 0 + Len(p) = x - 1
      BY <1>1
    <3> HIDE DEF x
    <3> QED
      BY <3>1, <3>2
  <2>9. SubSeq(line, x + 1, Len(line)) = tail
    <3>1. CASE r = <<>> /\ tail = <<>> /\ Len(r) = 0
      <4>1. Len(line) < x + 1 /\ Len(line) \in Int /\ x + 1 \in Int
        BY <1>1, <1>2, <1>3, <2>1, <3>1
      <4> HIDE DEF x
      <4> QED
        BY <3>1, <4>1, SubSeqEmpty
    <3>2. CASE Len(r) = 1 + Len(tail) /\ \A k \in 1..Len(tail) : r[1 + k] = tail[k]
      <4>1. x \in Nat /\ x + Len(tail) <= Len(line) /\ x + Len(tail) = Len(line)
        BY <1>1, <1>2, <1>3, <2>1, <3>2
      <4>2. ASSUME NEW k \in 1..Len(tail) PROVE line[x + k] = tail[k]
        <5>1. 1 + k \in 1..Len(r) /\ n + (1 + k) = x + k
          BY <1>1, <1>2, <3>2
        <5> QED
          BY <1>3, <2>1, <3>2, <5>1
      <4> HIDE DEF x
      <4>3. SubSeq(line, x + 1, x + Len(tail)) = tail
        BY <1>3, <4>1, <4>2, Slice
      <4> QED
        BY <4>1, <4>3
    <3> QED
      BY <1>4, <3>1, <3>2
  <2> HIDE DEF x
  <2>10. ToArgv(line) = <<p>> \o WordsOf(tail)
    BY <2>2, <2>7, <2>8, <2>9 DEF ToArgv
  <2> QED
    BY <2>10 DEF line, q
<1>8. CASE Blank \in Range(p)
  <2>1. /\ Len(q) = n + 2 /\ q[1] = Quote /\ q[n + 2] = Quote
        /\ \A k \in 1..n : q[1 + k] = p[k]
    BY <1>8, ProgramShape
  <2> DEFINE ends == {i \in 2..Len(line) : line[i] = Quote}
             x == n + 2
  <2> HIDE DEF q, line
  <2>2. line[1] = Quote
    <3>1. 1 \in 1..Len(q)
      BY <1>1, <2>1
    <3> QED
      BY <1>3, <2>1, <3>1
  <2>3. x \in ends
    <3>1. x \in 1..Len(q) /\ x \in 2..Len(line)
      BY <1>1, <1>2, <1>3, <2>1
    <3> QED
      BY <1>3, <2>1, <3>1
  <2>4. ASSUME NEW y \in ends PROVE x <= y
    <3> SUFFICES ASSUME y \in Nat, y >= 2, y <= n + 1 PROVE FALSE
      BY <1>1, <1>2, <1>3, <2>1
    <3> DEFINE k == y - 1
    <3>1. k \in 1..n /\ y = 1 + k /\ y \in 1..Len(q)
      BY <1>1, <2>1
    <3> HIDE DEF k
    <3>2. line[y] = Quote /\ line[y] = p[k]
      BY <1>3, <2>1, <3>1
    <3> QED
      BY <1>1, <3>1, <3>2
  <2>5. ends \subseteq Int
    BY <1>2, <1>3
  <2>6. Min(ends) = x
    <3> HIDE DEF ends, x
    <3> QED
      BY <2>3, <2>4, <2>5, LeastIs
  <2>7. ProgramEnd(line) = x
    BY <2>2, <2>6 DEF ProgramEnd
  <2>8. SubSeq(line, 2, x - 1) = p
    <3>1. SubSeq(line, 1 + 1, 1 + Len(p)) = p
      <4>1. 1 + Len(p) <= Len(line)
        BY <1>1, <1>2, <1>3, <2>1
      <4>2. ASSUME NEW k \in 1..Len(p) PROVE line[1 + k] = p[k]
        <5>1. 1 + k \in 1..Len(q)
          BY <1>1, <2>1
        <5> QED
          BY <1>3, <2>1, <5>1
      <4> QED
        BY <1>1, <1>3, <4>1, <4>2, Slice
    <3>2. 1 + 1 = 2 /\ 1 + Len(p) = x - 1
      BY <1>1
    <3> HIDE DEF x
    <3> QED
      BY <3>1, <3>2
  <2>9. SubSeq(line, x + 1, Len(line)) = r
    <3>1. x \in Nat /\ x + Len(r) <= Len(line) /\ x + Len(r) = Len(line)
      BY <1>1, <1>2, <1>3, <2>1
    <3>2. \A k \in 1..Len(r) : line[x + k] = r[k]
      BY <1>3, <2>1
    <3> HIDE DEF x
    <3>3. SubSeq(line, x + 1, x + Len(r)) = r
      BY <1>3, <3>1, <3>2, Slice
    <3> QED
      BY <3>1, <3>3
  <2> HIDE DEF x
  <2>10. ToArgv(line) = <<p>> \o WordsOf(r)
    BY <2>2, <2>7, <2>8, <2>9 DEF ToArgv
  <2> QED
    BY <1>6, <2>10 DEF line, q
<1> QED
  BY <1>7, <1>8

(* What is joined is the program and a tail of the words.                    *)
LEMMA JoinedIsLine ==
    ASSUME NEW command \in Sentences, Len(command) >= 1, IsProgram(command[1])
    PROVE  \E tail \in Texts : /\ IsTail(command, Len(command), tail)
                               /\ IsLine(command, Len(command), Joined(command), tail)
<1> DEFINE n == Len(command)
           first == QuoteArgument(command[1])
<1>1. n \in Nat /\ n >= 1
  BY DEF Sentences
<1>2. PICK v : v \in Lines(command)
  BY JoinedUnfolds
<1>3. /\ v \in [0..n -> Texts] /\ v[0] = <<>>
      /\ \A k \in 1..n : v[k] =
              v[k - 1] \o (IF v[k - 1] = <<>> THEN <<>> ELSE <<Blank>>) \o QuoteArgument(command[k])
      /\ Joined(command) = v[n]
  BY <1>2 DEF Lines
<1>4. first \in Texts /\ Len(first) >= 1
  BY ProgramShape
<1> DEFINE good(k) == \E tail \in Texts : /\ IsTail(command, k, tail)
                                          /\ IsLine(command, k, v[k], tail)
           S == {k \in 0..n : k >= 1 => good(k)}
<1>5. 0 \in S
  BY <1>1
<1>6. ASSUME NEW k \in 1..n, k - 1 \in S PROVE k \in S
  <2>1. k \in 0..n /\ k - 1 \in 0..n
    BY <1>1
  <2>2. CASE k = 1
    <3>1. v[1] = first
      <4>1. v[1] = <<>> \o <<>> \o first
        BY <1>1, <1>3, <2>2
      <4> HIDE DEF first
      <4> QED
        BY <1>4, <4>1, JoinEmpty
    <3>2. IsTail(command, 1, <<>>)
      <4>1. Unread \in Reading /\ Unread.quoted = FALSE /\ Ended(Unread) = Unread
            /\ Unread = Between(<<>>) /\ <<>> \in Texts
        <5>1. Unread \in Reading /\ <<>> \in Texts
          BY JoinEmpty DEF Unread, Reading
        <5> QED
          BY <5>1 DEF Unread, Ended, Between
      <4>2. Reads(Unread, <<>>) = Unread
        BY <4>1, Marks, ReadsOne
      <4>3. SubSeq(command, 2, 1) = <<>>
        BY SubSeqEmpty
      <4> QED
        BY <4>1, <4>2, <4>3 DEF IsTail
    <3>3. IsLine(command, 1, v[1], <<>>)
      BY <3>1 DEF IsLine
    <3>4. good(1)
      BY <3>2, <3>3, JoinEmpty
    <3> HIDE DEF good
    <3> QED
      BY <2>1, <2>2, <3>4
  <2>3. CASE k # 1
    <3> DEFINE j == k - 1
               line == v[j]
    <3>1. j \in Nat /\ j >= 1 /\ j + 1 = k /\ j + 1 <= n /\ line \in Texts
      BY <1>1, <1>3, <2>1, <2>3
    <3>2. PICK tail \in Texts : IsTail(command, j, tail) /\ IsLine(command, j, line, tail)
      BY <1>6, <3>1
    <3>3. line # <<>>
      <4> DEFINE rest == <<Blank>> \o tail
      <4>1. line = first \/ line = first \o rest
        BY <3>2 DEF IsLine
      <4>2. rest \in Texts
        <5>1. <<Blank>> \in Texts
          BY Marks DEF Texts
        <5> QED
          BY <5>1, JoinTypes
      <4> HIDE DEF rest, first, line
      <4>3. Len(first \o rest) = Len(first) + Len(rest) /\ Len(rest) \in Nat
        BY <1>4, <4>2, TextsJoin DEF Texts
      <4>4. Len(line) >= 1
        BY <1>4, <4>1, <4>3
      <4> QED
        BY <4>4
    <3>4. v[k] = line \o <<Blank>> \o QuoteArgument(command[k])
      BY <1>3, <3>1, <3>3
    <3>5. \E more \in Texts :
              /\ IsTail(command, j + 1, more)
              /\ IsLine(command, j + 1, line \o <<Blank>> \o QuoteArgument(command[j + 1]), more)
      <4> HIDE DEF j, line
      <4> QED
        BY <3>1, <3>2, TailGrows
    <3>6. good(k)
      BY <3>1, <3>4, <3>5
    <3> HIDE DEF good
    <3> QED
      BY <2>1, <3>6
  <2> QED
    BY <2>2, <2>3
<1> HIDE DEF S
<1>7. 0..n \subseteq S
  BY <1>1, <1>5, <1>6, InductionTo
<1>8. good(n)
  <2>1. n \in S
    BY <1>1, <1>7
  <2> HIDE DEF good
  <2> QED
    BY <1>1, <2>1 DEF S
<1> QED
  BY <1>3, <1>8

(* CommandLineToArgvW gives the program the words that quote_argument was given. *)
THEOREM RoundTrip ==
    ASSUME NEW command \in Sentences, ValidCommand(command), IsProgram(command[1])
    PROVE  ToArgv(Joined(command)) = command
<1> DEFINE n == Len(command)
           p == command[1]
           others == SubSeq(command, 2, n)
<1>1. n \in Nat /\ n >= 1 /\ command \in Seq(Texts)
  BY EmptySeq DEF ValidCommand, Sentences
<1>2. PICK tail \in Texts : IsTail(command, n, tail) /\ IsLine(command, n, Joined(command), tail)
  BY <1>1, JoinedIsLine
<1>3. WordsOf(tail) = others
  BY <1>2 DEF IsTail, WordsOf, Between
<1>4. ToArgv(Joined(command)) = <<p>> \o others
  <2> DEFINE rest == <<Blank>> \o tail
             q == QuoteArgument(p)
  <2>1. rest \in Texts
    <3>1. <<Blank>> \in Texts
      BY Marks DEF Texts
    <3> QED
      BY <3>1, JoinTypes
  <2>2. q \in Texts
    BY ProgramShape
  <2>3. CASE n = 1 /\ tail = <<>> /\ Joined(command) = q
    <3>1. q \o <<>> = q /\ <<>> \in Texts
      BY <2>2, JoinEmpty
    <3>2. ToArgv(q \o <<>>) = <<p>> \o WordsOf(tail)
      BY <2>3, <3>1, LineRead
    <3> QED
      BY <1>3, <2>3, <3>1, <3>2
  <2>4. CASE Joined(command) = q \o rest
    <3>1. ToArgv(q \o rest) = <<p>> \o WordsOf(tail)
      BY <2>1, LineRead
    <3> QED
      BY <1>3, <2>4, <3>1
  <2> QED
    BY <1>2, <2>3, <2>4 DEF IsLine
<1>5. <<p>> \o others = command
  <2> DEFINE q == <<p>>
  <2>1. q \in Seq(Texts) /\ Len(q) = 1 /\ q[1] = p /\ \A i \in 1..n : command[i] \in Texts
    BY <1>1
  <2>2. /\ others \in Seq(Texts) /\ Len(others) = n - 1
        /\ \A i \in 1..(n - 1) : others[i] = command[i + 1]
    <3>0. \A i \in 2..n : command[i] \in Texts
      BY <2>1
    <3>1. /\ others \in Seq(Texts)
          /\ Len(others) = IF 2 <= n THEN n - 2 + 1 ELSE 0
          /\ \A i \in 1..(n - 2 + 1) : others[i] = command[2 + i - 1]
      <4> HIDE DEF n
      <4> QED
        BY <1>1, <3>0, SubSeqProperties
    <3>2. (IF 2 <= n THEN n - 2 + 1 ELSE 0) = n - 1 /\ n - 2 + 1 = n - 1
      <4>1. n \in Nat /\ n >= 1
        BY <1>1
      <4> HIDE DEF n
      <4> QED
        BY <4>1
    <3>3. \A i \in 1..(n - 1) : 2 + i - 1 = i + 1
      BY <1>1
    <3> HIDE DEF n, others
    <3> QED
      BY <3>1, <3>2, <3>3
  <2> HIDE DEF q, others
  <2>3. /\ q \o others \in Seq(Texts) /\ Len(q \o others) = Len(q) + Len(others)
        /\ \A i \in 1..(Len(q) + Len(others)) :
              (q \o others)[i] = IF i <= Len(q) THEN q[i] ELSE others[i - Len(q)]
    <3>1. q \in Seq(Texts) /\ others \in Seq(Texts)
      BY <2>1, <2>2
    <3> QED
      BY <3>1, ConcatProperties
  <2>4. Len(q) + Len(others) = n
    BY <1>1, <2>1, <2>2
  <2>5. ASSUME NEW i \in 1..n PROVE (q \o others)[i] = command[i]
    <3>1. CASE i = 1
      BY <1>1, <2>1, <2>3, <2>4, <3>1
    <3>2. CASE i # 1
      <4>1. i - 1 \in 1..(n - 1) /\ (i - 1) + 1 = i /\ ~(i <= 1)
        BY <1>1, <3>2
      <4>2. (q \o others)[i] = others[i - 1]
        BY <2>1, <2>3, <2>4, <4>1
      <4> QED
        BY <2>2, <4>1, <4>2
    <3> QED
      BY <3>1, <3>2
  <2>6. q \o others = command
    BY <1>1, <2>3, <2>4, <2>5, SeqEqual
  <2> QED
    BY <2>6 DEF q
<1> QED
  BY <1>4, <1>5

-----------------------------------------------------------------------------
(* parse, and the environment of a leased child.                             *)

(* A value follows an option that takes one.                                 *)
LEMMA ValueFollowsOption ==
    ASSUME NEW arguments \in Sentences, NEW i \in IsValue(arguments)
    PROVE  /\ i \in 1..Len(arguments) /\ i > 1
           /\ arguments[i - 1] \in {Option(v) : v \in Valued}
<1> DEFINE takes(k) == k > 1 /\ arguments[k - 1] \in {Option(v) : v \in Valued}
           step == [n \in Nat |-> [x \in BOOLEAN |-> takes(n + 1) /\ ~x]]
<1>1. PICK f : f \in Iterations(BOOLEAN, FALSE, step)
  <2> DEFINE first == FALSE
             B == BOOLEAN
  <2>1. first \in B /\ step \in [Nat -> [B -> B]]
    <3> HIDE DEF takes
    <3> QED
      OBVIOUS
  <2> HIDE DEF first, step, B
  <2>2. \E f : f \in Iterations(B, first, step)
    BY <2>1, Recursion
  <2> QED
    BY <2>2 DEF first, B
<1>2. f \in [Nat -> BOOLEAN] /\ \A k \in Nat : f[k] = (takes(k) /\ ~f[k - 1])
  <2>1. f \in [Nat -> BOOLEAN] /\ f[0] = FALSE /\ \A n \in Nat : f[n + 1] = step[n][f[n]]
    BY <1>1 DEF Iterations
  <2> HIDE DEF takes
  <2>2. \A n \in Nat : f[n + 1] = (takes(n + 1) /\ ~f[n])
    BY <2>1
  <2>3. ASSUME NEW k \in Nat PROVE f[k] = (takes(k) /\ ~f[k - 1])
    <3>1. CASE k = 0
      <4>1. ~takes(0)
        BY DEF takes
      <4> QED
        BY <2>1, <3>1, <4>1
    <3>2. CASE k # 0
      <4> DEFINE n == k - 1
      <4>1. n \in Nat /\ n + 1 = k
        BY <3>2
      <4>2. f[n + 1] = (takes(n + 1) /\ ~f[n])
        BY <2>2, <4>1
      <4> QED
        BY <4>1, <4>2
    <3> QED
      BY <3>1, <3>2
  <2> QED
    BY <2>1, <2>3
<1>3. f = [k \in Nat |-> takes(k) /\ ~f[k - 1]]
  <2> HIDE DEF takes
  <2> QED
    BY <1>2
<1>4. PICK claimed :
        /\ claimed = [k \in Nat |-> takes(k) /\ ~claimed[k - 1]]
        /\ IsValue(arguments) = {k \in DOMAIN arguments : claimed[k]}
  BY <1>3 DEF IsValue
<1>5. i \in DOMAIN arguments /\ claimed[i]
  BY <1>4
<1>6. i \in 1..Len(arguments) /\ i \in Nat
  BY <1>5 DEF Sentences
<1>7. claimed[i] = (takes(i) /\ ~claimed[i - 1])
  <2> HIDE DEF takes
  <2> QED
    BY <1>4, <1>6
<1> QED
  BY <1>5, <1>6, <1>7

(* What parse calls the command is what follows the separator, and some      *)
(* text.                                                                     *)
LEMMA CommandParsed ==
    ASSUME NEW arguments \in Sentences
    PROVE  /\ Separator(arguments) \in 1..(Len(arguments) + 1)
           /\ \A j \in 1..(Separator(arguments) - 1) \ IsValue(arguments) :
                 arguments[j] # Option("--")
           /\ Separator(arguments) <= Len(arguments) =>
                 arguments[Separator(arguments)] = Option("--")
           /\ Parse(arguments).command
                 = SubSeq(arguments, Separator(arguments) + 1, Len(arguments))
           /\ Parse(arguments).command \in Sentences
<1> DEFINE S == {i \in DOMAIN arguments \ IsValue(arguments) : arguments[i] = Option("--")}
                  \cup {Len(arguments) + 1}
           end == Separator(arguments)
<1>1. /\ Len(arguments) \in Nat /\ DOMAIN arguments = 1..Len(arguments)
      /\ \A i \in 1..Len(arguments) : arguments[i] \in Texts
  BY DEF Sentences
<1>2. S \in SUBSET Nat /\ S # {} /\ end = Min(S)
  BY <1>1 DEF Separator
<1>3. end \in S /\ \A i \in S : end <= i
  <2> HIDE DEF S, end
  <2> QED
    BY <1>2, LeastExists
<1>4. end \in 1..(Len(arguments) + 1)
  BY <1>1, <1>3
<1> HIDE DEF end
<1>5. end <= Len(arguments) => arguments[end] = Option("--")
  BY <1>1, <1>3
<1>6. ASSUME NEW j \in 1..(end - 1) \ IsValue(arguments) PROVE arguments[j] # Option("--")
  <2>1. j \in DOMAIN arguments \ IsValue(arguments) /\ ~(end <= j)
    BY <1>1, <1>4
  <2> QED
    BY <1>3, <2>1
<1>7. Parse(arguments).command = SubSeq(arguments, end + 1, Len(arguments))
  BY DEF Parse, end
<1>8. SubSeq(arguments, end + 1, Len(arguments)) \in Seq(Texts)
  <2> DEFINE m == end + 1
             n == Len(arguments)
  <2>1. m \in Int /\ n \in Int /\ \A i \in m..n : arguments[i] \in Texts
    BY <1>1, <1>4
  <2> HIDE DEF m, n
  <2>2. SubSeq(arguments, m, n) \in Seq(Texts)
    BY <2>1, SubSeqProperties
  <2> QED
    BY <2>2 DEF m, n
<1> QED
  BY <1>4, <1>5, <1>6, <1>7, <1>8 DEF end, Sentences

(* What runs is what follows the separator, and no diagnostic was asked for. *)
LEMMA RunFollowsSeparator ==
    ASSUME NEW arguments \in Sentences, Parse(arguments).mode = "run"
    PROVE  \E i \in DOMAIN arguments :
              /\ arguments[i] = Option("--")
              /\ Parse(arguments).command = SubSeq(arguments, i + 1, Len(arguments))
              /\ \A j \in 1..(i - 1) : \A w \in {"--", "--help", "--status", "--rescan"} :
                    arguments[j] = Option(w) =>
                       j > 1 /\ arguments[j - 1] \in {Option(v) : v \in Valued}
<1> DEFINE end == Separator(arguments)
           words == {arguments[i] : i \in (1..(end - 1)) \ IsValue(arguments)}
           command == SubSeq(arguments, end + 1, Len(arguments))
<1>1. /\ end \in 1..(Len(arguments) + 1)
      /\ \A j \in 1..(end - 1) \ IsValue(arguments) : arguments[j] # Option("--")
      /\ end <= Len(arguments) => arguments[end] = Option("--")
      /\ Parse(arguments).command = command
  BY CommandParsed
<1>2. Len(arguments) \in Nat /\ DOMAIN arguments = 1..Len(arguments)
  BY DEF Sentences
<1>3. command # <<>> /\ \A name \in {"--help", "--status", "--rescan"} : Option(name) \notin words
  BY DEF Parse
<1> HIDE DEF end
<1>4. end <= Len(arguments)
  <2> SUFFICES ASSUME end = Len(arguments) + 1 PROVE FALSE
    BY <1>1, <1>2
  <2> DEFINE m == end + 1
             n == Len(arguments)
  <2>1. m \in Int /\ n \in Int /\ n < m
    BY <1>1, <1>2
  <2> HIDE DEF m, n
  <2>2. SubSeq(arguments, m, n) = <<>>
    BY <2>1, SubSeqEmpty
  <2> QED
    BY <1>3, <2>2 DEF m, n
<1>5. ASSUME NEW j \in 1..(end - 1), NEW w \in {"--", "--help", "--status", "--rescan"},
             arguments[j] = Option(w)
      PROVE  j > 1 /\ arguments[j - 1] \in {Option(v) : v \in Valued}
  <2>1. CASE j \in IsValue(arguments)
    BY <2>1, ValueFollowsOption
  <2>2. CASE j \notin IsValue(arguments)
    <3>1. j \in 1..(end - 1) \ IsValue(arguments)
      BY <2>2
    <3>2. w # "--"
      BY <1>1, <1>5, <3>1
    <3>3. Option(w) \in words
      BY <1>5, <3>1
    <3> QED
      BY <1>3, <3>2, <3>3
  <2> QED
    BY <2>1, <2>2
<1>6. end \in DOMAIN arguments /\ arguments[end] = Option("--")
  BY <1>1, <1>2, <1>4
<1>7. \A j \in 1..(end - 1) : \A w \in {"--", "--help", "--status", "--rescan"} :
         arguments[j] = Option(w) =>
            j > 1 /\ arguments[j - 1] \in {Option(v) : v \in Valued}
  BY <1>5
<1> QED
  BY <1>1, <1>6, <1>7

-----------------------------------------------------------------------------
(* leased_environment_block.                                                 *)

\* An environment is a sequence of its own entries.
IsEnvironment(entries) == entries \in Seq(Range(entries))

\* What has been kept of an environment, entry by entry.
Keepings(entries) ==
    {v \in [0..Len(entries) -> Seq(Range(entries))] :
        /\ v[0] = <<>>
        /\ \A k \in 1..Len(entries) : v[k] =
              IF Excluded(entries[k]) THEN v[k - 1]
              ELSE Append(v[k - 1], entries[k])
        /\ LeasedEnvironmentBlock(entries) = v[Len(entries)]}

(* An environment is kept entry by entry.                                    *)
LEMMA KeptUnfolds ==
    ASSUME NEW entries, IsEnvironment(entries)
    PROVE  \E v : v \in Keepings(entries)
<1> DEFINE n == Len(entries)
           V == Seq(Range(entries))
           next(x, k) == IF Excluded(entries[k]) THEN x
                         ELSE Append(x, entries[k])
           step == [k \in 1..n |-> [x \in V |-> next(x, k)]]
           first == <<>>
<1>1. n \in Nat /\ (\A k \in 1..n : entries[k] \in Range(entries)) /\ first \in V
  BY DEF IsEnvironment, Range
<1>2. ASSUME NEW x \in V, NEW k \in 1..n PROVE next(x, k) \in V
  BY <1>1, AppendProperties
<1>3. step \in [1..n -> [V -> V]]
  <2> HIDE DEF next, V
  <2> QED
    BY <1>2
<1>4. PICK f \in [0..n -> V] : f[0] = first /\ \A k \in 1..n : f[k] = step[k][f[k - 1]]
  <2>1. n \in Nat /\ first \in V
    BY <1>1
  <2> HIDE DEF step, n, V, first
  <2> QED
    BY <1>3, <2>1, RecursionTo
<1> HIDE DEF V
<1>5. ASSUME NEW k \in 1..n PROVE f[k] = next(f[k - 1], k)
  <2>1. k - 1 \in 0..n
    BY <1>1
  <2> HIDE DEF next
  <2> QED
    BY <1>4, <2>1
<1>6. f = [k \in 0..n |-> IF k = 0 THEN <<>> ELSE next(f[k - 1], k)]
  <2> HIDE DEF next
  <2>1. \A k \in 0..n : f[k] = IF k = 0 THEN <<>> ELSE next(f[k - 1], k)
    BY <1>1, <1>4, <1>5
  <2> QED
    BY <1>4, <2>1
<1>7. PICK v :
        /\ v = [k \in 0..n |-> IF k = 0 THEN <<>> ELSE next(v[k - 1], k)]
        /\ LeasedEnvironmentBlock(entries) = v[n]
  BY <1>6 DEF LeasedEnvironmentBlock
<1> HIDE DEF next
<1>8. v[0] = <<>> /\ \A k \in 1..n : v[k] = next(v[k - 1], k)
  <2> DEFINE to(k) == IF k = 0 THEN <<>> ELSE next(v[k - 1], k)
  <2>1. v = [k \in 0..n |-> to(k)]
    BY <1>7
  <2> HIDE DEF to
  <2>2. \A k \in 0..n : v[k] = to(k)
    BY <2>1
  <2> QED
    BY <1>1, <2>2 DEF to
<1>9. \A k \in 0..n : v[k] \in V
  <2> DEFINE S == {k \in 0..n : v[k] \in V}
  <2>1. 0 \in S
    BY <1>1, <1>8
  <2>2. ASSUME NEW k \in 1..n, k - 1 \in S PROVE k \in S
    BY <1>1, <1>2, <1>8, <2>2
  <2> HIDE DEF S
  <2>3. 0..n \subseteq S
    BY <1>1, <2>1, <2>2, InductionTo
  <2> QED
    BY <2>3 DEF S
<1>10. v \in [0..n -> V]
  BY <1>7, <1>9
<1> QED
  BY <1>7, <1>8, <1>10 DEF Keepings, next, V

(* A leased child gets every entry of the environment but the exclusions.    *)
LEMMA LeasedEnvironment ==
    ASSUME NEW entries, IsEnvironment(entries)
    PROVE  \A i \in DOMAIN entries :
              entries[i] \in Range(LeasedEnvironmentBlock(entries))
                 <=> ~Excluded(entries[i])
<1> DEFINE n == Len(entries)
           D == Range(entries)
           kept(k) == {entries[i] : i \in {j \in 1..k : ~Excluded(entries[j])}}
<1>1. n \in Nat /\ DOMAIN entries = 1..n /\ \A k \in 1..n : entries[k] \in D
  BY DEF IsEnvironment, Range
<1>2. PICK v \in [0..n -> Seq(D)] :
        /\ v[0] = <<>>
        /\ \A k \in 1..n : v[k] = IF Excluded(entries[k]) THEN v[k - 1]
                                  ELSE Append(v[k - 1], entries[k])
        /\ LeasedEnvironmentBlock(entries) = v[n]
  BY KeptUnfolds DEF Keepings
<1> HIDE DEF D
<1> DEFINE S == {k \in 0..n : Range(v[k]) = kept(k)}
<1>3. 0 \in S
  BY <1>1, <1>2 DEF Range
<1>4. ASSUME NEW k \in 1..n, k - 1 \in S PROVE k \in S
  <2> DEFINE entry == entries[k]
             old == v[k - 1]
  <2>1. k \in 0..n /\ k - 1 \in 0..n /\ old \in Seq(D) /\ entry \in D
    BY <1>1, <1>2
  <2>2. Range(old) = kept(k - 1)
    BY <1>4
  <2>3. kept(k) = kept(k - 1) \cup (IF Excluded(entry) THEN {} ELSE {entry})
    <3>1. {j \in 1..k : ~Excluded(entries[j])} =
             {j \in 1..(k - 1) : ~Excluded(entries[j])}
                \cup (IF Excluded(entry) THEN {} ELSE {k})
      BY <1>1
    <3> QED
      BY <3>1
  <2>4. CASE Excluded(entry)
    <3>1. v[k] = old
      BY <1>2, <2>4
    <3> HIDE DEF kept, old
    <3> QED
      BY <2>1, <2>2, <2>3, <2>4, <3>1
  <2>5. CASE ~Excluded(entry)
    <3>1. v[k] = Append(old, entry)
      BY <1>2, <2>5
    <3>2. Range(Append(old, entry)) = Range(old) \cup {entry}
      <4> HIDE DEF old, entry
      <4>1. /\ Append(old, entry) \in Seq(D) /\ Len(Append(old, entry)) = Len(old) + 1
            /\ (\A i \in 1..Len(old) : Append(old, entry)[i] = old[i])
            /\ Append(old, entry)[Len(old) + 1] = entry
        BY <2>1, AppendProperties
      <4>2. Len(old) \in Nat /\ DOMAIN old = 1..Len(old)
            /\ DOMAIN Append(old, entry) = 1..(Len(old) + 1)
        BY <2>1, <4>1
      <4>3. Range(Append(old, entry)) \subseteq Range(old) \cup {entry}
        BY <4>1, <4>2 DEF Range
      <4>4. Range(old) \cup {entry} \subseteq Range(Append(old, entry))
        <5>1. \A i \in 1..Len(old) : i \in DOMAIN Append(old, entry)
          BY <4>2
        <5>2. Range(old) \subseteq Range(Append(old, entry))
          BY <4>1, <4>2, <5>1 DEF Range
        <5>3. Len(old) + 1 \in DOMAIN Append(old, entry)
          BY <4>2
        <5>4. entry \in Range(Append(old, entry))
          BY <4>1, <5>3 DEF Range
        <5> QED
          BY <5>2, <5>4
      <4> QED
        BY <4>3, <4>4
    <3> HIDE DEF kept, old, entry
    <3> QED
      BY <2>1, <2>2, <2>3, <2>5, <3>1, <3>2
  <2> QED
    BY <2>4, <2>5
<1> HIDE DEF S
<1>5. 0..n \subseteq S
  BY <1>1, <1>3, <1>4, InductionTo
<1>6. Range(LeasedEnvironmentBlock(entries)) = kept(n)
  <2>1. n \in S
    BY <1>1, <1>5
  <2> QED
    BY <1>2, <2>1 DEF S
<1> QED
  BY <1>1, <1>6

(* What the filter takes for the exclusion is spelled like it, and the other  *)
(* way round.                                                                *)
LEMMA ExcludedSpellings ==
    ASSUME NEW entry, entry.name \in Seq(STRING)
    PROVE  Excluded(entry) <=> entry.name \in ExclusionSpellings
<1> DEFINE name == entry.name
<1>1. Len(Exclusion) = 3 /\ Exclusion[1] = "S" /\ Exclusion[2] = "D" /\ Exclusion[3] = "L"
  BY DEF Exclusion
<1>2. ASSUME Excluded(entry) PROVE name \in ExclusionSpellings
  <2>1. Len(name) = 3 /\ name = <<name[1], name[2], name[3]>>
    BY <1>1, <1>2 DEF Excluded, EqIgnoreAsciiCase
  <2>2. name[1] \in {"S", "s"} /\ name[2] \in {"D", "d"} /\ name[3] \in {"L", "l"}
    BY <1>1, <1>2, <2>1 DEF Excluded, EqIgnoreAsciiCase
  <2> QED
    BY <2>1, <2>2 DEF ExclusionSpellings
<1>3. ASSUME name \in ExclusionSpellings PROVE Excluded(entry)
  <2>1. PICK s \in {"S", "s"}, d \in {"D", "d"}, l \in {"L", "l"} : name = <<s, d, l>>
    BY <1>3 DEF ExclusionSpellings
  <2> QED
    BY <1>1, <2>1 DEF Excluded, EqIgnoreAsciiCase
<1> QED
  BY <1>2, <1>3

-----------------------------------------------------------------------------
(* The launch.                                                               *)

\* The places between the start of a launch and its answer.
Unstarted == {"create", "job", "assign", "resume", "stop"}
AtWork == Unstarted \cup
    {"poll", "abort", "limits", "rootOnly", "lastWait", "exitCode"}

\* launch_and_wait returns an error exactly when the program did not run.
ErrorMeansNotRun ==
    /\ place \in {"call", "acquire"} \cup AtWork => launched = "none" /\ result = "none"
    /\ place \in {"release", "answer"} => result = "none"
    /\ place \in {"call", "acquire"} => launch = "wrapped"
    /\ place \in {"call", "acquire"} \cup Unstarted => ran = {}
    /\ place \in AtWork \ Unstarted => ran = {launch}
    /\ place \in {"release", "answer"} =>
          /\ launched # "none"
          /\ IF launched = "error" THEN ran = {} ELSE ran = {launch}
    /\ \E who \in Launches \cup {"caller"} : ran \subseteq {who}

\* The lease is held, or died with Steam, from the first launch to its release.
LeaseFollowsPlace ==
    /\ launch = "wrapped" /\ place \in {"call", "acquire"} => lease = "none"
    /\ launch = "wrapped" /\ place \in AtWork \cup {"release"} => lease \in {"held", "lost"}
    /\ launch = "unleased" \/ place \in {"answer", "done"} => lease \in {"none", "released"}
    /\ place = "release" => launch = "wrapped"

\* Nothing has been started for a launch.
Untouched(l) == root[l] = "none" /\ kids[l] = 0 /\ doomed[l] = {}

\* What there is of each tree, by how far its launch has come.
TreeFollowsPlace ==
    /\ place \in {"call", "acquire", "create"} => Untouched(launch)
    /\ launch = "wrapped" => Untouched("unleased")
    /\ place \in Unstarted \ {"create"} =>
          root[launch] = "suspended" /\ kids[launch] = 0 /\ doomed[launch] = {}
    /\ place = "exitCode" => root[launch] = "exited" /\ kids[launch] = 0
    /\ place \in {"lastWait", "release", "answer", "done"} =>
          uncontained \/ OnlyDoomedRemain(launch)
    /\ launch = "unleased" => uncontained \/ OnlyDoomedRemain("wrapped")
    /\ \A l \in Launches : root[l] = "exited" => status[l] \in Codes

\* A success that is being reported is that of the launch it is reported for.
SuccessIsTheLaunchs ==
    /\ place \in {"release", "answer", "done"} /\ launched = "zero" =>
          root[launch] = "exited" /\ status[launch] = "zero"
    /\ place = "done" /\ result = "zero" => launched = "zero" /\ ran = {launch}

\* Only the launcher parses its arguments.
ArgsFollowCaller == args \in IF caller = "launcher" THEN CommandLines ELSE LibraryCommands

\* The inductive invariant.
Inductive ==
    /\ TypeOK /\ ArgsFollowCaller
    /\ ErrorMeansNotRun /\ LeaseFollowsPlace /\ TreeFollowsPlace /\ SuccessIsTheLaunchs

-----------------------------------------------------------------------------

(* What the launcher makes of its arguments.                                 *)
LEMMA InvocationHasMode ==
    ASSUME NEW a \in CommandLines
    PROVE  Invocation[a].mode \in {"usage", "diagnostic", "run"}
<1>1. Parse(a).mode \in {"usage", "diagnostic", "run"}
  BY DEF Parse
<1> QED
  BY <1>1 DEF Invocation

(* The call, the lease and the answer.                                       *)
LEMMA CallerKeepsInductive ==
    ASSUME Inductive,
           \/ Call \/ Acquire \/ SteamEnds \/ Release
           \/ ReportRun \/ StartUnleased \/ LibraryCallFails \/ ReportFailure
    PROVE  Inductive'
<1> USE DEF Inductive, TypeOK, ArgsFollowCaller, ErrorMeansNotRun, LeaseFollowsPlace, TreeFollowsPlace,
            SuccessIsTheLaunchs, Untouched, OnlyDoomedRemain, Unstarted, AtWork,
            Launches, Callers, Codes, Places, input, tree, started, history, Return
<1>1. CASE Call
  <2>1. /\ result' \in {result, "usage", "diagnostic"}
        /\ place' \in {"acquire", "done"}
        /\ place' = "acquire" => result' = result
    BY <1>1, InvocationHasMode DEF Call
  <2>2. UNCHANGED <<caller, args, launch, lease, root, status, kids, doomed, launched, ran,
                    uncontained>>
    BY <1>1 DEF Call
  <2>3. TypeOK' /\ ArgsFollowCaller'
    BY <2>1, <2>2
  <2>4. ErrorMeansNotRun' /\ LeaseFollowsPlace'
    BY <1>1, <2>1, <2>2 DEF Call
  <2>5. TreeFollowsPlace'
    BY <1>1, <2>1, <2>2 DEF Call
  <2>6. SuccessIsTheLaunchs'
    BY <1>1, <2>1, <2>2 DEF Call
  <2> QED
    BY <2>3, <2>4, <2>5, <2>6
<1>2. CASE Acquire
  <2>1. TypeOK' /\ ArgsFollowCaller'
    BY <1>2 DEF Acquire
  <2>2. ErrorMeansNotRun'
    BY <1>2 DEF Acquire
  <2>3. LeaseFollowsPlace'
    BY <1>2 DEF Acquire
  <2>4. TreeFollowsPlace'
    BY <1>2 DEF Acquire
  <2>5. SuccessIsTheLaunchs'
    BY <1>2 DEF Acquire
  <2> QED
    BY <2>1, <2>2, <2>3, <2>4, <2>5
<1>3. CASE SteamEnds
  <2>1. TypeOK' /\ ArgsFollowCaller'
    BY <1>3 DEF SteamEnds
  <2>2. ErrorMeansNotRun'
    BY <1>3 DEF SteamEnds
  <2>3. LeaseFollowsPlace'
    BY <1>3 DEF SteamEnds
  <2>4. TreeFollowsPlace'
    BY <1>3 DEF SteamEnds
  <2>5. SuccessIsTheLaunchs'
    BY <1>3 DEF SteamEnds
  <2> QED
    BY <2>1, <2>2, <2>3, <2>4, <2>5
<1>4. CASE Release
  <2>1. TypeOK' /\ ArgsFollowCaller'
    BY <1>4 DEF Release
  <2>2. ErrorMeansNotRun'
    BY <1>4 DEF Release
  <2>3. LeaseFollowsPlace'
    BY <1>4 DEF Release
  <2>4. TreeFollowsPlace'
    BY <1>4 DEF Release
  <2>5. SuccessIsTheLaunchs'
    BY <1>4 DEF Release
  <2> QED
    BY <2>1, <2>2, <2>3, <2>4, <2>5
<1>5. CASE ReportRun
  <2>1. TypeOK' /\ ArgsFollowCaller'
    BY <1>5 DEF ReportRun
  <2>2. ErrorMeansNotRun'
    BY <1>5 DEF ReportRun
  <2>3. LeaseFollowsPlace'
    BY <1>5 DEF ReportRun
  <2>4. TreeFollowsPlace'
    BY <1>5 DEF ReportRun
  <2>5. SuccessIsTheLaunchs'
    BY <1>5 DEF ReportRun
  <2> QED
    BY <2>1, <2>2, <2>3, <2>4, <2>5
<1>6. CASE StartUnleased
  <2>1. TypeOK' /\ ArgsFollowCaller'
    BY <1>6 DEF StartUnleased
  <2>2. ErrorMeansNotRun'
    BY <1>6 DEF StartUnleased
  <2>3. LeaseFollowsPlace'
    BY <1>6 DEF StartUnleased
  <2>4. TreeFollowsPlace'
    BY <1>6 DEF StartUnleased
  <2>5. SuccessIsTheLaunchs'
    BY <1>6 DEF StartUnleased
  <2> QED
    BY <2>1, <2>2, <2>3, <2>4, <2>5
<1>7. CASE LibraryCallFails
  <2>1. TypeOK' /\ ArgsFollowCaller'
    BY <1>7 DEF LibraryCallFails
  <2>2. ErrorMeansNotRun'
    BY <1>7 DEF LibraryCallFails
  <2>3. LeaseFollowsPlace'
    BY <1>7 DEF LibraryCallFails
  <2>4. TreeFollowsPlace'
    BY <1>7 DEF LibraryCallFails
  <2>5. SuccessIsTheLaunchs'
    BY <1>7 DEF LibraryCallFails
  <2> QED
    BY <2>1, <2>2, <2>3, <2>4, <2>5
<1>8. CASE ReportFailure
  <2>1. TypeOK' /\ ArgsFollowCaller'
    BY <1>8 DEF ReportFailure
  <2>2. ErrorMeansNotRun'
    BY <1>8 DEF ReportFailure
  <2>3. LeaseFollowsPlace'
    BY <1>8 DEF ReportFailure
  <2>4. TreeFollowsPlace'
    BY <1>8 DEF ReportFailure
  <2>5. SuccessIsTheLaunchs'
    BY <1>8 DEF ReportFailure
  <2> QED
    BY <2>1, <2>2, <2>3, <2>4, <2>5
<1> QED
  BY <1>1, <1>2, <1>3, <1>4, <1>5, <1>6, <1>7, <1>8

(* launch_and_wait up to the program's start.                                *)
LEMMA LaunchKeepsInductive ==
    ASSUME Inductive, Create \/ CreateJob \/ AssignJob \/ Resume \/ StopUnstarted
    PROVE  Inductive'
<1> USE DEF Inductive, TypeOK, ArgsFollowCaller, ErrorMeansNotRun, LeaseFollowsPlace, TreeFollowsPlace,
            SuccessIsTheLaunchs, Untouched, OnlyDoomedRemain, Unstarted, AtWork,
            Launches, Callers, Codes, Places, input, tree, started, history, Return,
            Become, Doom, Leave
<1>1. CASE Create
  <2>1. TypeOK' /\ ArgsFollowCaller'
    <3>1. root' \in {root, [root EXCEPT ![launch] = "suspended"]}
      BY <1>1 DEF Create
    <3>2. place' \in {"job", "release", "answer"} /\ launched' \in {launched, "error"}
      BY <1>1 DEF Create
    <3>3. UNCHANGED <<caller, args, launch, lease, status, kids, doomed, result, ran,
                      uncontained>>
      BY <1>1 DEF Create
    <3> QED
      BY <3>1, <3>2, <3>3
  <2>2. ErrorMeansNotRun'
    BY <1>1 DEF Create
  <2>3. LeaseFollowsPlace'
    BY <1>1 DEF Create
  <2>4. TreeFollowsPlace'
    BY <1>1 DEF Create
  <2>5. SuccessIsTheLaunchs'
    BY <1>1 DEF Create
  <2> QED
    BY <2>1, <2>2, <2>3, <2>4, <2>5
<1>2. CASE CreateJob
  BY <1>2 DEF CreateJob
<1>3. CASE AssignJob
  BY <1>3 DEF AssignJob
<1>4. CASE Resume
  <2>1. TypeOK' /\ ArgsFollowCaller'
    <3>1. root' \in {root, [root EXCEPT ![launch] = "running"]}
      BY <1>4 DEF Resume
    <3>2. place' \in {"poll", "stop"} /\ ran' \in {ran, ran \cup {launch}}
      BY <1>4 DEF Resume
    <3>3. UNCHANGED <<caller, args, launch, lease, status, kids, doomed, launched, result,
                      uncontained>>
      BY <1>4 DEF Resume
    <3> QED
      BY <3>1, <3>2, <3>3
  <2>2. ErrorMeansNotRun'
    BY <1>4 DEF Resume
  <2>3. LeaseFollowsPlace'
    BY <1>4 DEF Resume
  <2>4. TreeFollowsPlace'
    BY <1>4 DEF Resume
  <2>5. SuccessIsTheLaunchs'
    BY <1>4 DEF Resume
  <2> QED
    BY <2>1, <2>2, <2>3, <2>4, <2>5
<1>5. CASE StopUnstarted
  <2>1. TypeOK' /\ ArgsFollowCaller'
    BY <1>5 DEF StopUnstarted
  <2>2. ErrorMeansNotRun'
    BY <1>5 DEF StopUnstarted
  <2>3. LeaseFollowsPlace'
    BY <1>5 DEF StopUnstarted
  <2>4. TreeFollowsPlace'
    BY <1>5 DEF StopUnstarted
  <2>5. SuccessIsTheLaunchs'
    BY <1>5 DEF StopUnstarted
  <2> QED
    BY <2>1, <2>2, <2>3, <2>4, <2>5
<1> QED
  BY <1>1, <1>2, <1>3, <1>4, <1>5

(* launch_and_wait while the program runs.                                   *)
LEMMA WatchKeepsInductive ==
    ASSUME Inductive,
           \/ PollTree \/ QueryFails \/ TerminateJob \/ LimitJob \/ TerminateRoot
           \/ LastWait \/ ReadExitCode
    PROVE  Inductive'
<1> USE DEF Inductive, TypeOK, ArgsFollowCaller, ErrorMeansNotRun, LeaseFollowsPlace, TreeFollowsPlace,
            SuccessIsTheLaunchs, Untouched, OnlyDoomedRemain, Unstarted, AtWork,
            Launches, Callers, Codes, Places, input, tree, started, history, Return,
            Doom, Leave
<1>1. CASE PollTree
  <2>1. root[launch] = "exited" /\ kids[launch] = 0
    BY <1>1, MaxKidsAssumption DEF PollTree, TreeIsActive, ActiveProcesses
  <2> QED
    BY <1>1, <2>1 DEF PollTree
<1>2. CASE QueryFails
  BY <1>2 DEF QueryFails
<1>3. CASE TerminateJob
  BY <1>3 DEF TerminateJob
<1>4. CASE LimitJob
  BY <1>4 DEF LimitJob
<1>5. CASE TerminateRoot
  BY <1>5 DEF TerminateRoot
<1>6. CASE LastWait
  BY <1>6 DEF LastWait
<1>7. CASE ReadExitCode
  BY <1>7 DEF ReadExitCode
<1> QED
  BY <1>1, <1>2, <1>3, <1>4, <1>5, <1>6, <1>7

(* The program: what has been terminated no longer spawns.                   *)
LEMMA ProgramKeepsInductive ==
    ASSUME Inductive, NEW l \in Launches, Spawn(l) \/ KidExits(l) \/ RootExits(l)
    PROVE  Inductive'
<1> USE DEF Inductive, TypeOK, ArgsFollowCaller, ErrorMeansNotRun, LeaseFollowsPlace, TreeFollowsPlace,
            SuccessIsTheLaunchs, Untouched, OnlyDoomedRemain, Unstarted, AtWork,
            Launches, Callers, Codes, Places, input, tree, started, history
<1>1. CASE Spawn(l)
  <2>1. TypeOK' /\ ArgsFollowCaller'
    BY <1>1, MaxKidsAssumption DEF Spawn
  <2>2. ErrorMeansNotRun'
    BY <1>1, MaxKidsAssumption DEF Spawn
  <2>3. LeaseFollowsPlace'
    BY <1>1, MaxKidsAssumption DEF Spawn
  <2>4. TreeFollowsPlace'
    BY <1>1, MaxKidsAssumption DEF Spawn
  <2>5. SuccessIsTheLaunchs'
    BY <1>1, MaxKidsAssumption DEF Spawn
  <2> QED
    BY <2>1, <2>2, <2>3, <2>4, <2>5
<1>2. CASE KidExits(l)
  <2>1. TypeOK' /\ ArgsFollowCaller'
    BY <1>2, MaxKidsAssumption DEF KidExits
  <2>2. ErrorMeansNotRun'
    BY <1>2, MaxKidsAssumption DEF KidExits
  <2>3. LeaseFollowsPlace'
    BY <1>2, MaxKidsAssumption DEF KidExits
  <2>4. TreeFollowsPlace'
    BY <1>2, MaxKidsAssumption DEF KidExits
  <2>5. SuccessIsTheLaunchs'
    BY <1>2, MaxKidsAssumption DEF KidExits
  <2> QED
    BY <2>1, <2>2, <2>3, <2>4, <2>5
<1>3. CASE RootExits(l)
  <2>1. TypeOK' /\ ArgsFollowCaller'
    BY <1>3 DEF RootExits
  <2>2. ErrorMeansNotRun'
    BY <1>3 DEF RootExits
  <2>3. LeaseFollowsPlace'
    BY <1>3 DEF RootExits
  <2>4. TreeFollowsPlace'
    BY <1>3 DEF RootExits
  <2>5. SuccessIsTheLaunchs'
    BY <1>3 DEF RootExits
  <2> QED
    BY <2>1, <2>2, <2>3, <2>4, <2>5
<1> QED
  BY <1>1, <1>2, <1>3

(* The invariant holds.                                                      *)
LEMMA InductiveHolds == Spec => []Inductive
<1>1. Init => Inductive
  <2> SUFFICES ASSUME Init PROVE Inductive
    OBVIOUS
  <2> USE DEF Init, Launches
  <2>1. /\ root \in [Launches -> {"none", "suspended", "running", "exited"}]
        /\ status \in [Launches -> {"active"} \cup Codes]
        /\ doomed \in [Launches -> SUBSET {"root", "kids"}]
    OBVIOUS
  <2>2. kids \in [Launches -> 0..MaxKids]
    BY MaxKidsAssumption
  <2>3. TypeOK /\ ArgsFollowCaller
    BY <2>1, <2>2 DEF TypeOK, ArgsFollowCaller, Callers, Places
  <2>4. ErrorMeansNotRun /\ LeaseFollowsPlace
    BY DEF ErrorMeansNotRun, LeaseFollowsPlace, AtWork, Unstarted
  <2>5. TreeFollowsPlace
    BY DEF TreeFollowsPlace, Untouched, OnlyDoomedRemain, Unstarted
  <2>6. SuccessIsTheLaunchs
    BY DEF SuccessIsTheLaunchs
  <2> QED
    BY <2>3, <2>4, <2>5, <2>6 DEF Inductive
<1>2. Inductive /\ [Next]_vars => Inductive'
  <2>1. CASE UNCHANGED vars
    BY <2>1 DEF vars, input, tree, started, history, Inductive, TypeOK, ArgsFollowCaller,
                ErrorMeansNotRun, LeaseFollowsPlace, TreeFollowsPlace, SuccessIsTheLaunchs, Untouched,
                OnlyDoomedRemain
  <2> QED
    BY <2>1, CallerKeepsInductive, LaunchKeepsInductive, WatchKeepsInductive,
       ProgramKeepsInductive DEF Next, LauncherStep
<1> QED
  BY <1>1, <1>2, PTL DEF Spec

-----------------------------------------------------------------------------
(* What is started, and with what.                                           *)

\* The entries of the environment that a launch gives its program.
Granted(l) ==
    IF l = "wrapped" THEN LeasedEnvironmentBlock(CallerEnvironment) ELSE CallerEnvironment

\* A root has been started with the command and the environment of its launch.
Asked ==
    /\ DOMAIN argv = Launches /\ DOMAIN environment = Launches
    /\ caller = "launcher" /\ place \notin {"call", "done"} => Invocation[args].mode = "run"
    /\ place = "create" => ValidCommand(Command)
    /\ \A l \in Launches : root[l] # "none" =>
          /\ caller = "launcher" => Invocation[args].mode = "run"
          /\ argv[l] = Command /\ environment[l] = Granted(l)

(* The command is some text, and one of those that may be run.               *)
LEMMA CommandIsText ==
    ASSUME ArgsFollowCaller
    PROVE  Command \in Sentences /\ Command \in RunCommands
<1>1. args \in Sentences
  BY WordsAssumption DEF ArgsFollowCaller, Sentences, Texts
<1>2. CASE caller = "launcher"
  <2>1. args \in CommandLines
    BY <1>2 DEF ArgsFollowCaller
  <2>2. Command = Parse(args).command /\ Command = Invocation[args].command
    BY <1>2, <2>1 DEF Command, Invocation
  <2> QED
    BY <1>1, <2>1, <2>2, CommandParsed DEF RunCommands
<1>3. CASE caller # "launcher"
  BY <1>1, <1>3 DEF Command, ArgsFollowCaller, RunCommands
<1> QED
  BY <1>2, <1>3

(* A valid command that names a program arrives as it is.                    *)
LEMMA DeliveredIsCommand ==
    ASSUME ArgsFollowCaller, ValidCommand(Command), NamesFile(Command[1])
    PROVE  Delivered[Command] = Command
<1>1. Command \in Sentences /\ Command \in RunCommands
  BY CommandIsText
<1>2. Delivered[Command] = ToArgv(Joined(Command))
  BY <1>1 DEF Delivered
<1>3. Command[1] \in Texts
  <2>1. Command \in Seq(Texts) /\ Command # <<>>
    BY <1>1 DEF Sentences, ValidCommand
  <2> HIDE DEF Command
  <2>2. 1 \in 1..Len(Command)
    BY <2>1, EmptySeq
  <2> QED
    BY <2>1, <2>2
<1>4. IsProgram(Command[1])
  BY <1>3 DEF IsProgram
<1> HIDE DEF Command
<1> QED
  BY <1>1, <1>2, <1>4, RoundTrip

(* Nothing changes the command or the environment of what was started.       *)
LEMMA NextKeepsAsked ==
    ASSUME Inductive, Asked, Next
    PROVE  Asked'
<1>1. caller' = caller /\ args' = args
  BY DEF Next, LauncherStep, Call, Acquire, Create, CreateJob, AssignJob, Resume, StopUnstarted,
         PollTree, TerminateJob, LimitJob, TerminateRoot, LastWait, ReadExitCode, Release,
         ReportRun, StartUnleased, LibraryCallFails, ReportFailure, QueryFails, SteamEnds,
         Spawn, KidExits, RootExits, input
<1>2. Command' = Command
  BY <1>1 DEF Command
<1> DEFINE waiting == {"call", "done"}
<1>3. ASSUME UNCHANGED <<root, argv, environment>>,
             place' \notin waiting => place \notin waiting,
             place' = "create" => ValidCommand(Command)
      PROVE  Asked'
  BY <1>1, <1>2, <1>3 DEF Asked, Granted
<1>4. CASE Call
  <2>1. place = "call" /\ root' = root /\ argv' = argv /\ environment' = environment
    BY <1>4 DEF Call, tree, started
  <2>2. place' \in {"acquire", "done"}
    BY <1>4 DEF Call
  <2>3. caller = "launcher" /\ place' = "acquire" => Invocation[args].mode = "run"
    BY <1>4 DEF Call
  <2> QED
    BY <1>1, <1>2, <2>1, <2>2, <2>3 DEF Asked, Granted
<1>5. CASE Acquire
  <2>1. /\ UNCHANGED <<root, argv, environment>> /\ place \notin waiting
        /\ place' = "create" => ValidCommand(Command)
    BY <1>5 DEF Acquire, tree, started, Return
  <2> QED
    BY <1>3, <2>1
<1>6. CASE StartUnleased
  <2>1. /\ UNCHANGED <<root, argv, environment>> /\ place \notin waiting
        /\ place' = "create" => ValidCommand(Command)
    BY <1>6 DEF StartUnleased, tree, started, Return
  <2> QED
    BY <1>3, <2>1
<1>7. CASE \/ SteamEnds \/ Release \/ ReportRun \/ LibraryCallFails \/ ReportFailure
           \/ CreateJob \/ AssignJob \/ StopUnstarted \/ PollTree \/ QueryFails
           \/ TerminateJob \/ LimitJob \/ TerminateRoot \/ LastWait \/ ReadExitCode
           \/ \E l \in Launches : Spawn(l) \/ KidExits(l)
  <2>1. UNCHANGED <<root, argv, environment>>
    BY <1>7 DEF SteamEnds, Release, ReportRun, LibraryCallFails, ReportFailure, CreateJob,
                AssignJob, StopUnstarted, PollTree, QueryFails, TerminateJob, LimitJob,
                TerminateRoot, LastWait, ReadExitCode, Spawn, KidExits, tree, started
  <2>2. \/ place' = place
        \/ place \notin waiting /\ place' # "create"
    BY <1>7 DEF SteamEnds, Release, ReportRun, LibraryCallFails, ReportFailure, CreateJob,
                AssignJob, StopUnstarted, PollTree, QueryFails, TerminateJob, LimitJob,
                TerminateRoot, LastWait, ReadExitCode, Spawn, KidExits, Return, Leave
  <2>3. place = "create" => ValidCommand(Command)
    BY DEF Asked
  <2> QED
    BY <1>3, <2>1, <2>2, <2>3
<1>8. CASE Create
  <2>1. /\ place = "create" /\ place' # "create" /\ ValidCommand(Command)
        /\ launch \in Launches /\ root \in [Launches -> {"none", "suspended", "running", "exited"}]
        /\ ArgsFollowCaller
    BY <1>8 DEF Create, Return, Leave, Asked, Inductive, TypeOK
  <2>2. caller = "launcher" => Invocation[args].mode = "run"
    BY <2>1 DEF Asked
  <2>3. CASE UNCHANGED <<root, argv, environment>>
    BY <1>3, <2>1, <2>3
  <2>4. CASE /\ NamesFile(Command[1])
             /\ root' = [root EXCEPT ![launch] = "suspended"]
             /\ argv' = [argv EXCEPT ![launch] = Delivered[Command]]
             /\ environment' = [environment EXCEPT ![launch] = Granted(launch)]
    <3>1. Delivered[Command] = Command
      BY <2>1, <2>4, DeliveredIsCommand
    <3>2. DOMAIN argv' = Launches /\ DOMAIN environment' = Launches
      BY <2>4 DEF Asked
    <3>3. ASSUME NEW l \in Launches, root'[l] # "none"
          PROVE  argv'[l] = Command /\ environment'[l] = Granted(l)
      <4>1. CASE l = launch
        BY <2>1, <2>4, <3>1, <4>1 DEF Asked
      <4>2. CASE l # launch
        <5>1. root[l] # "none" /\ argv'[l] = argv[l] /\ environment'[l] = environment[l]
          BY <2>1, <2>4, <3>3, <4>2 DEF Asked
        <5> QED
          BY <5>1 DEF Asked
      <4> QED
        BY <4>1, <4>2
    <3>4. \A l \in Launches : Granted(l)' = Granted(l)
      BY DEF Granted
    <3> QED
      BY <1>1, <1>2, <2>1, <2>2, <3>2, <3>3, <3>4 DEF Asked
  <2> QED
    BY <1>8, <2>3, <2>4 DEF Create, Become, started, Granted
<1>9. ASSUME UNCHANGED <<argv, environment>>,
             place' = place \/ (place \notin waiting /\ place' # "create"),
             \A l \in Launches : root'[l] # "none" => root[l] # "none"
      PROVE  Asked'
  BY <1>1, <1>2, <1>9 DEF Asked, Granted
<1>10. CASE Resume
  <2>1. /\ UNCHANGED <<argv, environment>> /\ place \notin waiting /\ place' # "create"
        /\ root' \in {root, [root EXCEPT ![launch] = "running"]} /\ place = "resume"
    BY <1>10 DEF Resume, started, Become
  <2>2. /\ root[launch] = "suspended" /\ launch \in Launches
        /\ root \in [Launches -> {"none", "suspended", "running", "exited"}]
    BY <2>1 DEF Inductive, TypeOK, TreeFollowsPlace, Unstarted
  <2>3. \A l \in Launches : root'[l] # "none" => root[l] # "none"
    BY <2>1, <2>2
  <2> QED
    BY <1>9, <2>1, <2>3
<1>11. ASSUME NEW l \in Launches, RootExits(l) PROVE Asked'
  <2>1. /\ UNCHANGED <<argv, environment>> /\ place' = place
        /\ root' = [root EXCEPT ![l] = "exited"] /\ root[l] # "none"
    BY <1>11 DEF RootExits, started
  <2>2. root \in [Launches -> {"none", "suspended", "running", "exited"}]
    BY DEF Inductive, TypeOK
  <2>3. \A k \in Launches : root'[k] # "none" => root[k] # "none"
    BY <2>1, <2>2
  <2> QED
    BY <1>1, <1>2, <2>1, <2>3 DEF Asked, Granted
<1> QED
  BY <1>4, <1>5, <1>6, <1>7, <1>8, <1>10, <1>11 DEF Next, LauncherStep

(* A started root has the command and the environment of its launch.         *)
LEMMA AskedHolds == Spec => []Asked
<1>1. Init => Asked
  <2> SUFFICES ASSUME Init PROVE Asked
    OBVIOUS
  <2>1. place = "call" /\ \A l \in Launches : root[l] = "none"
    BY DEF Init
  <2>2. DOMAIN argv = Launches /\ DOMAIN environment = Launches
    BY DEF Init
  <2> QED
    BY <2>1, <2>2 DEF Asked
<1>2. Inductive /\ Asked /\ [Next]_vars => Asked'
  <2>1. CASE UNCHANGED vars
    <3>1. UNCHANGED <<caller, args, place, root, argv, environment>>
      BY <2>1 DEF vars, input, tree, started
    <3>2. Command' = Command
      BY <3>1 DEF Command
    <3> QED
      BY <3>1, <3>2 DEF Asked, Granted
  <2> QED
    BY <2>1, NextKeepsAsked
<1> QED
  BY <1>1, <1>2, InductiveHolds, PTL DEF Spec

-----------------------------------------------------------------------------

(* Every variable has its type.                                              *)
THEOREM TypeCorrect == Spec => []TypeOK
<1>1. Inductive => TypeOK
  BY DEF Inductive
<1> QED
  BY <1>1, InductiveHolds, PTL

(* The program runs at most once, however the launch fails and whoever       *)
(* starts it again.                                                          *)
THEOREM ProgramRunsAtMostOnce == Spec => []RunsAtMostOnce
<1>1. Inductive => RunsAtMostOnce
  <2> SUFFICES ASSUME Inductive PROVE Cardinality(ran) <= 1
    BY DEF RunsAtMostOnce
  <2>1. PICK who \in Launches \cup {"caller"} : ran \subseteq {who}
    BY DEF Inductive, ErrorMeansNotRun
  <2>2. ran = {} \/ ran = {who}
    BY <2>1
  <2>3. Cardinality({}) = 0 /\ Cardinality({who}) = 1
    BY FS_EmptySet, FS_Singleton
  <2> QED
    BY <2>2, <2>3
<1> QED
  BY <1>1, InductiveHolds, PTL

(* No part of a tree goes on without the lease unless it was terminated or   *)
(* nothing could terminate it.                                               *)
THEOREM LeaseCoversEveryTree == Spec => []LeaseCoversTree
<1>1. Inductive => LeaseCoversTree
  BY DEF Inductive, TypeOK, LeaseFollowsPlace, TreeFollowsPlace, LeaseCoversTree,
         TreeRunsUnderLease, NothingOutlivesTheCall, OnlyDoomedRemain, Untouched, AtWork,
         Unstarted, Launches, Places
<1> QED
  BY <1>1, InductiveHolds, PTL

(* Success is only reported for a root that ended by itself, with success.   *)
THEOREM ReportedSuccessIsReal == Spec => []SuccessIsReal
<1>1. Inductive => SuccessIsReal
  BY DEF Inductive, TypeOK, SuccessIsTheLaunchs, SuccessIsReal
<1> QED
  BY <1>1, InductiveHolds, PTL

(* A program gets, word for word, the command that follows the separator, and *)
(* the environment of its launch: no quoting changes a word, whatever blanks, *)
(* quotes and backslashes it has (parse, quote_argument,                     *)
(* leased_environment_block).                                                *)
THEOREM StartsAreAsAsked == Spec => []StartedAsAsked
<1>1. Inductive /\ Asked => StartedAsAsked
  <2> SUFFICES ASSUME Inductive, Asked PROVE StartedAsAsked
    OBVIOUS
  <2>1. CommandArrives
    <3> SUFFICES ASSUME NEW l \in Launches, root[l] # "none"
                 PROVE  IF caller = "library" THEN argv[l] = args
                        ELSE \E i \in DOMAIN args :
                           /\ args[i] = Option("--")
                           /\ argv[l] = SubSeq(args, i + 1, Len(args))
                           /\ \A j \in 1..(i - 1) : \A w \in {"--", "--help", "--status", "--rescan"} :
                                 args[j] = Option(w) =>
                                    j > 1 /\ args[j - 1] \in {Option(v) : v \in Valued}
      BY DEF CommandArrives
    <3>1. argv[l] = Command /\ (caller = "launcher" => Invocation[args].mode = "run")
      BY DEF Asked
    <3>2. CASE caller = "library"
      BY <3>1, <3>2 DEF Command
    <3>3. CASE caller # "library"
      <4>1. caller = "launcher" /\ args \in CommandLines
        BY <3>3 DEF Inductive, TypeOK, ArgsFollowCaller, Callers
      <4>2. args \in Sentences /\ Parse(args).mode = "run" /\ argv[l] = Parse(args).command
        BY <3>1, <4>1, WordsAssumption DEF Command, Invocation, Sentences, Texts
      <4> QED
        BY <3>3, <4>2, RunFollowsSeparator
    <3> QED
      BY <3>2, <3>3
  <2>2. EnvironmentFollowsLease
    <3> SUFFICES ASSUME NEW l \in Launches, root[l] # "none", NEW i \in DOMAIN CallerEnvironment
                 PROVE  CallerEnvironment[i] \in Range(environment[l])
                           <=> CallerEnvironment[i].name \notin ExclusionSpellings \/ l # "wrapped"
      BY DEF EnvironmentFollowsLease
    <3>1. environment[l] = Granted(l)
      BY DEF Asked
    <3>2. CASE l = "wrapped"
      <4>1. IsEnvironment(CallerEnvironment)
        BY EnvironmentAssumption DEF IsEnvironment
      <4> QED
        BY <3>1, <3>2, <4>1, LeasedEnvironment, ExcludedSpellings, EnvironmentAssumption
           DEF Granted
    <3>3. CASE l # "wrapped"
      BY <3>1, <3>3 DEF Granted, Range
    <3> QED
      BY <3>2, <3>3
  <2> QED
    BY <2>1, <2>2 DEF StartedAsAsked
<1> QED
  BY <1>1, InductiveHolds, AskedHolds, PTL

================================================================================
