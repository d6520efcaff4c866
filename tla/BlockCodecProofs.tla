-------------------------- MODULE BlockCodecProofs ---------------------------
(*****************************************************************************)
(* Proofs about the wire format: what one node writes, another reads, up to *)
(* what its schema does not know; and the bytes it would write of that.     *)
(*****************************************************************************)
EXTENDS BlockCodec, TLAPS, NaturalsInduction, WellFoundedInduction

------------------------------------------------------------------------------
(* Sequences, and reading field by field. *)

\* A sequence of whatever
IsSequence(s) == \E S : s \in Seq(S)

\* A sequence is a function of the numbers up to its length,
LEMMA SequenceFacts ==
  ASSUME NEW s, IsSequence(s)
  PROVE  /\ Len(s) \in Nat /\ DOMAIN s = 1..Len(s)
         /\ s = [i \in 1..Len(s) |-> s[i]]
  BY DEF IsSequence

\* and such a function is a sequence.
LEMMA FunctionIsSequence ==
  ASSUME NEW n \in Nat, NEW f, f = [i \in 1..n |-> f[i]]
  PROVE  IsSequence(f) /\ Len(f) = n /\ DOMAIN f = 1..n
<1>1. f \in Seq({f[i] : i \in 1..n})
  <2>1. \A i \in 1..n : f[i] \in {f[j] : j \in 1..n}
    OBVIOUS
  <2>2. f \in [1..n -> {f[j] : j \in 1..n}]
    BY <2>1
  <2> QED BY <2>2
<1>2. DOMAIN f = 1..n
  OBVIOUS
<1>3. Len(f) = n
  BY <1>1, <1>2
<1> QED BY <1>1, <1>2, <1>3 DEF IsSequence

\* Sequences are the same when their elements are.
LEMMA SameSequence ==
  ASSUME NEW s, NEW t, IsSequence(s), IsSequence(t), Len(s) = Len(t),
         \A i \in 1..Len(s) : s[i] = t[i]
  PROVE  s = t
<1>1. s = [i \in 1..Len(s) |-> s[i]] /\ t = [i \in 1..Len(s) |-> t[i]]
  BY SequenceFacts
<1> QED BY <1>1

\* The elements of two sequences put together
LEMMA ConcatFacts ==
  ASSUME NEW s, NEW t, IsSequence(s), IsSequence(t)
  PROVE  /\ IsSequence(s \o t) /\ Len(s \o t) = Len(s) + Len(t)
         /\ \A i \in 1..Len(s) : (s \o t)[i] = s[i]
         /\ \A i \in 1..Len(t) : (s \o t)[Len(s) + i] = t[i]
<1>1. PICK S, T : s \in Seq(S) /\ t \in Seq(T)
  BY DEF IsSequence
<1>2. s \in Seq(S \cup T) /\ t \in Seq(S \cup T)
  BY <1>1
<1>3. s \o t \in Seq(S \cup T)
  BY <1>2
<1>4. Len(s) \in Nat /\ Len(t) \in Nat
  BY <1>1
<1>5. \A i \in 1..Len(t) : (s \o t)[Len(s) + i] = t[i]
  BY <1>2, <1>4
<1> QED BY <1>2, <1>3, <1>5 DEF IsSequence

\* The elements of a sequence with one more
LEMMA AppendFacts ==
  ASSUME NEW s, NEW e, IsSequence(s)
  PROVE  /\ IsSequence(Append(s, e)) /\ Len(Append(s, e)) = Len(s) + 1
         /\ \A i \in 1..Len(s) : Append(s, e)[i] = s[i]
         /\ Append(s, e)[Len(s) + 1] = e
<1>1. PICK S : s \in Seq(S)
  BY DEF IsSequence
<1>2. s \in Seq(S \cup {e}) /\ e \in S \cup {e}
  BY <1>1
<1>3. Append(s, e) \in Seq(S \cup {e})
  BY <1>2
<1> QED BY <1>2, <1>3 DEF IsSequence

\* A set of numbers that is not empty has a least one.
LEMMA LeastNat ==
  ASSUME NEW T \in SUBSET Nat, T # {}
  PROVE  \E m \in T : \A k \in T : m <= k
<1> DEFINE R == OpToRel(<, Nat)
<1>1. IsWellFoundedOn(R, Nat)
  BY NatLessThanWellFounded
<1>2. \A m, k \in Nat : k < m => <<k, m>> \in R
  BY DEF OpToRel
<1> HIDE DEF R
<1>3. PICK m \in T : \A k \in T : ~(<<k, m>> \in R)
  BY <1>1, WFMin
<1>4. \A k \in T : ~(k < m)
  BY <1>2, <1>3
<1> QED
  BY <1>4

\* A set of numbers that has 0, and the next of each it has, has all.
LEMMA AllNumbers ==
  ASSUME NEW n \in Nat, NEW T, 0 \in T, \A k \in 0..(n - 1) : k \in T => k + 1 \in T
  PROVE  0..n \subseteq T
<1> DEFINE Missing == {k \in 0..n : k \notin T}
<1>1. SUFFICES ASSUME Missing # {} PROVE FALSE
  OBVIOUS
<1>2. PICK m \in Missing : \A k \in Missing : m <= k
  <2>1. Missing \in SUBSET Nat
    OBVIOUS
  <2> HIDE DEF Missing
  <2> QED BY <1>1, <2>1, LeastNat
<1>3. m # 0 /\ m - 1 \in 0..(n - 1) /\ m - 1 \notin Missing
  BY <1>2
<1>4. m - 1 \in T
  BY <1>3
<1> QED BY <1>2, <1>3, <1>4

\* What ReadFields defines by recursion
Reads(f, empty, reader, fields, n) ==
  f = [i \in 0..n |-> IF i = 0 THEN empty ELSE ReadField(f[i - 1], fields[i], reader)]

\* The recursion of ReadFields has a solution, ...
LEMMA ReadsExist ==
  ASSUME NEW empty, NEW reader, NEW fields, NEW n \in Nat
  PROVE  \E f : Reads(f, empty, reader, fields, n)
<1> DEFINE Next(msg, i) == ReadField(msg, fields[i], reader)
           Solved(k) == \E f : f = [i \in 0..k |-> IF i = 0 THEN empty ELSE Next(f[i - 1], i)]
           T == {k \in 0..n : Solved(k)}
<1> HIDE DEF Next
<1>1. Solved(0)
  <2>1. [i \in 0..0 |-> empty]
          = [i \in 0..0 |-> IF i = 0 THEN empty ELSE Next([j \in 0..0 |-> empty][i - 1], i)]
    OBVIOUS
  <2> QED BY <2>1
<1>2. ASSUME NEW k \in 0..(n - 1), Solved(k) PROVE Solved(k + 1)
  <2>1. PICK f : f = [i \in 0..k |-> IF i = 0 THEN empty ELSE Next(f[i - 1], i)]
    BY <1>2
  <2> DEFINE g == [i \in 0..(k + 1) |-> IF i = k + 1 THEN Next(f[k], k + 1) ELSE f[i]]
  <2>2. \A i \in 0..(k + 1) : g[i] = IF i = 0 THEN empty ELSE Next(g[i - 1], i)
    <3> SUFFICES ASSUME NEW i \in 0..(k + 1)
                 PROVE  g[i] = IF i = 0 THEN empty ELSE Next(g[i - 1], i)
      OBVIOUS
    <3>1. CASE i = k + 1
      <4>1. g[i] = Next(f[k], i) /\ g[i - 1] = f[k]
        BY <3>1
      <4> QED BY <3>1, <4>1
    <3>2. CASE i # k + 1
      <4>1. i \in 0..k /\ g[i] = f[i] /\ f[i] = IF i = 0 THEN empty ELSE Next(f[i - 1], i)
        BY <3>2, <2>1
      <4>2. i # 0 => g[i - 1] = f[i - 1]
        BY <4>1
      <4> QED BY <4>1, <4>2
    <3> QED BY <3>1, <3>2
  <2>3. g = [i \in 0..(k + 1) |-> g[i]]
    OBVIOUS
  <2> HIDE DEF g
  <2>4. g = [i \in 0..(k + 1) |-> IF i = 0 THEN empty ELSE Next(g[i - 1], i)]
    BY <2>2, <2>3
  <2> QED BY <2>4
<1>3. 0..n \subseteq T
  <2>1. 0 \in T
    BY <1>1
  <2>2. \A k \in 0..(n - 1) : k \in T => k + 1 \in T
    BY <1>2
  <2> HIDE DEF T
  <2> QED BY <2>1, <2>2, AllNumbers
<1>4. PICK f : f = [i \in 0..n |-> IF i = 0 THEN empty ELSE Next(f[i - 1], i)]
  BY <1>3
<1>5. Reads(f, empty, reader, fields, n)
  BY <1>4 DEF Next, Reads
<1> QED BY <1>5

\* ... which ReadFields takes, ...
LEMMA ReadsSolve ==
  ASSUME NEW empty, NEW reader, NEW fields, NEW n \in Nat
  PROVE  \E f : Reads(f, empty, reader, fields, n) /\ f[n] = ReadFields(empty, reader, fields, n)
<1> DEFINE Solves(g) == Reads(g, empty, reader, fields, n)
           f == CHOOSE g : Solves(g)
<1>1. \E g : Solves(g)
  BY ReadsExist
<1>2. ReadFields(empty, reader, fields, n) = f[n]
  BY DEF ReadFields, Reads
<1> HIDE DEF Solves
<1>3. Solves(f)
  BY <1>1, Zenon
<1> QED BY <1>2, <1>3 DEF Solves

\* ... and there is one only, whatever comes after.
LEMMA ReadsAgree ==
  ASSUME NEW empty, NEW reader, NEW fields, NEW other, NEW m \in Nat, NEW n \in Nat, n <= m,
         \A i \in 1..n : fields[i] = other[i], NEW f, NEW g,
         Reads(f, empty, reader, fields, n), Reads(g, empty, reader, other, m)
  PROVE  f[n] = g[n]
<1> DEFINE T == {k \in 0..n : f[k] = g[k]}
<1>0. /\ f[0] = empty /\ \A i \in 1..n : f[i] = ReadField(f[i - 1], fields[i], reader)
      /\ g[0] = empty /\ \A i \in 1..n : g[i] = ReadField(g[i - 1], other[i], reader)
  <2>1. f[0] = empty /\ \A i \in 1..n : f[i] = ReadField(f[i - 1], fields[i], reader)
    BY DEF Reads
  <2>2. g[0] = empty /\ \A i \in 1..m : g[i] = ReadField(g[i - 1], other[i], reader)
    BY DEF Reads
  <2> QED BY <2>1, <2>2
<1>1. 0 \in T
  BY <1>0
<1>2. \A k \in 0..(n - 1) : k \in T => k + 1 \in T
  <2> SUFFICES ASSUME NEW k \in 0..(n - 1), k \in T PROVE f[k + 1] = g[k + 1]
    OBVIOUS
  <2>1. k + 1 \in 1..n /\ (k + 1) - 1 = k /\ f[k] = g[k]
    OBVIOUS
  <2> QED BY <2>1, <1>0
<1> HIDE DEF T
<1>3. n \in T
  BY <1>1, <1>2, AllNumbers
<1> QED BY <1>3 DEF T

\* Reading no field,
LEMMA ReadNone ==
  ASSUME NEW empty, NEW reader, NEW fields
  PROVE  ReadFields(empty, reader, fields, 0) = empty
<1>1. 0 \in Nat
  OBVIOUS
<1>2. PICK f : Reads(f, empty, reader, fields, 0) /\ f[0] = ReadFields(empty, reader, fields, 0)
  BY <1>1, ReadsSolve
<1> QED BY <1>2 DEF Reads

\* reading the same fields,
LEMMA ReadSame ==
  ASSUME NEW empty, NEW reader, NEW fields, NEW other, NEW n \in Nat,
         \A i \in 1..n : fields[i] = other[i]
  PROVE  ReadFields(empty, reader, fields, n) = ReadFields(empty, reader, other, n)
<1>1. PICK f : Reads(f, empty, reader, fields, n) /\ f[n] = ReadFields(empty, reader, fields, n)
  BY ReadsSolve
<1>2. PICK g : Reads(g, empty, reader, other, n) /\ g[n] = ReadFields(empty, reader, other, n)
  BY ReadsSolve
<1>3. f[n] = g[n]
  BY <1>1, <1>2, ReadsAgree
<1> QED BY <1>1, <1>2, <1>3

\* and reading one field more
LEMMA ReadNext ==
  ASSUME NEW empty, NEW reader, NEW fields, NEW n \in Nat
  PROVE  ReadFields(empty, reader, fields, n + 1)
           = ReadField(ReadFields(empty, reader, fields, n), fields[n + 1], reader)
<1>0. n + 1 \in Nat /\ n <= n + 1 /\ n + 1 \in 0..(n + 1) /\ n + 1 # 0 /\ (n + 1) - 1 = n
  OBVIOUS
<1>1. PICK f : Reads(f, empty, reader, fields, n) /\ f[n] = ReadFields(empty, reader, fields, n)
  BY ReadsSolve
<1>2. PICK g : /\ Reads(g, empty, reader, fields, n + 1)
               /\ g[n + 1] = ReadFields(empty, reader, fields, n + 1)
  BY <1>0, ReadsSolve
<1>3. f[n] = g[n]
  BY <1>0, <1>1, <1>2, ReadsAgree
<1>4. g[n + 1] = ReadField(g[n], fields[n + 1], reader)
  BY <1>0, <1>2 DEF Reads
<1> QED BY <1>1, <1>2, <1>3, <1>4

------------------------------------------------------------------------------
(* What FlattenSeq() is made of. *)

\* What FlattenSeq defines by recursion
Flattens(f, ss, k) == f = [i \in 1..k |-> IF i = 1 THEN ss[i] ELSE f[i - 1] \o ss[i]]

\* FlattenSeq appends one sequence after the other.
LEMMA FlattenSteps ==
  ASSUME NEW ss, IsSequence(ss), \A i \in 1..Len(ss) : IsSequence(ss[i])
  PROVE  \E w : /\ w[0] = <<>> /\ w[Len(ss)] = FlattenSeq(ss)
                /\ \A i \in 1..Len(ss) : w[i] = w[i - 1] \o ss[i]
                /\ \A i \in 0..Len(ss) : IsSequence(w[i])
<1>0. Len(ss) \in Nat /\ ss = [i \in 1..Len(ss) |-> ss[i]] /\ IsSequence(<<>>) /\ Len(<<>>) = 0
  <2>1. <<>> \in Seq({})
    OBVIOUS
  <2> QED BY <2>1, SequenceFacts DEF IsSequence
<1> DEFINE n == Len(ss)
           T == {k \in 0..n : \E f : Flattens(f, ss, k)}
<1>1. CASE n = 0
  <2> DEFINE w == [i \in {0} |-> <<>>]
  <2>1. ss = <<>>
    BY <1>0, <1>1, SameSequence
  <2>2. FlattenSeq(ss) = <<>>
    BY <2>1, <1>1 DEF FlattenSeq
  <2>3. w[0] = <<>> /\ w[Len(ss)] = FlattenSeq(ss)
    BY <1>1, <2>2
  <2>4. \A i \in 0..Len(ss) : IsSequence(w[i])
    BY <1>0, <1>1
  <2>5. \A i \in 1..Len(ss) : w[i] = w[i - 1] \o ss[i]
    BY <1>1
  <2> QED BY <2>3, <2>4, <2>5
<1>2. CASE n # 0
  <2>1. 0 \in T
    <3>1. Flattens([i \in 1..0 |-> ss[i]], ss, 0)
      BY DEF Flattens
    <3> QED BY <3>1, <1>0
  <2>2. ASSUME NEW k \in 0..(n - 1), k \in T PROVE k + 1 \in T
    <3>1. PICK f : Flattens(f, ss, k)
      BY <2>2
    <3> DEFINE g == [i \in 1..(k + 1) |->
                  IF i = 1 THEN ss[i] ELSE (IF i = k + 1 THEN f[k] \o ss[i] ELSE f[i])]
    <3>2. \A i \in 1..(k + 1) : g[i] = IF i = 1 THEN ss[i] ELSE g[i - 1] \o ss[i]
      <4> SUFFICES ASSUME NEW i \in 1..(k + 1), i # 1 PROVE g[i] = g[i - 1] \o ss[i]
        OBVIOUS
      <4>0. k \in Nat /\ i - 1 \in 1..k /\ n \in Nat
        BY <1>0
      <4>1. g[i - 1] = f[i - 1]
        <5>1. i - 1 \in 1..(k + 1) /\ i - 1 # k + 1
          BY <4>0
        <5>2. f[i - 1] = IF i - 1 = 1 THEN ss[i - 1] ELSE f[(i - 1) - 1] \o ss[i - 1]
          BY <4>0, <3>1 DEF Flattens
        <5> QED BY <5>1, <5>2
      <4>2. CASE i = k + 1
        <5>0. i \in 1..(k + 1) /\ i # 1
          OBVIOUS
        <5>1. g[i] = f[k] \o ss[i]
          BY <4>2, <5>0
        <5>2. i - 1 = k
          BY <4>0, <4>2
        <5> HIDE DEF g
        <5> QED BY <5>1, <5>2, <4>1
      <4>3. CASE i # k + 1
        <5>1. f[i] = f[i - 1] \o ss[i]
          <6>1. i \in 1..k
            BY <4>0, <4>3
          <6> QED BY <6>1, <3>1 DEF Flattens
        <5>2. g[i] = f[i]
          BY <4>3, <4>0
        <5> HIDE DEF g
        <5> QED BY <5>1, <5>2, <4>1
      <4> QED BY <4>2, <4>3
    <3>3. g = [i \in 1..(k + 1) |-> g[i]]
      OBVIOUS
    <3> HIDE DEF g
    <3>4. Flattens(g, ss, k + 1)
      BY <3>2, <3>3 DEF Flattens
    <3>5. k + 1 \in 0..n
      BY <1>0
    <3> QED BY <3>4, <3>5
  <2>3. n \in T
    <3> HIDE DEF T
    <3>1. 0..n \subseteq T
      BY <2>1, <2>2, <1>0, AllNumbers
    <3> QED BY <3>1, <1>0
  <2> DEFINE f == CHOOSE g : Flattens(g, ss, n)
  <2>4. FlattenSeq(ss) = f[n]
    BY <1>2 DEF FlattenSeq, Flattens
  <2>5. Flattens(f, ss, n)
    <3>1. \E g : Flattens(g, ss, n)
      BY <2>3
    <3> HIDE DEF n
    <3> QED BY <3>1, Zenon
  <2> HIDE DEF f
  <2> DEFINE w == [i \in 0..n |-> IF i = 0 THEN <<>> ELSE f[i]]
  <2>6. w[0] = <<>> /\ w[n] = FlattenSeq(ss)
    BY <1>0, <1>2, <2>4
  <2>7. f[1] = ss[1] /\ \A i \in 2..n : f[i] = f[i - 1] \o ss[i]
    <3>1. n \in Nat /\ n # 0
      BY <1>0, <1>2
    <3> HIDE DEF n
    <3>2. \A i \in 1..n : f[i] = IF i = 1 THEN ss[i] ELSE f[i - 1] \o ss[i]
      BY <2>5 DEF Flattens
    <3>3. f[1] = ss[1]
      BY <3>1, <3>2
    <3>4. ASSUME NEW i \in 2..n PROVE f[i] = f[i - 1] \o ss[i]
      <4>1. i \in 1..n /\ i # 1
        BY <3>1
      <4> QED BY <4>1, <3>2
    <3> QED BY <3>3, <3>4
  <2>8. \A i \in 1..n : w[i] = w[i - 1] \o ss[i]
    <3> SUFFICES ASSUME NEW i \in 1..n PROVE w[i] = w[i - 1] \o ss[i]
      OBVIOUS
    <3>1. CASE i = 1
      <4>1. w[i] = ss[i] /\ w[i - 1] = <<>>
        BY <1>0, <2>7, <3>1
      <4>2. IsSequence(ss[i])
        OBVIOUS
      <4>3. <<>> \o ss[i] = ss[i]
        BY <4>2 DEF IsSequence
      <4> QED BY <4>1, <4>3
    <3>2. CASE i # 1
      <4>1. i \in 2..n /\ w[i] = f[i] /\ w[i - 1] = f[i - 1]
        BY <1>0, <3>2
      <4> QED BY <4>1, <2>7
    <3> QED BY <3>1, <3>2
  <2> HIDE DEF w
  <2>9. \A i \in 0..n : IsSequence(w[i])
    <3> DEFINE W == {i \in 0..n : IsSequence(w[i])}
    <3>1. 0 \in W
      BY <1>0, <2>6
    <3>2. ASSUME NEW k \in 0..(n - 1), k \in W PROVE k + 1 \in W
      <4>1. k + 1 \in 1..n /\ (k + 1) - 1 = k /\ k + 1 \in 0..n
        BY <1>0
      <4>2. w[k + 1] = w[k] \o ss[k + 1] /\ IsSequence(ss[k + 1]) /\ IsSequence(w[k])
        BY <4>1, <2>8, <3>2
      <4>3. IsSequence(w[k + 1])
        BY <4>2, ConcatFacts
      <4> QED BY <4>1, <4>3
    <3> HIDE DEF W
    <3>3. 0..n \subseteq W
      BY <3>1, <3>2, <1>0, AllNumbers
    <3> QED BY <3>3 DEF W
  <2> QED BY <2>6, <2>8, <2>9
<1> QED BY <1>1, <1>2

------------------------------------------------------------------------------
(* What one line of a writer writes, the cases of a reader read. *)

\* The cases of a reader for a field number
KnownAs(reader, no, name, how) ==
  /\ \E c \in Range(reader) : c.no = no
  /\ \A c \in Range(reader) : c.no = no => c.name = name /\ c.how = how

\* A line of a writer and the cases of a reader are about the same field of a message,
\* that is missing in the bytes only if a new message has the same there; or the reader
\* does not know the field.
Agrees(empty, reader, line, msg) ==
  /\ IsSequence(Values(line.how, msg[line.name]))
  /\ \/ /\ line.name \notin DOMAIN empty
        /\ \A c \in Range(reader) : c.no # line.no
     \/ /\ line.name \in DOMAIN empty
        /\ KnownAs(reader, line.no, line.name, IF line.how = "each" THEN "add" ELSE "set")
        /\ line.how = "each" => empty[line.name] = <<>>
        /\ line.how # "each" =>
             \/ Values(line.how, msg[line.name]) = <<msg[line.name]>>
             \/ /\ Values(line.how, msg[line.name]) = <<>>
                /\ msg[line.name] = empty[line.name]

\* The fields a line writes
LEMMA LineFieldsFacts ==
  ASSUME NEW line, NEW msg, IsSequence(Values(line.how, msg[line.name]))
  PROVE  /\ IsSequence(LineFields(line, msg))
         /\ Len(LineFields(line, msg)) = Len(Values(line.how, msg[line.name]))
         /\ \A j \in 1..Len(LineFields(line, msg)) :
              LineFields(line, msg)[j] = <<line.no, Values(line.how, msg[line.name])[j]>>
<1> DEFINE values == Values(line.how, msg[line.name])
<1>1. Len(values) \in Nat
  BY SequenceFacts
<1>2. LineFields(line, msg) = [j \in 1..Len(values) |-> <<line.no, values[j]>>]
  BY DEF LineFields
<1> HIDE DEF values
<1>3. LineFields(line, msg) = [j \in 1..Len(values) |-> LineFields(line, msg)[j]]
  BY <1>2
<1>4. IsSequence(LineFields(line, msg)) /\ Len(LineFields(line, msg)) = Len(values)
  BY <1>1, <1>3, FunctionIsSequence
<1> QED BY <1>2, <1>4 DEF values

\* A field of an unknown number changes nothing.
LEMMA FieldSkipped ==
  ASSUME NEW m, NEW field, NEW reader, \A c \in Range(reader) : c.no # field[1]
  PROVE  ReadField(m, field, reader) = m
<1>1. {c \in Range(reader) : c.no = field[1]} = {}
  OBVIOUS
<1> QED BY <1>1 DEF ReadField

\* The message that a case makes of a value
WithField(m, name, how, value) ==
  [m EXCEPT ![name] = IF how = "set" THEN value ELSE Append(m[name], value)]

\* A known one is set, or added to a list.
LEMMA FieldRead ==
  ASSUME NEW m, NEW no, NEW value, NEW reader, NEW name, NEW how \in {"set", "add"},
         KnownAs(reader, no, name, how)
  PROVE  ReadField(m, <<no, value>>, reader) = WithField(m, name, how, value)
<1> DEFINE known == {c \in Range(reader) : c.no = no}
           case == CHOOSE c \in known : TRUE
<1>1. known # {} /\ case \in known
  BY Zenon DEF KnownAs
<1>2. case.name = name /\ case.how = how
  BY <1>1 DEF KnownAs
<1> HIDE DEF case
<1>3. <<no, value>>[1] = no /\ <<no, value>>[2] = value
  OBVIOUS
<1>4. ReadField(m, <<no, value>>, reader) =
        [m EXCEPT ![case.name] =
              IF case.how = "set" THEN value
              ELSE IF case.how = "add" THEN Append(m[case.name], value)
              ELSE [k \in DOMAIN m[case.name] \cup {value[1]} |->
                      IF k = value[1] THEN value[2] ELSE m[case.name][k]]]
  BY <1>1, <1>3 DEF ReadField, case
<1>5. CASE how = "set"
  BY <1>2, <1>4, <1>5 DEF WithField
<1>6. CASE how = "add"
  BY <1>2, <1>4, <1>6 DEF WithField
<1> QED BY <1>5, <1>6

\* A message has the fields of a new one.
IsMessage(empty, m) == m = [n \in DOMAIN empty |-> m[n]]

\* A message with the field of one line from another
WithLine(empty, m, line, msg) ==
  [n \in DOMAIN empty |-> IF n = line.name THEN msg[n] ELSE m[n]]

\* Reading what a line wrote sets its field.
LEMMA LineRead ==
  ASSUME NEW empty, NEW reader, NEW line, NEW msg, NEW s, IsSequence(s), NEW m,
         Agrees(empty, reader, line, msg),
         m = ReadFields(empty, reader, s, Len(s)),
         IsMessage(empty, m),
         line.name \in DOMAIN empty => m[line.name] = empty[line.name]
  PROVE  ReadFields(empty, reader, s \o LineFields(line, msg), Len(s \o LineFields(line, msg)))
           = WithLine(empty, m, line, msg)
<1> DEFINE values == Values(line.how, msg[line.name])
           lf == LineFields(line, msg)
           t == s \o lf
           R(k) == ReadFields(empty, reader, t, Len(s) + k)
<1>0. m = [n \in DOMAIN empty |-> m[n]]
  BY DEF IsMessage
<1>1. /\ IsSequence(values) /\ IsSequence(lf) /\ Len(lf) = Len(values)
      /\ \A j \in 1..Len(lf) : lf[j] = <<line.no, values[j]>>
  BY LineFieldsFacts DEF Agrees
<1>2. Len(s) \in Nat /\ Len(values) \in Nat
  BY <1>1, SequenceFacts
<1> HIDE DEF lf, values
<1>3. /\ IsSequence(t) /\ Len(t) = Len(s) + Len(values)
      /\ \A i \in 1..Len(s) : t[i] = s[i]
      /\ \A j \in 1..Len(values) : t[Len(s) + j] = <<line.no, values[j]>>
  BY <1>1, ConcatFacts
<1> HIDE DEF t
<1>4. R(0) = m
  <2>1. R(0) = ReadFields(empty, reader, t, Len(s))
    BY <1>2
  <2>2. Len(s) \in Nat /\ \A i \in 1..Len(s) : t[i] = s[i]
    BY <1>2, <1>3
  <2>3. ReadFields(empty, reader, t, Len(s)) = ReadFields(empty, reader, s, Len(s))
    BY ONLY <2>2, ReadSame, Zenon
  <2> HIDE DEF R
  <2> QED BY <2>1, <2>3
<1>5. \A k \in 0..(Len(values) - 1) : R(k + 1) = ReadField(R(k), <<line.no, values[k + 1]>>, reader)
  <2> SUFFICES ASSUME NEW k \in 0..(Len(values) - 1)
               PROVE  R(k + 1) = ReadField(R(k), <<line.no, values[k + 1]>>, reader)
    OBVIOUS
  <2>1. Len(s) + k \in Nat /\ Len(s) + (k + 1) = (Len(s) + k) + 1 /\ k + 1 \in 1..Len(values)
    BY <1>2
  <2>2. t[(Len(s) + k) + 1] = <<line.no, values[k + 1]>>
    BY <1>3, <2>1
  <2>3. ReadFields(empty, reader, t, (Len(s) + k) + 1)
          = ReadField(ReadFields(empty, reader, t, Len(s) + k), t[(Len(s) + k) + 1], reader)
    BY <2>1, ReadNext
  <2> QED BY <2>1, <2>2, <2>3
<1>6. R(Len(values)) = ReadFields(empty, reader, t, Len(t))
  BY <1>3
<1> HIDE DEF R
<1> DEFINE result == [n \in DOMAIN empty |-> IF n = line.name THEN msg[n] ELSE m[n]]
<1>r. result = WithLine(empty, m, line, msg)
  BY DEF WithLine
<1>7. CASE line.name \notin DOMAIN empty
  <2>1. \A c \in Range(reader) : c.no # line.no
    BY <1>7 DEF Agrees
  <2> DEFINE T == {k \in 0..Len(values) : R(k) = m}
  <2>2. 0 \in T
    BY <1>2, <1>4
  <2>3. ASSUME NEW k \in 0..(Len(values) - 1), k \in T PROVE k + 1 \in T
    <3> DEFINE field == <<line.no, values[k + 1]>>
    <3>1. \A c \in Range(reader) : c.no # field[1]
      BY <2>1
    <3> HIDE DEF field
    <3>2. ReadField(R(k), field, reader) = R(k)
      BY <3>1, FieldSkipped
    <3>3. R(k + 1) = R(k)
      BY <1>5, <3>2 DEF field
    <3> QED BY <1>2, <2>3, <3>3
  <2> HIDE DEF T
  <2>4. Len(values) \in T
    <3>1. 0..Len(values) \subseteq T
      BY ONLY <1>2, <2>2, <2>3, AllNumbers
    <3> QED BY <1>2, <3>1
  <2>5. result = m
    BY <1>0, <1>7
  <2> QED BY <1>r, <1>6, <2>4, <2>5 DEF T, t, lf
<1>8. CASE line.name \in DOMAIN empty
  <2> DEFINE how == IF line.how = "each" THEN "add" ELSE "set"
             name == line.name
  <2>1. KnownAs(reader, line.no, name, how)
    BY <1>8 DEF Agrees
  <2>2. \A x, v : ReadField(x, <<line.no, v>>, reader) = WithField(x, name, how, v)
    <3>1. how \in {"set", "add"}
      OBVIOUS
    <3> HIDE DEF how, name
    <3> QED BY <2>1, <3>1, FieldRead
  <2>3. CASE line.how = "each"
    <3>1. values = msg[name] /\ empty[name] = <<>> /\ m[name] = <<>>
      BY <1>8, <2>3 DEF Agrees, Values, values
    <3> DEFINE Some(k) == [n \in DOMAIN empty |->
                 IF n = name THEN [j \in 1..k |-> values[j]] ELSE m[n]]
               T == {k \in 0..Len(values) : R(k) = Some(k)}
    <3>2. 0 \in T
      <4>1. [j \in 1..0 |-> values[j]] = <<>>
        OBVIOUS
      <4>2. Some(0) = m
        BY <1>0, <3>1, <4>1
      <4>3. 0 \in 0..Len(values)
        BY <1>2
      <4> HIDE DEF Some
      <4> QED BY <1>4, <4>2, <4>3
    <3>3. ASSUME NEW k \in 0..(Len(values) - 1), k \in T PROVE k + 1 \in T
      <4> DEFINE part == [j \in 1..k |-> values[j]]
                 next == [j \in 1..(k + 1) |-> values[j]]
      <4>1. k \in Nat /\ k + 1 \in Nat /\ k + 1 \in 0..Len(values)
        BY <1>2
      <4>2. IsSequence(part) /\ Len(part) = k /\ IsSequence(next) /\ Len(next) = k + 1
        <5>1. part = [j \in 1..k |-> part[j]] /\ next = [j \in 1..(k + 1) |-> next[j]]
          OBVIOUS
        <5> HIDE DEF part, next
        <5> QED BY <4>1, <5>1, FunctionIsSequence
      <4>3. Append(part, values[k + 1]) = next
        <5> DEFINE longer == Append(part, values[k + 1])
        <5>1. /\ IsSequence(longer) /\ Len(longer) = k + 1
              /\ \A i \in 1..k : longer[i] = part[i]
              /\ longer[k + 1] = values[k + 1]
          <6> HIDE DEF part
          <6> QED BY <4>2, AppendFacts
        <5> HIDE DEF longer
        <5>2. \A i \in 1..(k + 1) : longer[i] = next[i]
          BY <4>1, <5>1
        <5> HIDE DEF next
        <5>3. longer = next
          BY <4>2, <5>1, <5>2, SameSequence
        <5> QED BY <5>3 DEF longer
      <4>4. R(k) = Some(k) /\ Some(k)[name] = part
        BY <1>8, <3>3
      <4>5. R(k + 1) = [R(k) EXCEPT ![name] = Append(R(k)[name], values[k + 1])]
        <5>1. how = "add"
          BY <2>3
        <5> HIDE DEF how, name
        <5> QED BY <1>5, <2>2, <5>1 DEF WithField
      <4>6. R(k + 1) = [Some(k) EXCEPT ![name] = next]
        BY <4>3, <4>4, <4>5
      <4>7. [Some(k) EXCEPT ![name] = next] = Some(k + 1)
        <5> HIDE DEF next
        <5>1. [Some(k) EXCEPT ![name] = next]
                = [n \in DOMAIN empty |-> IF n = name THEN next ELSE m[n]]
          OBVIOUS
        <5> QED BY <5>1 DEF next
      <4> QED BY <4>1, <4>6, <4>7
    <3> HIDE DEF T
    <3>4. Len(values) \in T
      <4>1. 0..Len(values) \subseteq T
        BY ONLY <1>2, <3>2, <3>3, AllNumbers
      <4> QED BY <1>2, <4>1
    <3>5. [j \in 1..Len(values) |-> values[j]] = msg[name]
      BY <1>1, <3>1, SequenceFacts
    <3>6. Some(Len(values)) = result
      BY <3>5
    <3> QED BY <1>r, <1>6, <3>4, <3>6 DEF T, t, lf
  <2>4. CASE line.how # "each" /\ values = <<msg[name]>>
    <3>1. Len(values) = 1 /\ values[1] = msg[name]
      BY <2>4
    <3>2. R(1) = [R(0) EXCEPT ![name] = values[1]]
      <4>1. 0 \in 0..(Len(values) - 1) /\ 0 + 1 = 1
        BY <3>1
      <4>2. R(1) = ReadField(R(0), <<line.no, values[1]>>, reader)
        BY <1>5, <4>1
      <4>3. how = "set"
        BY <2>4
      <4> HIDE DEF how, name
      <4> QED BY <2>2, <4>2, <4>3 DEF WithField
    <3>3. R(1) = result
      BY <1>0, <3>1, <3>2, <1>4
    <3> QED BY <1>r, <1>6, <3>1, <3>3 DEF t, lf
  <2>5. CASE values = <<>> /\ msg[name] = empty[name]
    <3>1. Len(values) = 0
      BY <2>5
    <3>2. result = m
      BY <1>0, <1>8, <2>5
    <3> QED BY <1>r, <1>4, <1>6, <3>1, <3>2 DEF t, lf
  <2> QED BY <1>8, <2>3, <2>4, <2>5 DEF Agrees, values
<1> QED BY <1>7, <1>8

------------------------------------------------------------------------------
(* A message written and read, and its fields coded one by one. *)

\* The fields that a writer writes of a message, when it has to write the messages in it.
WrittenLines(writer, msg) == [i \in 1..Len(writer) |-> LineFields(writer[i], msg)]
\* All fields of a message, before their values are coded
Fields(writer, msg) == FlattenSeq(WrittenLines(writer, msg))

\* A writer's lines are about fields of their own, and agree with a reader's cases.
TablesAgree(empty, reader, writer, msg) ==
  /\ IsSequence(writer) /\ empty = [n \in DOMAIN empty |-> empty[n]]
  /\ \A i \in 1..Len(writer) : Agrees(empty, reader, writer[i], msg)
  /\ \A i, j \in 1..Len(writer) : writer[i].name = writer[j].name => i = j

\* A message as the reader knows it
AsRead(empty, writer, msg) ==
  [n \in DOMAIN empty |->
    IF \E i \in 1..Len(writer) : writer[i].name = n THEN msg[n] ELSE empty[n]]

\* What the lines write are sequences.
LEMMA LinesFacts ==
  ASSUME NEW empty, NEW reader, NEW writer, NEW msg, TablesAgree(empty, reader, writer, msg)
  PROVE  LET ss == WrittenLines(writer, msg) IN
         /\ Len(writer) \in Nat /\ IsSequence(ss) /\ Len(ss) = Len(writer)
         /\ \A i \in 1..Len(writer) : ss[i] = LineFields(writer[i], msg) /\ IsSequence(ss[i])
<1> DEFINE ss == WrittenLines(writer, msg)
<1>1. Len(writer) \in Nat
  BY SequenceFacts DEF TablesAgree
<1>2. ss = [i \in 1..Len(writer) |-> ss[i]] /\ \A i \in 1..Len(writer) : ss[i] = LineFields(writer[i], msg)
  BY DEF WrittenLines
<1>3. \A i \in 1..Len(writer) : IsSequence(LineFields(writer[i], msg))
  BY LineFieldsFacts DEF TablesAgree, Agrees
<1> HIDE DEF ss
<1>4. IsSequence(ss) /\ Len(ss) = Len(writer)
  BY <1>1, <1>2, FunctionIsSequence
<1> QED BY <1>1, <1>2, <1>3, <1>4 DEF ss

\* Reading all fields of a message gives its fields that are written.
LEMMA MessageRead ==
  ASSUME NEW empty, NEW reader, NEW writer, NEW msg, TablesAgree(empty, reader, writer, msg)
  PROVE  ReadFields(empty, reader, Fields(writer, msg), Len(Fields(writer, msg)))
           = AsRead(empty, writer, msg)
<1> DEFINE ss == WrittenLines(writer, msg)
           n == Len(writer)
           Upto(k) == [x \in DOMAIN empty |->
              IF \E i \in 1..k : writer[i].name = x THEN msg[x] ELSE empty[x]]
<1>1. /\ n \in Nat /\ IsSequence(ss) /\ Len(ss) = n
      /\ \A i \in 1..n : ss[i] = LineFields(writer[i], msg) /\ IsSequence(ss[i])
  BY LinesFacts
<1> HIDE DEF ss
<1>2. PICK w : /\ w[0] = <<>> /\ w[n] = FlattenSeq(ss)
               /\ \A i \in 1..n : w[i] = w[i - 1] \o ss[i]
               /\ \A i \in 0..n : IsSequence(w[i])
  BY <1>1, FlattenSteps
<1> HIDE DEF n
<1> DEFINE Read(k) == ReadFields(empty, reader, w[k], Len(w[k]))
           T == {k \in 0..n : Read(k) = Upto(k)}
<1>3. 0 \in T
  <2>1. Len(w[0]) = 0
    BY <1>2
  <2>2. Read(0) = empty
    BY <2>1, ReadNone
  <2>3. Upto(0) = empty
    BY DEF TablesAgree
  <2>4. 0 \in 0..n
    BY <1>1
  <2> HIDE DEF Read, Upto
  <2> QED BY <2>2, <2>3, <2>4
<1>4. ASSUME NEW k \in 0..(n - 1), k \in T PROVE k + 1 \in T
  <2> DEFINE line == writer[k + 1]
             m == Upto(k)
  <2>1. k + 1 \in 1..n /\ (k + 1) - 1 = k /\ k \in 0..n /\ k + 1 \in 0..n /\ k \in Nat
    BY <1>1
  <2>2. Agrees(empty, reader, line, msg)
    BY <2>1 DEF TablesAgree, n
  <2>3. \A i \in 1..k : writer[i].name # line.name
    <3>1. \A i \in 1..k : i \in 1..n /\ i # k + 1
      BY <2>1, <1>1
    <3> QED BY <2>1, <3>1 DEF TablesAgree, n
  <2>4. IsMessage(empty, m) /\ (line.name \in DOMAIN empty => m[line.name] = empty[line.name])
    BY <2>3 DEF IsMessage
  <2>5. w[k + 1] = w[k] \o LineFields(line, msg) /\ IsSequence(w[k])
    BY <1>1, <1>2, <2>1
  <2>6. m = ReadFields(empty, reader, w[k], Len(w[k]))
    BY <1>4
  <2>7. Upto(k + 1) = [x \in DOMAIN empty |-> IF x = line.name THEN msg[x] ELSE m[x]]
    <3>1. \A x : (\E i \in 1..(k + 1) : writer[i].name = x)
                   <=> ((\E i \in 1..k : writer[i].name = x) \/ x = line.name)
      <4>1. 1..(k + 1) = (1..k) \cup {k + 1}
        BY <2>1
      <4> QED BY <4>1
    <3>2. \A x \in DOMAIN empty : (IF \E i \in 1..(k + 1) : writer[i].name = x THEN msg[x] ELSE empty[x])
             = IF x = line.name THEN msg[x] ELSE m[x]
      BY <3>1
    <3> QED BY <3>2
  <2>a. Upto(k + 1) = WithLine(empty, m, line, msg)
    BY <2>7 DEF WithLine
  <2> HIDE DEF m, line, Upto
  <2>8. Read(k + 1) = WithLine(empty, m, line, msg)
    <3> DEFINE s == w[k]
    <3>1. IsSequence(s) /\ m = ReadFields(empty, reader, s, Len(s))
      BY <2>5, <2>6
    <3>2. w[k + 1] = s \o LineFields(line, msg)
      BY <2>5
    <3> HIDE DEF s
    <3>3. ReadFields(empty, reader, s \o LineFields(line, msg), Len(s \o LineFields(line, msg)))
            = WithLine(empty, m, line, msg)
      BY ONLY <2>2, <2>4, <3>1, LineRead
    <3> QED BY <3>2, <3>3
  <2>9. Read(k + 1) = Upto(k + 1)
    BY <2>a, <2>8
  <2> QED BY <2>1, <2>9
<1>5. n \in T
  <2> HIDE DEF T
  <2>1. 0..n \subseteq T
    BY <1>1, <1>3, <1>4, AllNumbers
  <2> QED BY <1>1, <2>1
<1>6. Upto(n) = AsRead(empty, writer, msg)
  BY DEF AsRead, n
<1> QED BY <1>2, <1>5, <1>6 DEF Fields, ss

\* Sequences of sequences of the same lengths, of which one comes from the other
Shaped(ss, tt) ==
  /\ IsSequence(ss) /\ IsSequence(tt) /\ Len(ss) = Len(tt)
  /\ \A i \in 1..Len(ss) : IsSequence(ss[i]) /\ IsSequence(tt[i]) /\ Len(ss[i]) = Len(tt[i])
\* Each element of tt is decoded to that of ss at its place.
MapsBack(ss, tt, d, G) ==
  \A i \in 1..Len(ss) : \A j \in 1..Len(ss[i]) : tt[i][j] \in G /\ d[tt[i][j]] = ss[i][j]

\* What comes out of FlattenSeq comes from the sequences one by one.
LEMMA FlattenMapped ==
  ASSUME NEW ss, NEW tt, NEW d, NEW G, Shaped(ss, tt), MapsBack(ss, tt, d, G)
  PROVE  /\ IsSequence(FlattenSeq(ss)) /\ IsSequence(FlattenSeq(tt))
         /\ Len(FlattenSeq(ss)) = Len(FlattenSeq(tt))
         /\ \A p \in 1..Len(FlattenSeq(ss)) :
              FlattenSeq(tt)[p] \in G /\ d[FlattenSeq(tt)[p]] = FlattenSeq(ss)[p]
<1> DEFINE n == Len(ss)
           Mapped(v, w) == /\ IsSequence(v) /\ IsSequence(w) /\ Len(v) = Len(w)
                           /\ \A p \in 1..Len(v) : w[p] \in G /\ d[w[p]] = v[p]
<1>0. /\ IsSequence(ss) /\ IsSequence(tt) /\ Len(ss) = Len(tt)
      /\ \A i \in 1..Len(ss) : IsSequence(ss[i]) /\ IsSequence(tt[i]) /\ Len(ss[i]) = Len(tt[i])
  BY DEF Shaped
<1>1. n \in Nat
  BY <1>0, SequenceFacts
<1>2. PICK v : /\ v[0] = <<>> /\ v[n] = FlattenSeq(ss)
               /\ \A i \in 1..n : v[i] = v[i - 1] \o ss[i]
               /\ \A i \in 0..n : IsSequence(v[i])
  BY <1>0, FlattenSteps
<1>3. PICK w : /\ w[0] = <<>> /\ w[n] = FlattenSeq(tt)
               /\ \A i \in 1..n : w[i] = w[i - 1] \o tt[i]
               /\ \A i \in 0..n : IsSequence(w[i])
  <2>1. Len(tt) = n /\ \A i \in 1..Len(tt) : IsSequence(tt[i])
    BY <1>0
  <2> HIDE DEF n
  <2> QED BY <1>0, <2>1, FlattenSteps
<1>4. \A i \in 1..n : Mapped(ss[i], tt[i])
  BY <1>0 DEF MapsBack
<1>5. ASSUME NEW a, NEW b, NEW e, NEW f, Mapped(a, b), Mapped(e, f)
      PROVE  Mapped(a \o e, b \o f)
  <2>0. /\ IsSequence(a) /\ IsSequence(b) /\ IsSequence(e) /\ IsSequence(f)
        /\ Len(a) = Len(b) /\ Len(e) = Len(f)
    BY <1>5
  <2>1. /\ IsSequence(a \o e) /\ Len(a \o e) = Len(a) + Len(e)
        /\ \A i \in 1..Len(a) : (a \o e)[i] = a[i]
        /\ \A i \in 1..Len(e) : (a \o e)[Len(a) + i] = e[i]
    BY ONLY <2>0, ConcatFacts
  <2>2. /\ IsSequence(b \o f) /\ Len(b \o f) = Len(a) + Len(e)
        /\ \A i \in 1..Len(a) : (b \o f)[i] = b[i]
        /\ \A i \in 1..Len(e) : (b \o f)[Len(a) + i] = f[i]
    BY ONLY <2>0, ConcatFacts
  <2>3. Len(a) \in Nat /\ Len(e) \in Nat
    BY ONLY <2>0, SequenceFacts
  <2>4. ASSUME NEW p \in 1..Len(a \o e)
        PROVE  (b \o f)[p] \in G /\ d[(b \o f)[p]] = (a \o e)[p]
    <3>1. CASE p \in 1..Len(a)
      BY <1>5, <2>1, <2>2, <3>1
    <3>2. CASE p \notin 1..Len(a)
      <4> DEFINE q == p - Len(a)
      <4>1. q \in 1..Len(e) /\ p = Len(a) + q
        BY <2>1, <2>3, <3>2
      <4> HIDE DEF q
      <4> QED BY <1>5, <2>1, <2>2, <4>1
    <3> QED BY <3>1, <3>2
  <2> QED BY <2>1, <2>2, <2>4
<1> DEFINE T == {k \in 0..n : Mapped(v[k], w[k])}
<1>6. 0 \in T
  <2>1. 0 \in 0..n /\ IsSequence(v[0]) /\ IsSequence(w[0])
    BY <1>1, <1>2, <1>3
  <2>2. Len(v[0]) = 0 /\ Len(w[0]) = 0
    BY <1>2, <1>3
  <2>3. Mapped(v[0], w[0])
    BY <2>1, <2>2
  <2> HIDE DEF Mapped, n
  <2> QED BY <2>1, <2>3
<1> HIDE DEF n, Mapped
<1>7. ASSUME NEW k \in 0..(n - 1), k \in T PROVE k + 1 \in T
  <2>1. k + 1 \in 1..n /\ (k + 1) - 1 = k /\ k + 1 \in 0..n
    BY <1>1
  <2>2. v[k + 1] = v[k] \o ss[k + 1] /\ w[k + 1] = w[k] \o tt[k + 1]
    BY <1>2, <1>3, <2>1
  <2>3. Mapped(v[k + 1], w[k + 1])
    BY <1>4, <1>5, <1>7, <2>1, <2>2
  <2> QED BY <2>1, <2>3
<1>8. n \in T
  <2> HIDE DEF T
  <2>1. 0..n \subseteq T
    BY <1>1, <1>6, <1>7, AllNumbers
  <2> QED BY <1>1, <2>1
<1> QED BY <1>2, <1>3, <1>8 DEF Mapped

------------------------------------------------------------------------------
(* Decode() of what Encode() makes. *)

\* A message is read back from lines that hold its fields coded.
LEMMA DecodeCoded ==
  ASSUME NEW empty, NEW reader, NEW writer, NEW msg, TablesAgree(empty, reader, writer, msg),
         NEW tt, NEW dec, NEW G, Shaped(WrittenLines(writer, msg), tt),
         MapsBack(WrittenLines(writer, msg), tt, dec, G),
         NEW bytes, bytes = FlattenSeq(tt)
  PROVE  /\ IsSequence(bytes)
         /\ \A p \in 1..Len(bytes) : bytes[p] \in G
         /\ ReadFields(empty, reader, [p \in DOMAIN bytes |-> dec[bytes[p]]], Len(bytes))
              = AsRead(empty, writer, msg)
<1> DEFINE ss == WrittenLines(writer, msg)
           n == Len(bytes)
           wrote == Fields(writer, msg)
           fields == [p \in DOMAIN bytes |-> dec[bytes[p]]]
<1>1. /\ IsSequence(FlattenSeq(ss)) /\ IsSequence(FlattenSeq(tt))
      /\ Len(FlattenSeq(ss)) = Len(FlattenSeq(tt))
      /\ \A p \in 1..Len(FlattenSeq(ss)) :
           FlattenSeq(tt)[p] \in G /\ dec[FlattenSeq(tt)[p]] = FlattenSeq(ss)[p]
  <2>1. Shaped(ss, tt) /\ MapsBack(ss, tt, dec, G)
    OBVIOUS
  <2> HIDE DEF ss
  <2> QED BY ONLY <2>1, FlattenMapped
<1>2. Fields(writer, msg) = FlattenSeq(ss)
  BY DEF Fields, ss
<1> HIDE DEF ss
<1>3. n \in Nat /\ n = Len(wrote) /\ \A p \in 1..n : fields[p] = wrote[p]
  BY <1>1, <1>2, SequenceFacts
<1> HIDE DEF n, wrote, fields
<1>4. ReadFields(empty, reader, fields, n) = ReadFields(empty, reader, wrote, n)
  BY ONLY <1>3, ReadSame
<1>5. ReadFields(empty, reader, wrote, Len(wrote)) = AsRead(empty, writer, msg)
  BY MessageRead DEF wrote
<1> QED BY <1>1, <1>2, <1>3, <1>4, <1>5 DEF n, fields

\* The fields of a message, and its lines as they are written when enc says what becomes
\* of a field
FieldsOf(writer, msg) ==
  UNION {{LineFields(writer[i], msg)[j] : j \in 1..Len(LineFields(writer[i], msg))}
         : i \in 1..Len(writer)}
\* The lines with their values coded, and the codes there are
CodedLines(writer, msg, enc) ==
  [i \in 1..Len(writer) |->
    [j \in 1..Len(LineFields(writer[i], msg)) |-> enc[LineFields(writer[i], msg)[j]]]]

\* The codes of the fields of a message
Codes(writer, msg, enc) == {enc[f] : f \in FieldsOf(writer, msg)}

\* A value that is written is in a field.
LEMMA CodedField ==
  ASSUME NEW writer, NEW msg, NEW i \in 1..Len(writer),
         IsSequence(Values(writer[i].how, msg[writer[i].name])),
         NEW j \in 1..Len(Values(writer[i].how, msg[writer[i].name]))
  PROVE  <<writer[i].no, Values(writer[i].how, msg[writer[i].name])[j]>>
           \in FieldsOf(writer, msg)
<1>1. /\ j \in 1..Len(LineFields(writer[i], msg))
      /\ LineFields(writer[i], msg)[j]
           = <<writer[i].no, Values(writer[i].how, msg[writer[i].name])[j]>>
  BY LineFieldsFacts
<1>2. LineFields(writer[i], msg)[j] \in FieldsOf(writer, msg)
  BY <1>1 DEF FieldsOf
<1> QED BY <1>1, <1>2

\* What becomes of a field is read as the same field of another message.
ReadsAs(writer, msg, enc, dec, other) ==
  \A i \in 1..Len(writer) :
    LET was == Values(writer[i].how, msg[writer[i].name])
        is == Values(writer[i].how, other[writer[i].name])
    IN  /\ IsSequence(was) /\ Len(was) = Len(is)
        /\ \A j \in 1..Len(was) :
             dec[enc[<<writer[i].no, was[j]>>]] = <<writer[i].no, is[j]>>

\* What a node that decodes with dec makes of bytes
DecodedFields(dec, bytes) == [p \in DOMAIN bytes |-> dec[bytes[p]]]

\* Bytes are fields coded so that they are read as another message.
ReadBack(empty, reader, writer, msg, enc, dec, other, bytes) ==
  /\ IsSequence(bytes) /\ \A p \in 1..Len(bytes) : bytes[p] \in Codes(writer, msg, enc)
  /\ ReadFields(empty, reader, DecodedFields(dec, bytes), Len(bytes))
       = AsRead(empty, writer, other)

\* A message that is written is read as the one that its fields are read as.
LEMMA DecodeEncode ==
  ASSUME NEW empty, NEW reader, NEW writer, NEW msg, NEW other,
         TablesAgree(empty, reader, writer, other),
         NEW enc, NEW dec, ReadsAs(writer, msg, enc, dec, other),
         NEW bytes, bytes = FlattenSeq(CodedLines(writer, msg, enc))
  PROVE  ReadBack(empty, reader, writer, msg, enc, dec, other, bytes)
<1> DEFINE ss == WrittenLines(writer, other)
           tt == CodedLines(writer, msg, enc)
           G == Codes(writer, msg, enc)
           was(i) == Values(writer[i].how, msg[writer[i].name])
           is(i) == Values(writer[i].how, other[writer[i].name])
<1>1. /\ Len(writer) \in Nat /\ IsSequence(ss) /\ Len(ss) = Len(writer)
      /\ \A i \in 1..Len(writer) : ss[i] = LineFields(writer[i], other) /\ IsSequence(ss[i])
  BY LinesFacts
<1>2. ASSUME NEW i \in 1..Len(writer)
      PROVE  /\ IsSequence(ss[i]) /\ Len(ss[i]) = Len(is(i))
             /\ \A j \in 1..Len(is(i)) : ss[i][j] = <<writer[i].no, is(i)[j]>>
  <2>1. IsSequence(is(i))
    BY DEF TablesAgree, Agrees
  <2> QED BY <1>1, <2>1, LineFieldsFacts
<1>3. ASSUME NEW i \in 1..Len(writer)
      PROVE  /\ Len(is(i)) \in Nat /\ Len(was(i)) = Len(is(i))
             /\ \A j \in 1..Len(is(i)) :
                  /\ enc[<<writer[i].no, was(i)[j]>>] \in G
                  /\ dec[enc[<<writer[i].no, was(i)[j]>>]] = <<writer[i].no, is(i)[j]>>
  <2>1. IsSequence(is(i))
    BY DEF TablesAgree, Agrees
  <2>2. Len(is(i)) \in Nat
    <3> HIDE DEF is
    <3> QED BY <2>1, SequenceFacts
  <2>3. /\ IsSequence(was(i)) /\ Len(was(i)) = Len(is(i))
        /\ \A j \in 1..Len(was(i)) :
             dec[enc[<<writer[i].no, was(i)[j]>>]] = <<writer[i].no, is(i)[j]>>
    BY DEF ReadsAs
  <2>4. \A j \in 1..Len(was(i)) : <<writer[i].no, was(i)[j]>> \in FieldsOf(writer, msg)
    BY <2>3, CodedField
  <2> HIDE DEF was, is
  <2>5. \A j \in 1..Len(was(i)) : enc[<<writer[i].no, was(i)[j]>>] \in G
    BY <2>4 DEF Codes
  <2> QED BY <2>2, <2>3, <2>5
<1>4. ASSUME NEW i \in 1..Len(writer)
      PROVE  tt[i] = [j \in 1..Len(is(i)) |-> enc[<<writer[i].no, was(i)[j]>>]]
  <2>1. IsSequence(was(i))
    BY DEF ReadsAs
  <2>2. /\ Len(LineFields(writer[i], msg)) = Len(was(i))
        /\ \A j \in 1..Len(was(i)) : LineFields(writer[i], msg)[j] = <<writer[i].no, was(i)[j]>>
    BY <2>1, LineFieldsFacts
  <2>3. tt[i] = [j \in 1..Len(LineFields(writer[i], msg)) |-> enc[LineFields(writer[i], msg)[j]]]
    BY DEF CodedLines
  <2> HIDE DEF tt, was, is
  <2> QED BY <1>3, <2>2, <2>3
<1>5. tt = [i \in 1..Len(writer) |-> tt[i]]
  BY DEF CodedLines
<1>a. bytes = FlattenSeq(tt)
  OBVIOUS
<1> HIDE DEF ss, tt, was, is, G
<1>6. IsSequence(tt) /\ Len(tt) = Len(ss)
  BY <1>1, <1>5, FunctionIsSequence
<1>7. \A i \in 1..Len(writer) : IsSequence(tt[i]) /\ Len(ss[i]) = Len(tt[i])
  <2> SUFFICES ASSUME NEW i \in 1..Len(writer) PROVE IsSequence(tt[i]) /\ Len(ss[i]) = Len(tt[i])
    OBVIOUS
  <2>1. Len(is(i)) \in Nat
    BY <1>3
  <2>2. tt[i] = [j \in 1..Len(is(i)) |-> tt[i][j]]
    BY <1>4
  <2> QED BY <1>2, <2>1, <2>2, FunctionIsSequence
<1>8. Shaped(ss, tt)
  BY <1>1, <1>2, <1>6, <1>7 DEF Shaped
<1>9. MapsBack(ss, tt, dec, G)
  <2> SUFFICES ASSUME NEW i \in 1..Len(ss), NEW j \in 1..Len(ss[i])
               PROVE  tt[i][j] \in G /\ dec[tt[i][j]] = ss[i][j]
    BY DEF MapsBack
  <2>1. i \in 1..Len(writer) /\ j \in 1..Len(is(i))
    BY <1>1, <1>2
  <2>2. tt[i][j] = enc[<<writer[i].no, was(i)[j]>>]
    BY <1>4, <2>1
  <2> QED BY <1>2, <1>3, <2>1, <2>2
<1>10. Shaped(WrittenLines(writer, other), tt) /\ MapsBack(WrittenLines(writer, other), tt, dec, G)
  BY <1>8, <1>9 DEF ss
<1>11. /\ IsSequence(bytes) /\ \A p \in 1..Len(bytes) : bytes[p] \in G
       /\ ReadFields(empty, reader, [p \in DOMAIN bytes |-> dec[bytes[p]]], Len(bytes))
            = AsRead(empty, writer, other)
  BY ONLY <1>10, <1>a, TablesAgree(empty, reader, writer, other), DecodeCoded
<1> QED BY <1>11 DEF G, DecodedFields, ReadBack

\* A message without messages in it is read as it was written.
LEMMA PlainBack ==
  ASSUME NEW empty, NEW reader, NEW writer, NEW msg, TablesAgree(empty, reader, writer, msg)
  PROVE  /\ IsSequence(Encode(writer, Plain, msg))
         /\ Decode(empty, reader, Plain, Encode(writer, Plain, msg)) = AsRead(empty, writer, msg)
<1> DEFINE F == FieldsOf(writer, msg)
           id == [f \in F |-> <<f[1], f[2]>>]
           bytes == FlattenSeq(CodedLines(writer, msg, id))
           fields == [p \in DOMAIN bytes |-> <<bytes[p][1], bytes[p][2]>>]
<1>1. Encode(writer, Plain, msg) = bytes
  <2>1. \A i \in 1..Len(writer) : \A j \in 1..Len(LineFields(writer[i], msg)) :
          LineFields(writer[i], msg)[j] \in F
    BY DEF FieldsOf
  <2> HIDE DEF F
  <2>2. \A i \in 1..Len(writer) : \A j \in 1..Len(LineFields(writer[i], msg)) :
          id[LineFields(writer[i], msg)[j]]
            = <<LineFields(writer[i], msg)[j][1], LineFields(writer[i], msg)[j][2]>>
    BY <2>1
  <2> HIDE DEF id
  <2>3. \A i \in 1..Len(writer) :
          [j \in 1..Len(LineFields(writer[i], msg)) |->
             <<LineFields(writer[i], msg)[j][1], LineFields(writer[i], msg)[j][2]>>]
          = [j \in 1..Len(LineFields(writer[i], msg)) |-> id[LineFields(writer[i], msg)[j]]]
    BY <2>2
  <2>4. [i \in 1..Len(writer) |-> [j \in 1..Len(LineFields(writer[i], msg)) |->
             <<LineFields(writer[i], msg)[j][1], LineFields(writer[i], msg)[j][2]>>]]
          = CodedLines(writer, msg, id)
    BY <2>3 DEF CodedLines
  <2> QED BY <2>4 DEF Encode, Plain
<1>2. ReadsAs(writer, msg, id, id, msg)
  <2> SUFFICES ASSUME NEW i \in 1..Len(writer)
               PROVE  LET vs == Values(writer[i].how, msg[writer[i].name]) IN
                      /\ IsSequence(vs)
                      /\ \A j \in 1..Len(vs) : id[id[<<writer[i].no, vs[j]>>]] = <<writer[i].no, vs[j]>>
    BY DEF ReadsAs
  <2> DEFINE vs == Values(writer[i].how, msg[writer[i].name])
  <2>1. IsSequence(vs)
    BY DEF TablesAgree, Agrees
  <2>2. \A j \in 1..Len(vs) : <<writer[i].no, vs[j]>> \in F
    BY <2>1, CodedField
  <2> HIDE DEF vs, F
  <2>3. \A j \in 1..Len(vs) : id[<<writer[i].no, vs[j]>>] = <<writer[i].no, vs[j]>>
    BY <2>2
  <2> HIDE DEF id
  <2> QED BY <2>1, <2>3 DEF vs
<1>3. bytes = FlattenSeq(CodedLines(writer, msg, id))
  OBVIOUS
<1>a. \A c \in Codes(writer, msg, id) : id[c] = <<c[1], c[2]>>
  <2> SUFFICES ASSUME NEW f \in F PROVE id[id[f]] = <<id[f][1], id[f][2]>>
    BY DEF Codes
  <2>1. f = <<f[1], f[2]>>
    <3>1. PICK i \in 1..Len(writer) : \E j \in 1..Len(LineFields(writer[i], msg)) :
                 f = LineFields(writer[i], msg)[j]
      BY DEF FieldsOf
    <3>2. IsSequence(Values(writer[i].how, msg[writer[i].name]))
      BY DEF TablesAgree, Agrees
    <3>3. \A j \in 1..Len(LineFields(writer[i], msg)) : LineFields(writer[i], msg)[j]
            = <<writer[i].no, Values(writer[i].how, msg[writer[i].name])[j]>>
      BY <3>2, LineFieldsFacts
    <3> QED BY <3>1, <3>3
  <2> HIDE DEF F
  <2>2. id[f] = f
    BY <2>1
  <2> QED BY <2>1, <2>2
<1> HIDE DEF bytes, F, id
<1>4. ReadBack(empty, reader, writer, msg, id, id, msg, bytes)
  BY ONLY <1>2, <1>3, TablesAgree(empty, reader, writer, msg), DecodeEncode
<1>5. fields = DecodedFields(id, bytes)
  BY <1>4, <1>a, SequenceFacts DEF DecodedFields, ReadBack
<1> QED BY <1>1, <1>4, <1>5 DEF Decode, Plain, ReadBack

------------------------------------------------------------------------------
(* Tables of readers and writers that fit each other. *)

\* What a line writes of a field that it may leave out is enough.
LEMMA ShortSequences == IsSequence(<<>>) /\ \A v : IsSequence(<<v>>)
<1>1. <<>> \in Seq({}) /\ \A v : <<v>> \in Seq({v})
  OBVIOUS
<1> QED BY <1>1 DEF IsSequence

\* When a line of a writer agrees with a reader
LEMMA LineAgrees ==
  ASSUME NEW empty, NEW reader, NEW line, NEW msg, line.name \in DOMAIN empty,
         line.how \in {"number", "text", "bytes", "message", "each"},
         KnownAs(reader, line.no, line.name, IF line.how = "each" THEN "add" ELSE "set"),
         line.how = "number" => empty[line.name] = 0,
         line.how = "text" => empty[line.name] = "",
         line.how = "bytes" => empty[line.name] = <<>>,
         line.how = "message" => empty[line.name] = Null,
         line.how = "each" => empty[line.name] = <<>> /\ IsSequence(msg[line.name])
  PROVE  Agrees(empty, reader, line, msg)
<1> DEFINE value == msg[line.name]
           values == Values(line.how, value)
<1>1. IsSequence(<<>>) /\ IsSequence(<<value>>)
  BY ShortSequences
<1>2. CASE line.how = "each"
  <2>1. values = value
    BY <1>2 DEF Values
  <2> QED BY <1>2, <2>1 DEF Agrees
<1>3. CASE line.how # "each"
  <2>1. values = <<value>> \/ (values = <<>> /\ value = empty[line.name])
    BY <1>3 DEF Values
  <2>2. IsSequence(values)
    BY <1>1, <2>1
  <2> QED BY <1>3, <2>1, <2>2 DEF Agrees
<1> QED BY <1>2, <1>3

\* The case of a number, found in the table
LEMMA KnownBy ==
  ASSUME NEW reader, NEW no, NEW name, NEW how, NEW i \in DOMAIN reader,
         reader[i] = Case(no, how, name),
         \A j \in DOMAIN reader : reader[j].no = no => j = i
  PROVE  KnownAs(reader, no, name, how)
<1>1. Range(reader) = {reader[j] : j \in DOMAIN reader}
  BY DEF Range
<1>2. reader[i].no = no /\ reader[i].name = name /\ reader[i].how = how
  BY DEF Case
<1>3. \A c \in Range(reader) : c.no = no => c = reader[i]
  BY <1>1
<1> QED BY <1>1, <1>2, <1>3 DEF KnownAs

\* What the getters return of a field that was not read, by how a line writes it
IsDefault(value, how) ==
  /\ how = "number" => value = 0
  /\ how = "text" => value = ""
  /\ how = "bytes" => value = <<>>
  /\ how = "message" => value = Null
  /\ how = "each" => value = <<>>
\* The case that reads what a line writes
CaseOf(line) == Case(line.no, IF line.how = "each" THEN "add" ELSE "set", line.name)

\* A reader and a writer that go through the same fields in the same order
SameTables(empty, reader, writer) ==
  /\ IsSequence(writer) /\ IsSequence(reader) /\ Len(reader) = Len(writer)
  /\ empty = [n \in DOMAIN empty |-> empty[n]]
  /\ \A i, j \in 1..Len(writer) :
       writer[i].name = writer[j].name \/ writer[i].no = writer[j].no => i = j
  /\ \A i \in 1..Len(writer) :
       /\ writer[i].how \in {"number", "text", "bytes", "message", "each"}
       /\ reader[i] = CaseOf(writer[i])
       /\ writer[i].name \in DOMAIN empty
       /\ IsDefault(empty[writer[i].name], writer[i].how)
  /\ \A n \in DOMAIN empty : \E i \in 1..Len(writer) : writer[i].name = n

\* Such tables agree on every message.
LEMMA TablesFit ==
  ASSUME NEW empty, NEW reader, NEW writer, NEW msg, SameTables(empty, reader, writer),
         \A i \in 1..Len(writer) : writer[i].how = "each" => IsSequence(msg[writer[i].name])
  PROVE  /\ TablesAgree(empty, reader, writer, msg)
         /\ IsMessage(empty, msg) => AsRead(empty, writer, msg) = msg
<1>1. ASSUME NEW i \in 1..Len(writer) PROVE Agrees(empty, reader, writer[i], msg)
  <2> DEFINE line == writer[i]
             how == IF line.how = "each" THEN "add" ELSE "set"
  <2>1. /\ line.how \in {"number", "text", "bytes", "message", "each"}
        /\ reader[i] = CaseOf(line)
        /\ line.name \in DOMAIN empty
        /\ IsDefault(empty[line.name], line.how)
    BY DEF SameTables
  <2>2. \A j \in 1..Len(writer) : reader[j].no = writer[j].no
    <3> SUFFICES ASSUME NEW j \in 1..Len(writer) PROVE reader[j].no = writer[j].no
      OBVIOUS
    <3>1. reader[j] = CaseOf(writer[j])
      BY DEF SameTables
    <3> QED BY <3>1 DEF CaseOf, Case
  <2>3. DOMAIN reader = 1..Len(writer)
    BY SequenceFacts DEF SameTables
  <2>4. \A j \in DOMAIN reader : reader[j].no = line.no => j = i
    BY <2>2, <2>3 DEF SameTables
  <2>5. KnownAs(reader, line.no, line.name, how)
    <3> HIDE DEF line, how
    <3>1. i \in DOMAIN reader
      BY <2>3
    <3>2. reader[i] = Case(line.no, how, line.name)
      BY <2>1 DEF CaseOf, how
    <3> QED BY <2>4, <3>1, <3>2, KnownBy
  <2>6. /\ line.how = "number" => empty[line.name] = 0
        /\ line.how = "text" => empty[line.name] = ""
        /\ line.how = "bytes" => empty[line.name] = <<>>
        /\ line.how = "message" => empty[line.name] = Null
        /\ line.how = "each" => empty[line.name] = <<>> /\ IsSequence(msg[line.name])
    BY <2>1 DEF IsDefault
  <2> HIDE DEF line
  <2>7. Agrees(empty, reader, line, msg)
    BY <2>1, <2>5, <2>6, LineAgrees DEF how
  <2> QED BY <2>7 DEF line
<1>2. TablesAgree(empty, reader, writer, msg)
  BY <1>1 DEF SameTables, TablesAgree
<1>3. ASSUME IsMessage(empty, msg) PROVE AsRead(empty, writer, msg) = msg
  <2>1. \A n \in DOMAIN empty : \E i \in 1..Len(writer) : writer[i].name = n
    BY DEF SameTables
  <2>2. AsRead(empty, writer, msg) = [n \in DOMAIN empty |-> msg[n]]
    BY <2>1 DEF AsRead
  <2> QED BY <1>3, <2>2 DEF IsMessage
<1> QED BY <1>2, <1>3

\* The messages of block.proto that have no message in them
IsTransaction(tx) == IsMessage(EmptyTransaction, tx) /\ IsSequence(tx.recipients)

\* Reader and writer of transactions have the same fields.
LEMMA TransactionTables ==
  SameTables(EmptyTransaction, TransactionReader, TransactionWriter)
<1> DEFINE W == TransactionWriter
           R == TransactionReader
           E == EmptyTransaction
<1>1. /\ W = [i \in 1..9 |-> W[i]]
      /\ W[1] = Line(1, "number", "type") /\ W[2] = Line(2, "text", "category")
      /\ W[3] = Line(3, "bytes", "sender") /\ W[4] = Line(4, "each", "recipients")
      /\ W[5] = Line(5, "bytes", "data") /\ W[6] = Line(6, "text", "salt")
      /\ W[7] = Line(7, "text", "apitoken") /\ W[8] = Line(8, "bytes", "signature")
      /\ W[9] = Line(9, "text", "fee")
  BY DEF TransactionWriter
<1>2. /\ R = [i \in 1..9 |-> R[i]]
      /\ R[1] = Case(1, "set", "type") /\ R[2] = Case(2, "set", "category")
      /\ R[3] = Case(3, "set", "sender") /\ R[4] = Case(4, "add", "recipients")
      /\ R[5] = Case(5, "set", "data") /\ R[6] = Case(6, "set", "salt")
      /\ R[7] = Case(7, "set", "apitoken") /\ R[8] = Case(8, "set", "signature")
      /\ R[9] = Case(9, "set", "fee")
  BY DEF TransactionReader
<1>3. DOMAIN E = {"type", "category", "sender", "recipients", "data", "salt", "apitoken",
                  "signature", "fee"}
      /\ E = [n \in DOMAIN E |-> E[n]]
  BY DEF EmptyTransaction
<1>4. /\ E["type"] = 0 /\ E["category"] = "" /\ E["sender"] = <<>> /\ E["recipients"] = <<>>
      /\ E["data"] = <<>> /\ E["salt"] = "" /\ E["apitoken"] = "" /\ E["signature"] = <<>>
      /\ E["fee"] = ""
  BY DEF EmptyTransaction
<1> HIDE DEF W, R, E
<1>5. IsSequence(W) /\ IsSequence(R) /\ Len(W) = 9 /\ Len(R) = 9
  <2>1. 9 \in Nat
    OBVIOUS
  <2> QED BY <1>1, <1>2, <2>1, FunctionIsSequence
<1>6. \A i \in 1..9 : W[i].no = i
  BY <1>1 DEF Line
<1>7. \A i, j \in 1..9 : W[i].name = W[j].name => i = j
  BY <1>1 DEF Line
<1>8. \A i \in 1..9 : /\ W[i].how \in {"number", "text", "bytes", "message", "each"}
                      /\ R[i] = CaseOf(W[i])
                      /\ W[i].name \in DOMAIN E
                      /\ IsDefault(E[W[i].name], W[i].how)
  <2>1. \A i \in 1..9 : W[i].how \in {"number", "text", "bytes", "message", "each"}
    BY <1>1 DEF Line
  <2>2. \A i \in 1..9 : R[i] = CaseOf(W[i])
    BY <1>1, <1>2 DEF CaseOf, Case, Line
  <2>3. \A i \in 1..9 : W[i].name \in DOMAIN E
    BY <1>1, <1>3 DEF Line
  <2>4. \A i \in 1..9 : IsDefault(E[W[i].name], W[i].how)
    <3>1. \A i \in 1..9 : W[i].how = "number" => W[i].name = "type"
      BY <1>1 DEF Line
    <3>2. \A i \in 1..9 : W[i].how = "text" => W[i].name \in {"category", "salt", "apitoken", "fee"}
      BY <1>1 DEF Line
    <3>3. \A i \in 1..9 : W[i].how \in {"bytes", "each"}
             => W[i].name \in {"sender", "recipients", "data", "signature"}
      BY <1>1 DEF Line
    <3>4. \A i \in 1..9 : W[i].how # "message"
      BY <1>1 DEF Line
    <3> QED BY <1>4, <3>1, <3>2, <3>3, <3>4 DEF IsDefault
  <2> QED BY <2>1, <2>2, <2>3, <2>4
<1>9. \A n \in DOMAIN E : \E i \in 1..9 : W[i].name = n
  BY <1>1, <1>3 DEF Line
<1> QED BY <1>3, <1>5, <1>6, <1>7, <1>8, <1>9 DEF SameTables, W, R, E

------------------------------------------------------------------------------
(* Transactions, signers and attestations. *)

\* A transaction is read back as it was.
THEOREM TransactionBack ==
  ASSUME NEW tx, IsTransaction(tx)
  PROVE  DecodeTransaction(EncodeTransaction(tx)) = tx
<1>1. ASSUME NEW i \in 1..Len(TransactionWriter), TransactionWriter[i].how = "each"
      PROVE  IsSequence(tx[TransactionWriter[i].name])
  <2>1. i = 4
    BY <1>1 DEF TransactionWriter, Line
  <2>2. TransactionWriter[4].name = "recipients"
    BY DEF TransactionWriter, Line
  <2> QED BY <2>1, <2>2 DEF IsTransaction
<1>2. /\ TablesAgree(EmptyTransaction, TransactionReader, TransactionWriter, tx)
      /\ AsRead(EmptyTransaction, TransactionWriter, tx) = tx
  BY <1>1, TransactionTables, TablesFit DEF IsTransaction
<1> QED BY <1>2, PlainBack DEF DecodeTransaction, EncodeTransaction

\* A signer, with whatever signature
IsSigner(signer) == signer = [sig |-> signer.sig]

\* And so for signers.
LEMMA SignerTables ==
  SameTables(EmptySigner, SignerReader, SignerWriter)
<1> DEFINE W == SignerWriter
           R == SignerReader
           E == EmptySigner
<1>1. /\ W = [i \in 1..1 |-> W[i]] /\ W[1] = Line(1, "bytes", "sig")
      /\ R = [i \in 1..1 |-> R[i]] /\ R[1] = Case(1, "set", "sig")
  BY DEF SignerWriter, SignerReader
<1>2. DOMAIN E = {"sig"} /\ E = [n \in DOMAIN E |-> E[n]] /\ E["sig"] = <<>>
  BY DEF EmptySigner
<1> HIDE DEF W, R, E
<1>3. IsSequence(W) /\ IsSequence(R) /\ Len(W) = 1 /\ Len(R) = 1
  <2>1. 1 \in Nat
    OBVIOUS
  <2> QED BY <1>1, <2>1, FunctionIsSequence
<1>4. \A i \in 1..1 : i = 1
  OBVIOUS
<1>5. /\ W[1].how = "bytes" /\ W[1].name = "sig" /\ R[1] = CaseOf(W[1])
      /\ IsDefault(E["sig"], "bytes")
  BY <1>1, <1>2 DEF Line, Case, CaseOf, IsDefault
<1> QED BY <1>2, <1>3, <1>4, <1>5 DEF SameTables, W, R, E

\* A signer is read as it was written.
LEMMA SignerBack ==
  ASSUME NEW signer, IsSigner(signer)
  PROVE  Decode(EmptySigner, SignerReader, Plain, Encode(SignerWriter, Plain, signer)) = signer
<1>1. IsMessage(EmptySigner, signer)
  BY DEF IsSigner, IsMessage, EmptySigner
<1>2. \A i \in 1..Len(SignerWriter) : SignerWriter[i].how # "each"
  BY DEF SignerWriter, Line
<1>3. /\ TablesAgree(EmptySigner, SignerReader, SignerWriter, signer)
      /\ AsRead(EmptySigner, SignerWriter, signer) = signer
  BY <1>1, <1>2, SignerTables, TablesFit
<1> QED BY <1>3, PlainBack

\* An attestation, and what a node of a schema knows of it
IsAttestation(schema, a) ==
  IF schema = "this" THEN a = [vote |-> a.vote] ELSE a = [vote |-> a.vote, note |-> a.note]
\* An attestation as a node of a schema reads it
AttestationAs(schema, a) ==
  IF schema = "this" THEN [vote |-> a.vote]
  ELSE [vote |-> a.vote, note |-> IF "note" \in DOMAIN a THEN a.note ELSE ""]

\* The tables of attestations in the two schemas
LEMMA AttestorTables ==
  /\ AttestorDataWriter("this") = <<Line(1, "number", "vote")>>
  /\ AttestorDataReader("this") = <<Case(1, "set", "vote")>>
  /\ AttestorDataWriter("newer") = <<Line(1, "number", "vote"), Line(2, "text", "note")>>
  /\ AttestorDataReader("newer") = <<Case(1, "set", "vote"), Case(2, "set", "note")>>
<1>1. ASSUME NEW x, NEW y PROVE Append(<<x>>, y) = <<x, y>>
  <2> DEFINE s == <<x>>
             t == <<x, y>>
  <2>1. IsSequence(s) /\ Len(s) = 1 /\ s[1] = x
    BY ShortSequences
  <2>2. IsSequence(t) /\ Len(t) = 2 /\ t[1] = x /\ t[2] = y
    <3>1. t \in Seq({x, y})
      OBVIOUS
    <3> QED BY <3>1 DEF IsSequence
  <2> HIDE DEF s, t
  <2>3. IsSequence(Append(s, y)) /\ Len(Append(s, y)) = 2
    BY <2>1, AppendFacts
  <2>4. Append(s, y)[1] = t[1] /\ Append(s, y)[2] = t[2]
    BY <2>1, <2>2, AppendFacts
  <2>5. \A i \in 1..Len(t) : Append(s, y)[i] = t[i]
    <3>1. \A i \in 1..2 : i = 1 \/ i = 2
      OBVIOUS
    <3> QED BY <2>2, <2>4, <3>1
  <2>6. Append(s, y) = t
    BY <2>2, <2>3, <2>5, SameSequence
  <2> QED BY <2>6 DEF s, t
<1>2. /\ AttestorDataWriter("this") = TxAttestorDataWriter
      /\ AttestorDataReader("this") = TxAttestorDataReader
  BY DEF AttestorDataWriter, AttestorDataReader
<1>3. /\ AttestorDataWriter("newer") = Append(TxAttestorDataWriter, Line(2, "text", "note"))
      /\ AttestorDataReader("newer") = Append(TxAttestorDataReader, Case(2, "set", "note"))
  BY DEF AttestorDataWriter, AttestorDataReader
<1> QED BY <1>1, <1>2, <1>3 DEF TxAttestorDataWriter, TxAttestorDataReader

\* An attestation of one schema read by another
LEMMA AttestationBack ==
  ASSUME NEW from \in Schemas, NEW to \in Schemas, NEW a, IsAttestation(from, a)
  PROVE  DecodeAttestorData(to, EncodeAttestorData(from, a)) = AttestationAs(to, a)
<1> DEFINE E == EmptyAttestorData(to)
           R == AttestorDataReader(to)
           W == AttestorDataWriter(from)
           first == Line(1, "number", "vote")
           second == Line(2, "text", "note")
<1>1. /\ DOMAIN E = (IF to = "this" THEN {"vote"} ELSE {"vote", "note"})
      /\ E = [n \in DOMAIN E |-> E[n]] /\ E["vote"] = 0
      /\ to = "newer" => E["note"] = ""
  BY DEF EmptyAttestorData, EmptyTxAttestorData, Schemas
<1>2. /\ Range(R) = {Case(1, "set", "vote")}
                       \cup (IF to = "this" THEN {} ELSE {Case(2, "set", "note")})
  <2>1. CASE to = "this"
    <3>1. DOMAIN R = {1} /\ R[1] = Case(1, "set", "vote")
      BY <2>1, AttestorTables
    <3> QED BY <2>1, <3>1 DEF Range
  <2>2. CASE to = "newer"
    <3>1. DOMAIN R = {1, 2} /\ R[1] = Case(1, "set", "vote") /\ R[2] = Case(2, "set", "note")
      BY <2>2, AttestorTables
    <3> QED BY <2>2, <3>1 DEF Range
  <2> QED BY <2>1, <2>2 DEF Schemas
<1>3. /\ IsSequence(W) /\ W[1] = first
      /\ from = "this" => Len(W) = 1
      /\ from = "newer" => Len(W) = 2 /\ W[2] = second
  <2>1. from = "this" => W = <<first>>
    BY AttestorTables
  <2>2. from = "newer" => W = <<first, second>>
    BY AttestorTables
  <2>3. IsSequence(<<first>>) /\ IsSequence(<<first, second>>)
    <3> HIDE DEF first, second
    <3>1. <<first>> \in Seq({first, second}) /\ <<first, second>> \in Seq({first, second})
      OBVIOUS
    <3> QED BY <3>1 DEF IsSequence
  <2> HIDE DEF W, first, second
  <2> QED BY <2>1, <2>2, <2>3 DEF Schemas
<1>4. Agrees(E, R, first, a)
  <2>1. KnownAs(R, 1, "vote", "set")
    <3>1. \A c \in Range(R) : c.no = 1 => c = Case(1, "set", "vote")
      BY <1>2 DEF Case
    <3>2. Case(1, "set", "vote") \in Range(R)
      BY <1>2
    <3> HIDE DEF R
    <3> QED BY <3>1, <3>2 DEF KnownAs, Case
  <2>2. first.name = "vote" /\ first.how = "number" /\ first.no = 1
    BY DEF Line
  <2> HIDE DEF E, R, first
  <2> QED BY <1>1, <2>1, <2>2, LineAgrees
<1>5. Agrees(E, R, second, a)
  <2>1. second.name = "note" /\ second.how = "text" /\ second.no = 2
    BY DEF Line
  <2>2. CASE to = "this"
    <3>1. IsSequence(<<>>) /\ IsSequence(<<a.note>>)
      BY ShortSequences
    <3>2. IsSequence(Values("text", a.note))
      BY <3>1 DEF Values
    <3>3. \A c \in Range(R) : c.no # 2
      BY <1>2, <2>2 DEF Case
    <3> HIDE DEF E, R, second
    <3> QED BY <1>1, <2>1, <2>2, <3>2, <3>3 DEF Agrees
  <2>3. CASE to = "newer"
    <3>1. KnownAs(R, 2, "note", "set")
      BY <1>2, <2>3 DEF KnownAs, Case
    <3> HIDE DEF E, R, second
    <3> QED BY <1>1, <2>1, <2>3, <3>1, LineAgrees
  <2> QED BY <2>2, <2>3 DEF Schemas
<1>6. TablesAgree(E, R, W, a)
  <2>1. \A i \in 1..Len(W) : Agrees(E, R, W[i], a)
    <3> HIDE DEF E, R, W, first, second
    <3> QED BY <1>3, <1>4, <1>5 DEF Schemas
  <2>2. \A i, j \in 1..Len(W) : W[i].name = W[j].name => i = j
    <3>1. first.name # second.name
      BY DEF Line
    <3> HIDE DEF E, R, W, first, second
    <3> QED BY <1>3, <3>1 DEF Schemas
  <2> HIDE DEF E, R, W
  <2> QED BY <1>1, <1>3, <2>1, <2>2 DEF TablesAgree
<1>7. DecodeAttestorData(to, EncodeAttestorData(from, a)) = AsRead(E, W, a)
  <2> HIDE DEF E, R, W
  <2>1. Decode(E, R, Plain, Encode(W, Plain, a)) = AsRead(E, W, a)
    BY ONLY <1>6, PlainBack
  <2> QED BY <2>1 DEF DecodeAttestorData, EncodeAttestorData, E, R, W
<1>8. AsRead(E, W, a) = AttestationAs(to, a)
  <2>1. first.name = "vote" /\ second.name = "note"
    BY DEF Line
  <2>2. \A n : (\E i \in 1..Len(W) : W[i].name = n)
                 <=> n = "vote" \/ (from = "newer" /\ n = "note")
    <3> HIDE DEF E, R, W, first, second
    <3> QED BY <1>3, <2>1 DEF Schemas
  <2>3. "note" \in DOMAIN a <=> from = "newer"
    BY DEF IsAttestation, Schemas
  <2>4. AsRead(E, W, a) = [n \in DOMAIN E |->
            IF n = "vote" \/ (from = "newer" /\ n = "note") THEN a[n] ELSE E[n]]
    BY <2>2 DEF AsRead
  <2> HIDE DEF E, R, W, first, second
  <2>5. CASE to = "this"
    BY <1>1, <2>4, <2>5 DEF AttestationAs
  <2>6. CASE to = "newer"
    BY <1>1, <2>3, <2>4, <2>6 DEF AttestationAs
  <2> QED BY <2>5, <2>6 DEF Schemas
<1> QED BY <1>7, <1>8

------------------------------------------------------------------------------
(* Votes. *)

\* What a producer says of a transaction
IsVote(data) == data = [vote |-> data.vote, didmapping |-> Null]

\* The tables of votes
LEMMA VoteTables ==
  SameTables(EmptyTxValidatorData, TxValidatorDataReader, TxValidatorDataWriter)
<1> DEFINE W == TxValidatorDataWriter
           R == TxValidatorDataReader
           E == EmptyTxValidatorData
<1>1. /\ W = [i \in 1..2 |-> W[i]]
      /\ W[1] = Line(1, "number", "vote") /\ W[2] = Line(2, "message", "didmapping")
      /\ R = [i \in 1..2 |-> R[i]]
      /\ R[1] = Case(1, "set", "vote") /\ R[2] = Case(2, "set", "didmapping")
  BY DEF TxValidatorDataWriter, TxValidatorDataReader
<1>2. /\ DOMAIN E = {"vote", "didmapping"} /\ E = [n \in DOMAIN E |-> E[n]]
      /\ E["vote"] = 0 /\ E["didmapping"] = Null
  BY DEF EmptyTxValidatorData
<1> HIDE DEF W, R, E
<1>3. IsSequence(W) /\ IsSequence(R) /\ Len(W) = 2 /\ Len(R) = 2
  <2>1. 2 \in Nat
    OBVIOUS
  <2> QED BY <1>1, <2>1, FunctionIsSequence
<1>4. \A i \in 1..2 : i = 1 \/ i = 2
  OBVIOUS
<1>5. /\ W[1].how = "number" /\ W[1].name = "vote" /\ R[1] = CaseOf(W[1]) /\ W[1].no = 1
      /\ W[2].how = "message" /\ W[2].name = "didmapping" /\ R[2] = CaseOf(W[2]) /\ W[2].no = 2
      /\ IsDefault(E["vote"], "number") /\ IsDefault(E["didmapping"], "message")
  BY <1>1, <1>2 DEF Line, Case, CaseOf, IsDefault
<1> QED BY <1>2, <1>3, <1>4, <1>5 DEF SameTables, W, R, E

\* A vote is read as it was written.
LEMMA VoteBack ==
  ASSUME NEW data, IsVote(data)
  PROVE  DecodeTxValidatorData(EncodeTxValidatorData(data)) = data
<1> DEFINE W == TxValidatorDataWriter
           R == TxValidatorDataReader
           E == EmptyTxValidatorData
           Enc(no, v) == IF no = 2 THEN Encode(DidMappingWriter, Plain, v) ELSE v
           Dec(no, v) == IF no = 2 THEN Decode(EmptyDidMapping, DidMappingReader, Plain, v) ELSE v
           F == FieldsOf(W, data)
           enc == [f \in F |-> <<f[1], Enc(f[1], f[2])>>]
           G == Codes(W, data, enc)
           dec == [g \in G |-> <<g[1], Dec(g[1], g[2])>>]
           bytes == EncodeTxValidatorData(data)
<1>1. bytes = FlattenSeq(CodedLines(W, data, enc))
  <2>1. \A i \in 1..Len(W) : \A j \in 1..Len(LineFields(W[i], data)) : LineFields(W[i], data)[j] \in F
    BY DEF FieldsOf
  <2> HIDE DEF F, Enc
  <2>2. \A i \in 1..Len(W) : \A j \in 1..Len(LineFields(W[i], data)) :
          enc[LineFields(W[i], data)[j]]
            = <<LineFields(W[i], data)[j][1], Enc(LineFields(W[i], data)[j][1], LineFields(W[i], data)[j][2])>>
    BY <2>1
  <2> HIDE DEF enc
  <2>3. CodedLines(W, data, enc) = [i \in 1..Len(W) |-> [j \in 1..Len(LineFields(W[i], data)) |->
           <<LineFields(W[i], data)[j][1], Enc(LineFields(W[i], data)[j][1], LineFields(W[i], data)[j][2])>>]]
    BY <2>2 DEF CodedLines
  <2> QED BY <2>3 DEF EncodeTxValidatorData, Encode, Enc
<1>2. ReadsAs(W, data, enc, dec, data)
  <2> SUFFICES ASSUME NEW i \in 1..Len(W)
               PROVE  LET vs == Values(W[i].how, data[W[i].name]) IN
                      /\ IsSequence(vs)
                      /\ \A j \in 1..Len(vs) : dec[enc[<<W[i].no, vs[j]>>]] = <<W[i].no, vs[j]>>
    <3> HIDE DEF enc, dec, W
    <3> QED BY DEF ReadsAs
  <2> DEFINE vs == Values(W[i].how, data[W[i].name])
  <2>1. i = 1 \/ i = 2
    BY DEF W, TxValidatorDataWriter
  <2>2. /\ W[1].how = "number" /\ W[1].name = "vote" /\ W[1].no = 1
        /\ W[2].how = "message" /\ W[2].name = "didmapping"
    BY DEF W, TxValidatorDataWriter, Line
  <2>3. i = 2 => vs = <<>>
    <3>1. data["didmapping"] = Null
      BY DEF IsVote
    <3> QED BY <2>2, <3>1 DEF Values
  <2>4. i = 1 => vs = <<>> \/ vs = <<data["vote"]>>
    BY <2>2 DEF Values
  <2>5. IsSequence(vs)
    BY <2>1, <2>3, <2>4, ShortSequences
  <2>6. ASSUME NEW j \in 1..Len(vs)
        PROVE  dec[enc[<<W[i].no, vs[j]>>]] = <<W[i].no, vs[j]>>
    <3>1. <<W[i].no, vs[j]>> \in F
      BY <2>5, CodedField
    <3>2. W[i].no = 1
      BY <2>1, <2>2, <2>3
    <3> HIDE DEF F, vs, W
    <3>3. enc[<<W[i].no, vs[j]>>] = <<1, vs[j]>>
      BY <3>1, <3>2
    <3>4. <<1, vs[j]>> \in G
      BY <3>1, <3>2, <3>3 DEF Codes, F
    <3> HIDE DEF G, enc
    <3> QED BY <3>2, <3>3, <3>4
  <2> QED BY <2>5, <2>6
<1>3. TablesAgree(E, R, W, data) /\ AsRead(E, W, data) = data
  <2>1. IsMessage(E, data)
    BY DEF IsMessage, IsVote, EmptyTxValidatorData
  <2>2. \A i \in 1..Len(W) : W[i].how # "each"
    BY DEF TxValidatorDataWriter, Line
  <2> QED BY <2>1, <2>2, VoteTables, TablesFit
<1> HIDE DEF bytes, enc, dec, G, F, W, R, E
<1>a. TablesAgree(E, R, W, data)
  BY <1>3
<1>4. ReadBack(E, R, W, data, enc, dec, data, bytes)
  BY ONLY <1>1, <1>2, <1>a, DecodeEncode
<1>5. DecodedFields(dec, bytes)
        = [p \in DOMAIN bytes |-> <<bytes[p][1], Dec(bytes[p][1], bytes[p][2])>>]
  BY <1>4, SequenceFacts DEF dec, DecodedFields, ReadBack, G
<1> QED BY <1>3, <1>4, <1>5 DEF ReadBack, DecodeTxValidatorData, Decode, Dec, bytes, W, R, E

------------------------------------------------------------------------------
(* The tables of transaction objects, blocks and patches. *)

\* Readers and writers have the same fields.
LEMMA TransactionObjTables ==
  SameTables(EmptyTransactionObj, TransactionObjReader, TransactionObjWriter)
<1> DEFINE W == TransactionObjWriter
           R == TransactionObjReader
           E == EmptyTransactionObj
<1>1. /\ W = [i \in 1..3 |-> W[i]]
      /\ W[1] = Line(1, "message", "tx")
      /\ W[2] = Line(2, "message", "validatordata")
      /\ W[3] = Line(3, "each", "attestordata")
      /\ R = [i \in 1..3 |-> R[i]]
      /\ R[1] = Case(1, "set", "tx")
      /\ R[2] = Case(2, "set", "validatordata")
      /\ R[3] = Case(3, "add", "attestordata")
  BY DEF TransactionObjWriter, TransactionObjReader
<1>2. /\ DOMAIN E = {"tx", "validatordata", "attestordata"} /\ E = [n \in DOMAIN E |-> E[n]]
      /\ E["tx"] = Null
      /\ E["validatordata"] = Null
      /\ E["attestordata"] = <<>>
  BY DEF EmptyTransactionObj
<1> HIDE DEF W, R, E
<1>3. IsSequence(W) /\ IsSequence(R) /\ Len(W) = 3 /\ Len(R) = 3
  <2>1. 3 \in Nat
    OBVIOUS
  <2> QED BY <1>1, <2>1, FunctionIsSequence
<1>4. \A i \in 1..3 : i = 1 \/ i = 2 \/ i = 3
  OBVIOUS
<1>5. /\ W[1].how = "message" /\ W[1].name = "tx" /\ R[1] = CaseOf(W[1]) /\ W[1].no = 1
      /\ W[2].how = "message" /\ W[2].name = "validatordata" /\ R[2] = CaseOf(W[2]) /\ W[2].no = 2
      /\ W[3].how = "each" /\ W[3].name = "attestordata" /\ R[3] = CaseOf(W[3]) /\ W[3].no = 3
      /\ IsDefault(E["tx"], "message")
      /\ IsDefault(E["validatordata"], "message")
      /\ IsDefault(E["attestordata"], "each")
  BY <1>1, <1>2 DEF Line, Case, CaseOf, IsDefault
<1> QED BY <1>2, <1>3, <1>4, <1>5 DEF SameTables, W, R, E

\* And so for blocks
LEMMA BlockTables ==
  SameTables(EmptyBlock, BlockReader, BlockWriter)
<1> DEFINE W == BlockWriter
           R == BlockReader
           E == EmptyBlock
<1>1. /\ W = [i \in 1..4 |-> W[i]]
      /\ W[1] = Line(1, "number", "ts")
      /\ W[2] = Line(4, "text", "attesttoken")
      /\ W[3] = Line(2, "each", "txobj")
      /\ W[4] = Line(3, "each", "signers")
      /\ R = [i \in 1..4 |-> R[i]]
      /\ R[1] = Case(1, "set", "ts")
      /\ R[2] = Case(4, "set", "attesttoken")
      /\ R[3] = Case(2, "add", "txobj")
      /\ R[4] = Case(3, "add", "signers")
  BY DEF BlockWriter, BlockReader
<1>2. /\ DOMAIN E = {"ts", "attesttoken", "txobj", "signers"} /\ E = [n \in DOMAIN E |-> E[n]]
      /\ E["ts"] = 0
      /\ E["attesttoken"] = ""
      /\ E["txobj"] = <<>>
      /\ E["signers"] = <<>>
  BY DEF EmptyBlock
<1> HIDE DEF W, R, E
<1>3. IsSequence(W) /\ IsSequence(R) /\ Len(W) = 4 /\ Len(R) = 4
  <2>1. 4 \in Nat
    OBVIOUS
  <2> QED BY <1>1, <2>1, FunctionIsSequence
<1>4. \A i \in 1..4 : i = 1 \/ i = 2 \/ i = 3 \/ i = 4
  OBVIOUS
<1>5. \A i, j \in 1..4 : W[i].name = W[j].name \/ W[i].no = W[j].no => i = j
  BY <1>1 DEF Line
<1>6. \A i \in 1..4 : R[i] = CaseOf(W[i])
  <2> SUFFICES R[1] = CaseOf(W[1]) /\ R[2] = CaseOf(W[2]) /\ R[3] = CaseOf(W[3]) /\ R[4] = CaseOf(W[4])
    BY <1>4
  <2> QED BY <1>1 DEF Line, Case, CaseOf
<1>7. \A i \in 1..4 : /\ W[i].how \in {"number", "text", "bytes", "message", "each"}
                      /\ W[i].name \in DOMAIN E
                      /\ IsDefault(E[W[i].name], W[i].how)
  <2>1. /\ W[1].how = "number" /\ W[1].name = "ts"
        /\ W[2].how = "text" /\ W[2].name = "attesttoken"
        /\ W[3].how = "each" /\ W[3].name = "txobj"
        /\ W[4].how = "each" /\ W[4].name = "signers"
    BY <1>1 DEF Line
  <2> QED BY <1>2, <1>4, <2>1 DEF IsDefault
<1>8. \A n \in DOMAIN E : \E i \in 1..4 : W[i].name = n
  <2>1. /\ W[1].name = "ts" /\ W[2].name = "attesttoken"
        /\ W[3].name = "txobj" /\ W[4].name = "signers"
    BY <1>1 DEF Line
  <2>2. 1 \in 1..4 /\ 2 \in 1..4 /\ 3 \in 1..4 /\ 4 \in 1..4
    OBVIOUS
  <2> QED BY <1>2, <2>1, <2>2
<1> QED BY <1>2, <1>3, <1>5, <1>6, <1>7, <1>8 DEF SameTables, W, R, E

\* and patches.
LEMMA PatchTables ==
  SameTables(EmptyAttestBlockResult, AttestBlockResultReader, AttestBlockResultWriter)
<1> DEFINE W == AttestBlockResultWriter
           R == AttestBlockResultReader
           E == EmptyAttestBlockResult
<1>1. /\ W = [i \in 1..2 |-> W[i]]
      /\ W[1] = Line(1, "each", "attestordata")
      /\ W[2] = Line(2, "message", "signer")
      /\ R = [i \in 1..2 |-> R[i]]
      /\ R[1] = Case(1, "add", "attestordata")
      /\ R[2] = Case(2, "set", "signer")
  BY DEF AttestBlockResultWriter, AttestBlockResultReader
<1>2. /\ DOMAIN E = {"attestordata", "signer"} /\ E = [n \in DOMAIN E |-> E[n]]
      /\ E["attestordata"] = <<>>
      /\ E["signer"] = Null
  BY DEF EmptyAttestBlockResult
<1> HIDE DEF W, R, E
<1>3. IsSequence(W) /\ IsSequence(R) /\ Len(W) = 2 /\ Len(R) = 2
  <2>1. 2 \in Nat
    OBVIOUS
  <2> QED BY <1>1, <2>1, FunctionIsSequence
<1>4. \A i \in 1..2 : i = 1 \/ i = 2
  OBVIOUS
<1>5. /\ W[1].how = "each" /\ W[1].name = "attestordata" /\ R[1] = CaseOf(W[1]) /\ W[1].no = 1
      /\ W[2].how = "message" /\ W[2].name = "signer" /\ R[2] = CaseOf(W[2]) /\ W[2].no = 2
      /\ IsDefault(E["attestordata"], "each")
      /\ IsDefault(E["signer"], "message")
  BY <1>1, <1>2 DEF Line, Case, CaseOf, IsDefault
<1> QED BY <1>2, <1>3, <1>4, <1>5 DEF SameTables, W, R, E

------------------------------------------------------------------------------
(* Transaction objects. *)

\* Transactions with the votes on them
IsTransactionObj(schema, o) ==
  /\ o = [tx |-> o.tx, validatordata |-> o.validatordata, attestordata |-> o.attestordata]
  /\ o.tx # Null => IsTransaction(o.tx)
  /\ o.validatordata # Null => IsVote(o.validatordata)
  /\ IsSequence(o.attestordata)
  /\ \A i \in 1..Len(o.attestordata) : IsAttestation(schema, o.attestordata[i])
\* Attestations and transaction objects as a node of a schema knows them
AttestationsAs(schema, list) == [i \in 1..Len(list) |-> AttestationAs(schema, list[i])]
\* A transaction object as a node of a schema knows it
TransactionObjAs(schema, o) ==
  [tx |-> o.tx, validatordata |-> o.validatordata,
   attestordata |-> AttestationsAs(schema, o.attestordata)]

\* There are as many of them, at the same places.
LEMMA AttestationsKept ==
  ASSUME NEW schema, NEW list, IsSequence(list)
  PROVE  /\ IsSequence(AttestationsAs(schema, list))
         /\ Len(AttestationsAs(schema, list)) = Len(list)
         /\ \A i \in 1..Len(list) :
              AttestationsAs(schema, list)[i] = AttestationAs(schema, list[i])
<1> DEFINE as == AttestationsAs(schema, list)
<1>1. Len(list) \in Nat
  BY SequenceFacts
<1>2. as = [i \in 1..Len(list) |-> as[i]]
      /\ \A i \in 1..Len(list) : as[i] = AttestationAs(schema, list[i])
  BY DEF AttestationsAs
<1> HIDE DEF as
<1>3. IsSequence(as) /\ Len(as) = Len(list)
  BY <1>1, <1>2, FunctionIsSequence
<1> QED BY <1>2, <1>3 DEF as

\* A transaction object written by one schema and read by another
LEMMA TransactionObjBack ==
  ASSUME NEW from \in Schemas, NEW to \in Schemas, NEW o, IsTransactionObj(from, o)
  PROVE  DecodeTransactionObj(to, EncodeTransactionObj(from, o)) = TransactionObjAs(to, o)
<1> DEFINE W == TransactionObjWriter
           R == TransactionObjReader
           E == EmptyTransactionObj
           Enc(no, v) == IF no = 1 THEN EncodeTransaction(v)
                         ELSE IF no = 2 THEN EncodeTxValidatorData(v)
                         ELSE EncodeAttestorData(from, v)
           Dec(no, v) == IF no = 1 THEN DecodeTransaction(v)
                         ELSE IF no = 2 THEN DecodeTxValidatorData(v)
                         ELSE DecodeAttestorData(to, v)
           F == FieldsOf(W, o)
           enc == [f \in F |-> <<f[1], Enc(f[1], f[2])>>]
           G == Codes(W, o, enc)
           dec == [g \in G |-> <<g[1], Dec(g[1], g[2])>>]
           bytes == EncodeTransactionObj(from, o)
           as == TransactionObjAs(to, o)
<1>1. bytes = FlattenSeq(CodedLines(W, o, enc))
  <2>1. \A i \in 1..Len(W) : \A j \in 1..Len(LineFields(W[i], o)) : LineFields(W[i], o)[j] \in F
    BY DEF FieldsOf
  <2> HIDE DEF F, Enc
  <2>2. \A i \in 1..Len(W) : \A j \in 1..Len(LineFields(W[i], o)) :
          enc[LineFields(W[i], o)[j]]
            = <<LineFields(W[i], o)[j][1], Enc(LineFields(W[i], o)[j][1], LineFields(W[i], o)[j][2])>>
    BY <2>1
  <2> HIDE DEF enc
  <2>3. CodedLines(W, o, enc) = [i \in 1..Len(W) |-> [j \in 1..Len(LineFields(W[i], o)) |->
           <<LineFields(W[i], o)[j][1], Enc(LineFields(W[i], o)[j][1], LineFields(W[i], o)[j][2])>>]]
    BY <2>2 DEF CodedLines
  <2> QED BY <2>3 DEF EncodeTransactionObj, Encode, Enc
<1>2. ReadsAs(W, o, enc, dec, as)
  <2> DEFINE was(i) == Values(W[i].how, o[W[i].name])
             is(i) == Values(W[i].how, as[W[i].name])
  <2>1. /\ W[1].how = "message" /\ W[1].name = "tx" /\ W[1].no = 1
        /\ W[2].how = "message" /\ W[2].name = "validatordata" /\ W[2].no = 2
        /\ W[3].how = "each" /\ W[3].name = "attestordata" /\ W[3].no = 3
    BY DEF TransactionObjWriter, Line
  <2>2. \A i \in 1..Len(W) : i = 1 \/ i = 2 \/ i = 3
    BY DEF TransactionObjWriter
  <2>3. /\ o["tx"] = o.tx /\ as["tx"] = o.tx
        /\ o["validatordata"] = o.validatordata /\ as["validatordata"] = o.validatordata
        /\ o["attestordata"] = o.attestordata
        /\ as["attestordata"] = AttestationsAs(to, o.attestordata)
    BY DEF TransactionObjAs
  <2> HIDE DEF W, as
  <2>4. /\ \/ was(1) = <<>> /\ is(1) = <<>>
           \/ was(1) = <<o.tx>> /\ is(1) = <<o.tx>> /\ o.tx # Null
        /\ \/ was(2) = <<>> /\ is(2) = <<>>
           \/ was(2) = <<o.validatordata>> /\ is(2) = <<o.validatordata>> /\ o.validatordata # Null
        /\ was(3) = o.attestordata /\ is(3) = AttestationsAs(to, o.attestordata)
    BY <2>1, <2>3 DEF Values
  <2> SUFFICES ASSUME NEW i \in 1..Len(W)
               PROVE  /\ IsSequence(was(i)) /\ Len(was(i)) = Len(is(i))
                      /\ \A j \in 1..Len(was(i)) :
                           dec[enc[<<W[i].no, was(i)[j]>>]] = <<W[i].no, is(i)[j]>>
    <3> HIDE DEF enc, dec
    <3> QED BY DEF ReadsAs
  <2>5. IsSequence(was(i)) /\ Len(was(i)) = Len(is(i))
    <3> HIDE DEF was, is
    <3>1. CASE i = 3
      BY <2>4, <3>1, AttestationsKept DEF IsTransactionObj
    <3>2. CASE i # 3
      BY <2>2, <2>4, <3>2, ShortSequences
    <3> QED BY <3>1, <3>2
  <2>6. ASSUME NEW j \in 1..Len(was(i))
        PROVE  dec[enc[<<W[i].no, was(i)[j]>>]] = <<W[i].no, is(i)[j]>>
    <3>1. <<W[i].no, was(i)[j]>> \in F
      BY <2>5, CodedField
    <3>2. Dec(W[i].no, Enc(W[i].no, was(i)[j])) = is(i)[j]
      <4> HIDE DEF was, is
      <4>1. CASE i = 1
        <5>1. was(1)[j] = o.tx /\ is(1)[j] = o.tx /\ o.tx # Null
          BY <2>4, <4>1
        <5> QED BY <2>1, <4>1, <5>1, TransactionBack DEF IsTransactionObj
      <4>2. CASE i = 2
        <5>1. was(2)[j] = o.validatordata /\ is(2)[j] = o.validatordata /\ o.validatordata # Null
          BY <2>4, <4>2
        <5> QED BY <2>1, <4>2, <5>1, VoteBack DEF IsTransactionObj
      <4>3. CASE i = 3
        <5>1. /\ was(3)[j] = o.attestordata[j] /\ IsAttestation(from, o.attestordata[j])
              /\ is(3)[j] = AttestationAs(to, o.attestordata[j])
          BY <2>4, <4>3, AttestationsKept DEF IsTransactionObj
        <5> QED BY <2>1, <4>3, <5>1, AttestationBack
      <4> QED BY <2>2, <4>1, <4>2, <4>3
    <3> HIDE DEF F, was, is, Enc, Dec
    <3>3. enc[<<W[i].no, was(i)[j]>>] = <<W[i].no, Enc(W[i].no, was(i)[j])>>
      BY <3>1
    <3>4. <<W[i].no, Enc(W[i].no, was(i)[j])>> \in G
      BY <3>1, <3>3 DEF Codes, F
    <3> HIDE DEF G, enc
    <3> QED BY <3>2, <3>3, <3>4
  <2> QED BY <2>5, <2>6
<1>3. TablesAgree(E, R, W, as) /\ AsRead(E, W, as) = as
  <2>1. IsMessage(E, as)
    BY DEF IsMessage, TransactionObjAs, EmptyTransactionObj
  <2>2. ASSUME NEW i \in 1..Len(W), W[i].how = "each" PROVE IsSequence(as[W[i].name])
    <3>1. W[i].name = "attestordata"
      BY <2>2 DEF TransactionObjWriter, Line
    <3>2. as["attestordata"] = AttestationsAs(to, o.attestordata)
      BY DEF TransactionObjAs
    <3> QED BY <3>1, <3>2, AttestationsKept DEF IsTransactionObj
  <2> HIDE DEF as
  <2> QED BY <2>1, <2>2, TransactionObjTables, TablesFit
<1> HIDE DEF bytes, enc, dec, G, F, W, R, E, as
<1>a. TablesAgree(E, R, W, as)
  BY <1>3
<1>4. ReadBack(E, R, W, o, enc, dec, as, bytes)
  BY ONLY <1>1, <1>2, <1>a, DecodeEncode
<1>5. DecodedFields(dec, bytes)
        = [p \in DOMAIN bytes |-> <<bytes[p][1], Dec(bytes[p][1], bytes[p][2])>>]
  BY <1>4, SequenceFacts DEF DecodedFields, dec, ReadBack, G
<1> QED BY <1>3, <1>4, <1>5 DEF ReadBack, DecodeTransactionObj, Decode, Dec, bytes, W, R, E, as

------------------------------------------------------------------------------
(* Blocks and patches. *)

\* Lists of signers, blocks and lists of transaction objects
IsSignerList(list) == IsSequence(list) /\ \A i \in 1..Len(list) : IsSigner(list[i])
\* A block as a node of a schema may have it
IsBlock(schema, block) ==
  /\ block = [ts |-> block.ts, attesttoken |-> block.attesttoken, txobj |-> block.txobj,
              signers |-> block.signers]
  /\ IsSequence(block.txobj)
  /\ \A i \in 1..Len(block.txobj) : IsTransactionObj(schema, block.txobj[i])
  /\ IsSignerList(block.signers)
\* The transaction objects as a node of a schema knows them
TransactionObjsAs(schema, list) == [i \in 1..Len(list) |-> TransactionObjAs(schema, list[i])]
\* A block as a node of a schema knows it
BlockAs(schema, block) ==
  [ts |-> block.ts, attesttoken |-> block.attesttoken,
   txobj |-> TransactionObjsAs(schema, block.txobj), signers |-> block.signers]

\* There are as many of them, at the same places.
LEMMA TransactionObjsKept ==
  ASSUME NEW schema, NEW list, IsSequence(list)
  PROVE  /\ IsSequence(TransactionObjsAs(schema, list))
         /\ Len(TransactionObjsAs(schema, list)) = Len(list)
         /\ \A i \in 1..Len(list) :
              TransactionObjsAs(schema, list)[i] = TransactionObjAs(schema, list[i])
<1> DEFINE as == TransactionObjsAs(schema, list)
<1>1. Len(list) \in Nat
  BY SequenceFacts
<1>2. as = [i \in 1..Len(list) |-> as[i]]
      /\ \A i \in 1..Len(list) : as[i] = TransactionObjAs(schema, list[i])
  BY DEF TransactionObjsAs
<1> HIDE DEF as
<1>3. IsSequence(as) /\ Len(as) = Len(list)
  BY <1>1, <1>2, FunctionIsSequence
<1> QED BY <1>2, <1>3 DEF as

\* A block that a node wrote is read as the reader's schema knows it.
THEOREM BlockBack ==
  ASSUME NEW from \in Schemas, NEW to \in Schemas, NEW block, IsBlock(from, block)
  PROVE  DecodeBlock(to, EncodeBlock(from, block)) = BlockAs(to, block)
<1> DEFINE W == BlockWriter
           R == BlockReader
           E == EmptyBlock
           Enc(no, v) == IF no = 2 THEN EncodeTransactionObj(from, v)
                         ELSE IF no = 3 THEN Encode(SignerWriter, Plain, v)
                         ELSE v
           Dec(no, v) == IF no = 2 THEN DecodeTransactionObj(to, v)
                         ELSE IF no = 3 THEN Decode(EmptySigner, SignerReader, Plain, v)
                         ELSE v
           F == FieldsOf(W, block)
           enc == [f \in F |-> <<f[1], Enc(f[1], f[2])>>]
           G == Codes(W, block, enc)
           dec == [g \in G |-> <<g[1], Dec(g[1], g[2])>>]
           bytes == EncodeBlock(from, block)
           as == BlockAs(to, block)
<1>1. bytes = FlattenSeq(CodedLines(W, block, enc))
  <2>1. \A i \in 1..Len(W) : \A j \in 1..Len(LineFields(W[i], block)) :
          LineFields(W[i], block)[j] \in F
    BY DEF FieldsOf
  <2> HIDE DEF F, Enc
  <2>2. \A i \in 1..Len(W) : \A j \in 1..Len(LineFields(W[i], block)) :
          enc[LineFields(W[i], block)[j]]
            = <<LineFields(W[i], block)[j][1],
                Enc(LineFields(W[i], block)[j][1], LineFields(W[i], block)[j][2])>>
    BY <2>1
  <2> HIDE DEF enc
  <2>3. CodedLines(W, block, enc)
          = [i \in 1..Len(W) |-> [j \in 1..Len(LineFields(W[i], block)) |->
               <<LineFields(W[i], block)[j][1],
                 Enc(LineFields(W[i], block)[j][1], LineFields(W[i], block)[j][2])>>]]
    BY <2>2 DEF CodedLines
  <2> QED BY <2>3 DEF EncodeBlock, Encode, Enc
<1>2. ReadsAs(W, block, enc, dec, as)
  <2> DEFINE was(i) == Values(W[i].how, block[W[i].name])
             is(i) == Values(W[i].how, as[W[i].name])
  <2>1. /\ W[1].how = "number" /\ W[1].name = "ts" /\ W[1].no = 1
        /\ W[2].how = "text" /\ W[2].name = "attesttoken" /\ W[2].no = 4
        /\ W[3].how = "each" /\ W[3].name = "txobj" /\ W[3].no = 2
        /\ W[4].how = "each" /\ W[4].name = "signers" /\ W[4].no = 3
    BY DEF BlockWriter, Line
  <2>2. \A i \in 1..Len(W) : i = 1 \/ i = 2 \/ i = 3 \/ i = 4
    BY DEF BlockWriter
  <2>3. /\ block["ts"] = block.ts /\ as["ts"] = block.ts
        /\ block["attesttoken"] = block.attesttoken /\ as["attesttoken"] = block.attesttoken
        /\ block["txobj"] = block.txobj /\ as["txobj"] = TransactionObjsAs(to, block.txobj)
        /\ block["signers"] = block.signers /\ as["signers"] = block.signers
    BY DEF BlockAs
  <2> HIDE DEF W, as
  <2>4. /\ was(1) = is(1) /\ (was(1) = <<>> \/ was(1) = <<block.ts>>)
        /\ was(2) = is(2) /\ (was(2) = <<>> \/ was(2) = <<block.attesttoken>>)
        /\ was(3) = block.txobj /\ is(3) = TransactionObjsAs(to, block.txobj)
        /\ was(4) = block.signers /\ is(4) = block.signers
    BY <2>1, <2>3 DEF Values
  <2> SUFFICES ASSUME NEW i \in 1..Len(W)
               PROVE  /\ IsSequence(was(i)) /\ Len(was(i)) = Len(is(i))
                      /\ \A j \in 1..Len(was(i)) :
                           dec[enc[<<W[i].no, was(i)[j]>>]] = <<W[i].no, is(i)[j]>>
    <3> HIDE DEF enc, dec
    <3> QED BY DEF ReadsAs
  <2>5. IsSequence(was(i)) /\ Len(was(i)) = Len(is(i))
    <3> HIDE DEF was, is
    <3>1. CASE i = 3
      BY <2>4, <3>1, TransactionObjsKept DEF IsBlock
    <3>2. CASE i = 4
      BY <2>4, <3>2 DEF IsBlock, IsSignerList
    <3>3. CASE i \notin {3, 4}
      BY <2>2, <2>4, <3>3, ShortSequences
    <3> QED BY <3>1, <3>2, <3>3
  <2>6. ASSUME NEW j \in 1..Len(was(i))
        PROVE  dec[enc[<<W[i].no, was(i)[j]>>]] = <<W[i].no, is(i)[j]>>
    <3>1. <<W[i].no, was(i)[j]>> \in F
      BY <2>5, CodedField
    <3>2. Dec(W[i].no, Enc(W[i].no, was(i)[j])) = is(i)[j]
      <4> HIDE DEF was, is
      <4>1. CASE i = 3
        <5>1. /\ was(3)[j] = block.txobj[j] /\ IsTransactionObj(from, block.txobj[j])
              /\ is(3)[j] = TransactionObjAs(to, block.txobj[j])
          BY <2>4, <4>1, TransactionObjsKept DEF IsBlock
        <5> QED BY <2>1, <4>1, <5>1, TransactionObjBack
      <4>2. CASE i = 4
        <5>1. was(4)[j] = is(4)[j] /\ IsSigner(was(4)[j])
          BY <2>4, <4>2 DEF IsBlock, IsSignerList
        <5> QED BY <2>1, <4>2, <5>1, SignerBack
      <4>3. CASE i \notin {3, 4}
        BY <2>1, <2>2, <2>4, <4>3
      <4> QED BY <4>1, <4>2, <4>3
    <3> HIDE DEF F, was, is, Enc, Dec
    <3>3. enc[<<W[i].no, was(i)[j]>>] = <<W[i].no, Enc(W[i].no, was(i)[j])>>
      BY <3>1
    <3>4. <<W[i].no, Enc(W[i].no, was(i)[j])>> \in G
      BY <3>1, <3>3 DEF Codes, F
    <3> HIDE DEF G, enc
    <3> QED BY <3>2, <3>3, <3>4
  <2> QED BY <2>5, <2>6
<1>3. TablesAgree(E, R, W, as) /\ AsRead(E, W, as) = as
  <2>1. IsMessage(E, as)
    BY DEF IsMessage, BlockAs, EmptyBlock
  <2>2. ASSUME NEW i \in 1..Len(W), W[i].how = "each" PROVE IsSequence(as[W[i].name])
    <3>1. W[i].name \in {"txobj", "signers"}
      BY <2>2 DEF BlockWriter, Line
    <3>2. as["txobj"] = TransactionObjsAs(to, block.txobj) /\ as["signers"] = block.signers
      BY DEF BlockAs
    <3>3. IsSequence(as["txobj"]) /\ IsSequence(as["signers"])
      BY <3>2, TransactionObjsKept DEF IsBlock, IsSignerList
    <3> QED BY <3>1, <3>3
  <2> HIDE DEF as
  <2> QED BY <2>1, <2>2, BlockTables, TablesFit
<1> HIDE DEF bytes, enc, dec, G, F, W, R, E, as
<1>4. TablesAgree(E, R, W, as)
  BY <1>3
<1>5. ReadBack(E, R, W, block, enc, dec, as, bytes)
  BY ONLY <1>1, <1>2, <1>4, DecodeEncode
<1>6. DecodedFields(dec, bytes)
        = [p \in DOMAIN bytes |-> <<bytes[p][1], Dec(bytes[p][1], bytes[p][2])>>]
  BY <1>5, SequenceFacts DEF DecodedFields, dec, ReadBack, G
<1> QED BY <1>3, <1>5, <1>6 DEF ReadBack, DecodeBlock, Decode, Dec, bytes, W, R, E, as

\* A patch as an attestor of a schema makes it
IsPatch(schema, patch) ==
  /\ patch = [attestordata |-> patch.attestordata, signer |-> patch.signer]
  /\ IsSequence(patch.attestordata)
  /\ \A i \in 1..Len(patch.attestordata) : IsAttestation(schema, patch.attestordata[i])
  /\ IsSigner(patch.signer)
\* A patch as a node of a schema knows it
PatchAs(schema, patch) ==
  [attestordata |-> AttestationsAs(schema, patch.attestordata), signer |-> patch.signer]

\* deserializeBinary() of what another schema's serializeBinary() wrote of a patch is the
\* patch, with the attestations as the reader's schema knows them.
THEOREM PatchBack ==
  ASSUME NEW from \in Schemas, NEW to \in Schemas, NEW patch, IsPatch(from, patch)
  PROVE  DecodePatch(to, EncodePatch(from, patch)) = PatchAs(to, patch)
<1> DEFINE W == AttestBlockResultWriter
           R == AttestBlockResultReader
           E == EmptyAttestBlockResult
           Enc(no, v) == IF no = 2 THEN Encode(SignerWriter, Plain, v)
                         ELSE EncodeAttestorData(from, v)
           Dec(no, v) == IF no = 2 THEN Decode(EmptySigner, SignerReader, Plain, v)
                         ELSE DecodeAttestorData(to, v)
           F == FieldsOf(W, patch)
           enc == [f \in F |-> <<f[1], Enc(f[1], f[2])>>]
           G == Codes(W, patch, enc)
           dec == [g \in G |-> <<g[1], Dec(g[1], g[2])>>]
           bytes == EncodePatch(from, patch)
           as == PatchAs(to, patch)
<1>1. bytes = FlattenSeq(CodedLines(W, patch, enc))
  <2>1. \A i \in 1..Len(W) : \A j \in 1..Len(LineFields(W[i], patch)) :
          LineFields(W[i], patch)[j] \in F
    BY DEF FieldsOf
  <2> HIDE DEF F, Enc
  <2>2. \A i \in 1..Len(W) : \A j \in 1..Len(LineFields(W[i], patch)) :
          enc[LineFields(W[i], patch)[j]]
            = <<LineFields(W[i], patch)[j][1],
                Enc(LineFields(W[i], patch)[j][1], LineFields(W[i], patch)[j][2])>>
    BY <2>1
  <2> HIDE DEF enc
  <2>3. CodedLines(W, patch, enc)
          = [i \in 1..Len(W) |-> [j \in 1..Len(LineFields(W[i], patch)) |->
               <<LineFields(W[i], patch)[j][1],
                 Enc(LineFields(W[i], patch)[j][1], LineFields(W[i], patch)[j][2])>>]]
    BY <2>2 DEF CodedLines
  <2> QED BY <2>3 DEF EncodePatch, Encode, Enc
<1>2. ReadsAs(W, patch, enc, dec, as)
  <2> DEFINE was(i) == Values(W[i].how, patch[W[i].name])
             is(i) == Values(W[i].how, as[W[i].name])
  <2>1. /\ W[1].how = "each" /\ W[1].name = "attestordata" /\ W[1].no = 1
        /\ W[2].how = "message" /\ W[2].name = "signer" /\ W[2].no = 2
    BY DEF AttestBlockResultWriter, Line
  <2>2. \A i \in 1..Len(W) : i = 1 \/ i = 2
    BY DEF AttestBlockResultWriter
  <2>3. /\ patch["signer"] = patch.signer /\ as["signer"] = patch.signer
        /\ patch["attestordata"] = patch.attestordata
        /\ as["attestordata"] = AttestationsAs(to, patch.attestordata)
    BY DEF PatchAs
  <2> HIDE DEF W, as
  <2>4. /\ was(2) = is(2) /\ (was(2) = <<>> \/ was(2) = <<patch.signer>>)
        /\ was(1) = patch.attestordata /\ is(1) = AttestationsAs(to, patch.attestordata)
    BY <2>1, <2>3 DEF Values
  <2> SUFFICES ASSUME NEW i \in 1..Len(W)
               PROVE  /\ IsSequence(was(i)) /\ Len(was(i)) = Len(is(i))
                      /\ \A j \in 1..Len(was(i)) :
                           dec[enc[<<W[i].no, was(i)[j]>>]] = <<W[i].no, is(i)[j]>>
    <3> HIDE DEF enc, dec
    <3> QED BY DEF ReadsAs
  <2>5. IsSequence(was(i)) /\ Len(was(i)) = Len(is(i))
    <3> HIDE DEF was, is
    <3>1. CASE i = 1
      BY <2>4, <3>1, AttestationsKept DEF IsPatch
    <3>2. CASE i = 2
      BY <2>4, <3>2, ShortSequences
    <3> QED BY <2>2, <3>1, <3>2
  <2>6. ASSUME NEW j \in 1..Len(was(i))
        PROVE  dec[enc[<<W[i].no, was(i)[j]>>]] = <<W[i].no, is(i)[j]>>
    <3>1. <<W[i].no, was(i)[j]>> \in F
      BY <2>5, CodedField
    <3>2. Dec(W[i].no, Enc(W[i].no, was(i)[j])) = is(i)[j]
      <4> HIDE DEF was, is
      <4>1. CASE i = 1
        <5>1. /\ was(1)[j] = patch.attestordata[j] /\ IsAttestation(from, patch.attestordata[j])
              /\ is(1)[j] = AttestationAs(to, patch.attestordata[j])
          BY <2>4, <4>1, AttestationsKept DEF IsPatch
        <5> QED BY <2>1, <4>1, <5>1, AttestationBack
      <4>2. CASE i = 2
        <5>1. was(2)[j] = is(2)[j] /\ was(2)[j] = patch.signer
          BY <2>4, <4>2
        <5> QED BY <2>1, <4>2, <5>1, SignerBack DEF IsPatch
      <4> QED BY <2>2, <4>1, <4>2
    <3> HIDE DEF F, was, is, Enc, Dec
    <3>3. enc[<<W[i].no, was(i)[j]>>] = <<W[i].no, Enc(W[i].no, was(i)[j])>>
      BY <3>1
    <3>4. <<W[i].no, Enc(W[i].no, was(i)[j])>> \in G
      BY <3>1, <3>3 DEF Codes, F
    <3> HIDE DEF G, enc
    <3> QED BY <3>2, <3>3, <3>4
  <2> QED BY <2>5, <2>6
<1>3. TablesAgree(E, R, W, as) /\ AsRead(E, W, as) = as
  <2>1. IsMessage(E, as)
    BY DEF IsMessage, PatchAs, EmptyAttestBlockResult
  <2>2. ASSUME NEW i \in 1..Len(W), W[i].how = "each" PROVE IsSequence(as[W[i].name])
    <3>1. W[i].name = "attestordata"
      BY <2>2 DEF AttestBlockResultWriter, Line
    <3>2. as["attestordata"] = AttestationsAs(to, patch.attestordata)
      BY DEF PatchAs
    <3> QED BY <3>1, <3>2, AttestationsKept DEF IsPatch
  <2> HIDE DEF as
  <2> QED BY <2>1, <2>2, PatchTables, TablesFit
<1> HIDE DEF bytes, enc, dec, G, F, W, R, E, as
<1>4. TablesAgree(E, R, W, as)
  BY <1>3
<1>5. ReadBack(E, R, W, patch, enc, dec, as, bytes)
  BY ONLY <1>1, <1>2, <1>4, DecodeEncode
<1>6. DecodedFields(dec, bytes)
        = [p \in DOMAIN bytes |-> <<bytes[p][1], Dec(bytes[p][1], bytes[p][2])>>]
  BY <1>5, SequenceFacts DEF DecodedFields, dec, ReadBack, G
<1> QED BY <1>3, <1>5, <1>6 DEF ReadBack, DecodePatch, Decode, Dec, bytes, W, R, E, as

------------------------------------------------------------------------------
(* Bytes that a node of another schema writes alike. *)

\* A line that writes nothing makes no difference.
LEMMA FlattenOne ==
  ASSUME NEW s, IsSequence(s)
  PROVE  FlattenSeq(<<s>>) = s /\ FlattenSeq(<<s, <<>>>>) = s
<1> DEFINE one == <<s>>
           two == <<s, <<>>>>
<1>1. /\ IsSequence(one) /\ Len(one) = 1 /\ one[1] = s
      /\ IsSequence(two) /\ Len(two) = 2 /\ two[1] = s /\ two[2] = <<>>
  <2>1. one \in Seq({s, <<>>}) /\ two \in Seq({s, <<>>})
    OBVIOUS
  <2> QED BY <2>1 DEF IsSequence
<1>2. \A i \in 1..1 : i = 1
  OBVIOUS
<1>3. \A i \in 1..2 : i = 1 \/ i = 2
  OBVIOUS
<1>4. IsSequence(<<>>) /\ Len(<<>>) = 0
  BY ShortSequences
<1> HIDE DEF one, two
<1>5. (<<>> \o s) = s /\ (s \o <<>>) = s
  BY DEF IsSequence
<1>6. FlattenSeq(one) = s
  <2>1. \A i \in 1..Len(one) : IsSequence(one[i])
    BY <1>1, <1>2
  <2>2. PICK w : /\ w[0] = <<>> /\ w[Len(one)] = FlattenSeq(one)
                 /\ \A i \in 1..Len(one) : w[i] = w[i - 1] \o one[i]
                 /\ \A i \in 0..Len(one) : IsSequence(w[i])
    BY <1>1, <2>1, FlattenSteps
  <2>3. w[1] = w[0] \o one[1]
    <3>1. 1 \in 1..Len(one) /\ 1 - 1 = 0
      BY <1>1
    <3>2. w[1] = w[1 - 1] \o one[1]
      BY <2>2, <3>1
    <3> QED BY <3>1, <3>2
  <2> QED BY <1>1, <1>5, <2>2, <2>3
<1>7. FlattenSeq(two) = s
  <2>1. \A i \in 1..Len(two) : IsSequence(two[i])
    BY <1>1, <1>3, <1>4
  <2>2. PICK w : /\ w[0] = <<>> /\ w[Len(two)] = FlattenSeq(two)
                 /\ \A i \in 1..Len(two) : w[i] = w[i - 1] \o two[i]
                 /\ \A i \in 0..Len(two) : IsSequence(w[i])
    BY <1>1, <2>1, FlattenSteps
  <2>3. w[1] = w[0] \o two[1] /\ w[2] = w[1] \o two[2]
    <3>1. 1 \in 1..Len(two) /\ 2 \in 1..Len(two) /\ 1 - 1 = 0 /\ 2 - 1 = 1
      BY <1>1
    <3>2. w[1] = w[1 - 1] \o two[1] /\ w[2] = w[2 - 1] \o two[2]
      BY <2>2, <3>1
    <3> QED BY <3>1, <3>2
  <2> QED BY <1>1, <1>5, <2>2, <2>3
<1> QED BY <1>6, <1>7 DEF one, two

\* What a newer schema adds is not written when it says nothing.
LEMMA SilentNote ==
  ASSUME NEW vote
  PROVE  EncodeAttestorData("newer", [vote |-> vote, note |-> ""])
           = EncodeAttestorData("this", [vote |-> vote])
<1> DEFINE first == Line(1, "number", "vote")
           second == Line(2, "text", "note")
           a == [vote |-> vote, note |-> ""]
           b == [vote |-> vote]
           Wrote(line, msg) == [j \in 1..Len(LineFields(line, msg)) |->
                                  <<LineFields(line, msg)[j][1], LineFields(line, msg)[j][2]>>]
<1>1. Wrote(first, a) = Wrote(first, b) /\ IsSequence(Wrote(first, b))
  <2>1. LineFields(first, a) = LineFields(first, b)
    <3>1. a[first.name] = b[first.name]
      BY DEF Line
    <3> QED BY <3>1 DEF LineFields
  <2>2. IsSequence(Values(first.how, b[first.name]))
    <3>1. Values(first.how, b[first.name]) = <<>> \/ Values(first.how, b[first.name]) = <<b[first.name]>>
      BY DEF Values, Line
    <3> QED BY <3>1, ShortSequences
  <2>3. Len(LineFields(first, b)) \in Nat
    BY <2>2, LineFieldsFacts, SequenceFacts
  <2>4. Wrote(first, b) = [j \in 1..Len(LineFields(first, b)) |-> Wrote(first, b)[j]]
    OBVIOUS
  <2> HIDE DEF Wrote
  <2>5. IsSequence(Wrote(first, b))
    BY <2>3, <2>4, FunctionIsSequence
  <2> HIDE DEF first, a, b
  <2> QED BY <2>1, <2>5 DEF Wrote
<1>2. Wrote(second, a) = <<>>
  <2>1. Values(second.how, a[second.name]) = <<>>
    BY DEF Values, Line
  <2>2. Len(LineFields(second, a)) = 0
    BY <2>1, ShortSequences, LineFieldsFacts
  <2> HIDE DEF second, a
  <2> QED BY <2>2
<1> HIDE DEF Wrote
<1>3. EncodeAttestorData("newer", a) = FlattenSeq(<<Wrote(first, b), <<>>>>)
  <2> DEFINE W == <<first, second>>
  <2>1. W = AttestorDataWriter("newer")
    BY AttestorTables
  <2>2. Len(W) = 2 /\ W[1] = first /\ W[2] = second
    OBVIOUS
  <2>3. EncodeAttestorData("newer", a) = FlattenSeq([i \in 1..Len(W) |-> Wrote(W[i], a)])
    BY <2>1 DEF EncodeAttestorData, Encode, Plain, Wrote
  <2> HIDE DEF W, first, second, a, b
  <2>4. [i \in 1..Len(W) |-> Wrote(W[i], a)] = <<Wrote(first, b), <<>>>>
    BY <1>1, <1>2, <2>2
  <2> QED BY <2>3, <2>4
<1>4. EncodeAttestorData("this", b) = FlattenSeq(<<Wrote(first, b)>>)
  <2> DEFINE W == <<first>>
  <2>1. W = AttestorDataWriter("this")
    BY AttestorTables
  <2>2. Len(W) = 1 /\ W[1] = first
    OBVIOUS
  <2>3. EncodeAttestorData("this", b) = FlattenSeq([i \in 1..Len(W) |-> Wrote(W[i], b)])
    BY <2>1 DEF EncodeAttestorData, Encode, Plain, Wrote
  <2> HIDE DEF W, first, second, a, b
  <2>4. [i \in 1..Len(W) |-> Wrote(W[i], b)] = <<Wrote(first, b)>>
    BY <2>2
  <2> QED BY <2>3, <2>4
<1> HIDE DEF first, second
<1> QED BY <1>1, <1>3, <1>4, FlattenOne

\* An attestation that is read whole is written as it was.
LEMMA AttestationBytes ==
  ASSUME NEW from \in Schemas, NEW to \in Schemas, NEW a, IsAttestation(from, a),
         AttestationAs(from, AttestationAs(to, a)) = a
  PROVE  EncodeAttestorData(to, AttestationAs(to, a)) = EncodeAttestorData(from, a)
<1>1. CASE from = to
  <2>1. AttestationAs(to, a) = a
    BY <1>1 DEF AttestationAs, IsAttestation, Schemas
  <2> QED BY <1>1, <2>1
<1>2. CASE from = "this" /\ to = "newer"
  <2>1. a = [vote |-> a.vote] /\ AttestationAs(to, a) = [vote |-> a.vote, note |-> ""]
    BY <1>2 DEF IsAttestation, AttestationAs
  <2> QED BY <1>2, <2>1, SilentNote
<1>3. CASE from = "newer" /\ to = "this"
  <2>1. AttestationAs(to, a) = [vote |-> a.vote]
    BY <1>3 DEF AttestationAs
  <2>2. a = [vote |-> a.vote, note |-> ""]
    BY <1>3, <2>1 DEF AttestationAs
  <2> QED BY <1>3, <2>1, <2>2, SilentNote
<1> QED BY <1>1, <1>2, <1>3 DEF Schemas

\* A node of a schema reads all that one of another schema wrote.
AttestationsSurvive(from, to, list) ==
  \A i \in 1..Len(list) : AttestationAs(from, AttestationAs(to, list[i])) = list[i]

\* The fields of a number with a list of values
EachOf(line, msg, list, no) ==
  line.how = "each" /\ line.no = no /\ msg[line.name] = list /\ IsSequence(list)
\* The fields written of a list
FieldsAre(fields, no, list) ==
  /\ Len(fields) = Len(list)
  /\ \A j \in 1..Len(list) : fields[j] = <<no, list[j]>> /\ fields[j][1] = no
                              /\ fields[j][2] = list[j]

\* A list is written as a field for each of its elements.
LEMMA EachFields ==
  ASSUME NEW line, NEW msg, NEW list, NEW no, EachOf(line, msg, list, no)
  PROVE  FieldsAre(LineFields(line, msg), no, list)
<1>1. Values(line.how, msg[line.name]) = list /\ IsSequence(list) /\ line.no = no
  BY DEF Values, EachOf
<1>2. /\ Len(LineFields(line, msg)) = Len(list)
      /\ \A j \in 1..Len(list) : LineFields(line, msg)[j] = <<no, list[j]>>
  BY <1>1, LineFieldsFacts
<1> QED BY <1>2 DEF FieldsAre

\* A transaction object whose attestations survive is written alike.
LEMMA TransactionObjBytes ==
  ASSUME NEW from \in Schemas, NEW to \in Schemas, NEW o, IsTransactionObj(from, o),
         AttestationsSurvive(from, to, o.attestordata)
  PROVE  EncodeTransactionObj(to, TransactionObjAs(to, o)) = EncodeTransactionObj(from, o)
<1> DEFINE W == TransactionObjWriter
           Enc(schema, no, v) == IF no = 1 THEN EncodeTransaction(v)
                                 ELSE IF no = 2 THEN EncodeTxValidatorData(v)
                                 ELSE EncodeAttestorData(schema, v)
           Wrote(schema, i, msg) ==
             [j \in 1..Len(LineFields(W[i], msg)) |->
               <<LineFields(W[i], msg)[j][1],
                 Enc(schema, LineFields(W[i], msg)[j][1], LineFields(W[i], msg)[j][2])>>]
           as == TransactionObjAs(to, o)
<1>1. \A schema, msg : EncodeTransactionObj(schema, msg)
                         = FlattenSeq([i \in 1..Len(W) |-> Wrote(schema, i, msg)])
  BY DEF EncodeTransactionObj, Encode
<1>2. ASSUME NEW i \in 1..Len(W) PROVE Wrote(to, i, as) = Wrote(from, i, o)
  <2>1. /\ W[1].how = "message" /\ W[1].name = "tx" /\ W[1].no = 1
        /\ W[2].how = "message" /\ W[2].name = "validatordata" /\ W[2].no = 2
        /\ W[3].how = "each" /\ W[3].name = "attestordata" /\ W[3].no = 3
    BY DEF TransactionObjWriter, Line
  <2>2. i = 1 \/ i = 2 \/ i = 3
    BY DEF TransactionObjWriter
  <2>3. /\ as["tx"] = o["tx"] /\ as["validatordata"] = o["validatordata"]
        /\ o["attestordata"] = o.attestordata
        /\ as["attestordata"] = AttestationsAs(to, o.attestordata)
    BY DEF TransactionObjAs
  <2> HIDE DEF W, as
  <2>4. CASE i \in {1, 2}
    <3>1. LineFields(W[i], as) = LineFields(W[i], o)
      BY <2>1, <2>3, <2>4 DEF LineFields
    <3>2. /\ Values(W[i].how, o[W[i].name]) = <<>>
          \/ Values(W[i].how, o[W[i].name]) = <<o[W[i].name]>>
      BY <2>1, <2>4 DEF Values
    <3>3. IsSequence(Values(W[i].how, o[W[i].name]))
      BY <3>2, ShortSequences
    <3>4. \A j \in 1..Len(LineFields(W[i], o)) : LineFields(W[i], o)[j][1] = W[i].no
      BY <3>3, LineFieldsFacts
    <3>5. W[i].no \in {1, 2}
      BY <2>1, <2>4
    <3>6. \A v : Enc(to, W[i].no, v) = Enc(from, W[i].no, v)
      BY <3>5
    <3> HIDE DEF Enc
    <3> QED BY <3>1, <3>4, <3>6
  <2>5. CASE i = 3
    <3> DEFINE list == o.attestordata
               aslist == AttestationsAs(to, list)
    <3>1. /\ IsSequence(list) /\ IsSequence(aslist) /\ Len(aslist) = Len(list)
          /\ \A j \in 1..Len(list) : aslist[j] = AttestationAs(to, list[j])
      BY AttestationsKept DEF IsTransactionObj
    <3> HIDE DEF aslist
    <3>4. FieldsAre(LineFields(W[i], o), 3, list) /\ FieldsAre(LineFields(W[i], as), 3, aslist)
      <4>1. EachOf(W[i], o, list, 3) /\ EachOf(W[i], as, aslist, 3)
        BY <2>1, <2>3, <2>5, <3>1 DEF EachOf, aslist
      <4> HIDE DEF list
      <4> QED BY <4>1, EachFields
    <3>5. \A j \in 1..Len(list) : Enc(to, 3, aslist[j]) = Enc(from, 3, list[j])
      <4> SUFFICES ASSUME NEW j \in 1..Len(list)
                   PROVE  EncodeAttestorData(to, aslist[j]) = EncodeAttestorData(from, list[j])
        OBVIOUS
      <4>1. IsAttestation(from, list[j]) /\ AttestationAs(from, AttestationAs(to, list[j])) = list[j]
        BY DEF IsTransactionObj, AttestationsSurvive
      <4> HIDE DEF list
      <4> QED BY <3>1, <4>1, AttestationBytes
    <3> HIDE DEF Enc, list
    <3>6. ASSUME NEW j \in 1..Len(list)
          PROVE  <<LineFields(W[i], as)[j][1],
                   Enc(to, LineFields(W[i], as)[j][1], LineFields(W[i], as)[j][2])>>
                 = <<LineFields(W[i], o)[j][1],
                     Enc(from, LineFields(W[i], o)[j][1], LineFields(W[i], o)[j][2])>>
      <4>1. LineFields(W[i], o)[j][1] = 3 /\ LineFields(W[i], o)[j][2] = list[j]
        BY <3>4 DEF FieldsAre
      <4>2. LineFields(W[i], as)[j][1] = 3 /\ LineFields(W[i], as)[j][2] = aslist[j]
        BY <3>1, <3>4 DEF FieldsAre
      <4> QED BY <3>5, <4>1, <4>2
    <3>7. Len(LineFields(W[i], as)) = Len(list) /\ Len(LineFields(W[i], o)) = Len(list)
      BY <3>1, <3>4 DEF FieldsAre
    <3> QED BY <3>6, <3>7
  <2> QED BY <2>2, <2>4, <2>5
<1> HIDE DEF Wrote, as
<1> QED BY <1>1, <1>2 DEF as

\* Nothing of a block's attestations is lost from one schema in another.
BlockSurvives(from, to, block) ==
  \A i \in 1..Len(block.txobj) : AttestationsSurvive(from, to, block.txobj[i].attestordata)

\* A node that reads a block of another schema, and loses none of its attestations, writes
\* the very bytes it read: so a hash or a signature of them holds for it as well.
THEOREM BlockBytesKept ==
  ASSUME NEW from \in Schemas, NEW to \in Schemas, NEW block, IsBlock(from, block),
         BlockSurvives(from, to, block)
  PROVE  EncodeBlock(to, BlockAs(to, block)) = EncodeBlock(from, block)
<1> DEFINE W == BlockWriter
           Enc(schema, no, v) == IF no = 2 THEN EncodeTransactionObj(schema, v)
                                 ELSE IF no = 3 THEN Encode(SignerWriter, Plain, v)
                                 ELSE v
           Wrote(schema, i, msg) ==
             [j \in 1..Len(LineFields(W[i], msg)) |->
               <<LineFields(W[i], msg)[j][1],
                 Enc(schema, LineFields(W[i], msg)[j][1], LineFields(W[i], msg)[j][2])>>]
           as == BlockAs(to, block)
<1>1. \A schema, msg : EncodeBlock(schema, msg)
                         = FlattenSeq([i \in 1..Len(W) |-> Wrote(schema, i, msg)])
  BY DEF EncodeBlock, Encode
<1>2. ASSUME NEW i \in 1..Len(W) PROVE Wrote(to, i, as) = Wrote(from, i, block)
  <2>1. /\ W[1].how = "number" /\ W[1].name = "ts" /\ W[1].no = 1
        /\ W[2].how = "text" /\ W[2].name = "attesttoken" /\ W[2].no = 4
        /\ W[3].how = "each" /\ W[3].name = "txobj" /\ W[3].no = 2
        /\ W[4].how = "each" /\ W[4].name = "signers" /\ W[4].no = 3
    BY DEF BlockWriter, Line
  <2>2. i = 1 \/ i = 2 \/ i = 3 \/ i = 4
    BY DEF BlockWriter
  <2>3. /\ as["ts"] = block["ts"] /\ as["attesttoken"] = block["attesttoken"]
        /\ as["signers"] = block["signers"] /\ block["signers"] = block.signers
        /\ block["txobj"] = block.txobj /\ as["txobj"] = TransactionObjsAs(to, block.txobj)
    BY DEF BlockAs
  <2> HIDE DEF W, as
  <2>4. CASE i \in {1, 2, 4}
    <3>1. LineFields(W[i], as) = LineFields(W[i], block)
      BY <2>1, <2>3, <2>4 DEF LineFields
    <3>2. \/ Values(W[i].how, block[W[i].name]) = <<>>
          \/ Values(W[i].how, block[W[i].name]) = <<block[W[i].name]>>
          \/ Values(W[i].how, block[W[i].name]) = block.signers
      BY <2>1, <2>3, <2>4 DEF Values
    <3>3. IsSequence(Values(W[i].how, block[W[i].name]))
      BY <3>2, ShortSequences DEF IsBlock, IsSignerList
    <3>4. \A j \in 1..Len(LineFields(W[i], block)) : LineFields(W[i], block)[j][1] = W[i].no
      BY <3>3, LineFieldsFacts
    <3>5. W[i].no \in {1, 3, 4}
      BY <2>1, <2>4
    <3>6. \A v : Enc(to, W[i].no, v) = Enc(from, W[i].no, v)
      BY <3>5
    <3> HIDE DEF Enc
    <3> QED BY <3>1, <3>4, <3>6
  <2>5. CASE i = 3
    <3> DEFINE list == block.txobj
               aslist == TransactionObjsAs(to, list)
    <3>1. /\ IsSequence(list) /\ IsSequence(aslist) /\ Len(aslist) = Len(list)
          /\ \A j \in 1..Len(list) : aslist[j] = TransactionObjAs(to, list[j])
      BY TransactionObjsKept DEF IsBlock
    <3> HIDE DEF aslist
    <3>4. FieldsAre(LineFields(W[i], block), 2, list) /\ FieldsAre(LineFields(W[i], as), 2, aslist)
      <4>1. EachOf(W[i], block, list, 2) /\ EachOf(W[i], as, aslist, 2)
        BY <2>1, <2>3, <2>5, <3>1 DEF EachOf, aslist
      <4> HIDE DEF list
      <4> QED BY <4>1, EachFields
    <3>5. \A j \in 1..Len(list) : Enc(to, 2, aslist[j]) = Enc(from, 2, list[j])
      <4> SUFFICES ASSUME NEW j \in 1..Len(list)
                   PROVE  EncodeTransactionObj(to, aslist[j]) = EncodeTransactionObj(from, list[j])
        OBVIOUS
      <4>1. /\ IsTransactionObj(from, list[j])
            /\ AttestationsSurvive(from, to, list[j].attestordata)
        BY DEF IsBlock, BlockSurvives
      <4> HIDE DEF list
      <4> QED BY <3>1, <4>1, TransactionObjBytes
    <3> HIDE DEF Enc, list
    <3>6. ASSUME NEW j \in 1..Len(list)
          PROVE  <<LineFields(W[i], as)[j][1],
                   Enc(to, LineFields(W[i], as)[j][1], LineFields(W[i], as)[j][2])>>
                 = <<LineFields(W[i], block)[j][1],
                     Enc(from, LineFields(W[i], block)[j][1], LineFields(W[i], block)[j][2])>>
      <4>1. LineFields(W[i], block)[j][1] = 2 /\ LineFields(W[i], block)[j][2] = list[j]
        BY <3>4 DEF FieldsAre
      <4>2. LineFields(W[i], as)[j][1] = 2 /\ LineFields(W[i], as)[j][2] = aslist[j]
        BY <3>1, <3>4 DEF FieldsAre
      <4> QED BY <3>5, <4>1, <4>2
    <3>7. Len(LineFields(W[i], as)) = Len(list) /\ Len(LineFields(W[i], block)) = Len(list)
      BY <3>1, <3>4 DEF FieldsAre
    <3> QED BY <3>6, <3>7
  <2> QED BY <2>2, <2>4, <2>5
<1> HIDE DEF Wrote, as
<1> QED BY <1>1, <1>2 DEF as

\* The same for patches
LEMMA PatchBytesKept ==
  ASSUME NEW from \in Schemas, NEW to \in Schemas, NEW patch, IsPatch(from, patch),
         AttestationsSurvive(from, to, patch.attestordata)
  PROVE  EncodePatch(to, PatchAs(to, patch)) = EncodePatch(from, patch)
<1> DEFINE W == AttestBlockResultWriter
           Enc(schema, no, v) == IF no = 2 THEN Encode(SignerWriter, Plain, v)
                                 ELSE EncodeAttestorData(schema, v)
           Wrote(schema, i, msg) ==
             [j \in 1..Len(LineFields(W[i], msg)) |->
               <<LineFields(W[i], msg)[j][1],
                 Enc(schema, LineFields(W[i], msg)[j][1], LineFields(W[i], msg)[j][2])>>]
           as == PatchAs(to, patch)
<1>1. \A schema, msg : EncodePatch(schema, msg)
                         = FlattenSeq([i \in 1..Len(W) |-> Wrote(schema, i, msg)])
  BY DEF EncodePatch, Encode
<1>2. ASSUME NEW i \in 1..Len(W) PROVE Wrote(to, i, as) = Wrote(from, i, patch)
  <2>1. /\ W[1].how = "each" /\ W[1].name = "attestordata" /\ W[1].no = 1
        /\ W[2].how = "message" /\ W[2].name = "signer" /\ W[2].no = 2
    BY DEF AttestBlockResultWriter, Line
  <2>2. i = 1 \/ i = 2
    BY DEF AttestBlockResultWriter
  <2>3. /\ as["signer"] = patch["signer"] /\ patch["attestordata"] = patch.attestordata
        /\ as["attestordata"] = AttestationsAs(to, patch.attestordata)
    BY DEF PatchAs
  <2> HIDE DEF W, as
  <2>4. CASE i = 2
    <3>1. LineFields(W[i], as) = LineFields(W[i], patch)
      BY <2>1, <2>3, <2>4 DEF LineFields
    <3>2. \/ Values(W[i].how, patch[W[i].name]) = <<>>
          \/ Values(W[i].how, patch[W[i].name]) = <<patch[W[i].name]>>
      BY <2>1, <2>4 DEF Values
    <3>3. IsSequence(Values(W[i].how, patch[W[i].name]))
      BY <3>2, ShortSequences
    <3>4. \A j \in 1..Len(LineFields(W[i], patch)) : LineFields(W[i], patch)[j][1] = 2
      BY <2>1, <2>4, <3>3, LineFieldsFacts
    <3>5. \A v : Enc(to, 2, v) = Enc(from, 2, v)
      OBVIOUS
    <3> HIDE DEF Enc
    <3> QED BY <3>1, <3>4, <3>5
  <2>5. CASE i = 1
    <3> DEFINE list == patch.attestordata
               aslist == AttestationsAs(to, list)
    <3>1. /\ IsSequence(list) /\ IsSequence(aslist) /\ Len(aslist) = Len(list)
          /\ \A j \in 1..Len(list) : aslist[j] = AttestationAs(to, list[j])
      BY AttestationsKept DEF IsPatch
    <3> HIDE DEF aslist
    <3>4. FieldsAre(LineFields(W[i], patch), 1, list) /\ FieldsAre(LineFields(W[i], as), 1, aslist)
      <4>1. EachOf(W[i], patch, list, 1) /\ EachOf(W[i], as, aslist, 1)
        BY <2>1, <2>3, <2>5, <3>1 DEF EachOf, aslist
      <4> HIDE DEF list
      <4> QED BY <4>1, EachFields
    <3>5. \A j \in 1..Len(list) : Enc(to, 1, aslist[j]) = Enc(from, 1, list[j])
      <4> SUFFICES ASSUME NEW j \in 1..Len(list)
                   PROVE  EncodeAttestorData(to, aslist[j]) = EncodeAttestorData(from, list[j])
        OBVIOUS
      <4>1. /\ IsAttestation(from, list[j])
            /\ AttestationAs(from, AttestationAs(to, list[j])) = list[j]
        BY DEF IsPatch, AttestationsSurvive
      <4> HIDE DEF list
      <4> QED BY <3>1, <4>1, AttestationBytes
    <3> HIDE DEF Enc, list
    <3>6. ASSUME NEW j \in 1..Len(list)
          PROVE  <<LineFields(W[i], as)[j][1],
                   Enc(to, LineFields(W[i], as)[j][1], LineFields(W[i], as)[j][2])>>
                 = <<LineFields(W[i], patch)[j][1],
                     Enc(from, LineFields(W[i], patch)[j][1], LineFields(W[i], patch)[j][2])>>
      <4>1. LineFields(W[i], patch)[j][1] = 1 /\ LineFields(W[i], patch)[j][2] = list[j]
        BY <3>4 DEF FieldsAre
      <4>2. LineFields(W[i], as)[j][1] = 1 /\ LineFields(W[i], as)[j][2] = aslist[j]
        BY <3>1, <3>4 DEF FieldsAre
      <4> QED BY <3>5, <4>1, <4>2
    <3>7. Len(LineFields(W[i], as)) = Len(list) /\ Len(LineFields(W[i], patch)) = Len(list)
      BY <3>1, <3>4 DEF FieldsAre
    <3> QED BY <3>6, <3>7
  <2> QED BY <2>2, <2>4, <2>5
<1> HIDE DEF Wrote, as
<1> QED BY <1>1, <1>2 DEF as
==============================================================================
