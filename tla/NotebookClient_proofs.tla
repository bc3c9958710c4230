------------------------ MODULE NotebookClient_proofs ------------------------
(* Theorems about NotebookClient, for every value of its constants: what    *)
(* batches, exit codes and results tell, and what a watch shows.            *)
EXTENDS NotebookClient, SequenceTheorems, FiniteSetTheorems, WellFoundedInduction, TLAPS

-----------------------------------------------------------------------------
(* Natural numbers: the library's induction is over operators, this is over *)
(* sets.                                                                    *)

LEMMA LeastOf ==
  ASSUME NEW T \in SUBSET Nat, T # {}, NEW R, IsWellFoundedOn(R, Nat)
  PROVE  \E m \in T : \A n \in T : ~(<<n, m>> \in R)
BY WFMin

LEMMA LeastNatural ==
  ASSUME NEW T \in SUBSET Nat, T # {}
  PROVE  \E m \in T : \A n \in T : m <= n
<1>1. \E m \in T : \A n \in T : ~(<<n, m>> \in OpToRel(<, Nat))
  BY NatLessThanWellFounded, LeastOf, Zenon
<1>2. PICK m \in T : \A n \in T : ~(<<n, m>> \in OpToRel(<, Nat))
  BY <1>1, Zenon
<1>3. \A n \in T : ~(n < m)
  BY <1>2 DEF OpToRel
<1>4. QED
  BY <1>3

LEMMA SetInduction ==
  ASSUME NEW T, 0 \in T, \A n \in Nat : n \in T => n + 1 \in T
  PROVE  \A n \in Nat : n \in T
<1> SUFFICES ASSUME Nat \ T # {} PROVE FALSE
  OBVIOUS
<1>1. PICK m \in Nat \ T : \A n \in Nat \ T : m <= n
  BY LeastNatural
<1>2. m # 0 /\ m - 1 \in Nat
  OBVIOUS
<1>3. m - 1 \in T
  BY <1>1, <1>2
<1>4. QED
  BY <1>2, <1>3

-----------------------------------------------------------------------------
(* FlattenSeq, by the sequences its recursion goes through *)

Flattens(f, s) ==
  \A i \in 1..Len(s) : f[i] = IF i = 1 THEN s[i] ELSE f[i - 1] \o s[i]

Begins(s, t) ==
  /\ Len(s) \in Nat /\ Len(t) \in Nat /\ Len(s) <= Len(t)
  /\ \A i \in 1..Len(s) : t[i] = s[i]
Agree(f, g, s) == \A i \in 1..Len(s) : g[i] = f[i]

LEMMA FlattensStep ==
  ASSUME NEW f, NEW s, Flattens(f, s), NEW n \in Nat, n + 1 \in 1..Len(s)
  PROVE  f[n + 1] = IF n = 0 THEN s[n + 1] ELSE f[n] \o s[n + 1]
<1>1. f[n + 1] = IF n + 1 = 1 THEN s[n + 1] ELSE f[(n + 1) - 1] \o s[n + 1]
  BY DEF Flattens
<1>2. (n + 1) - 1 = n /\ (n + 1 = 1 <=> n = 0)
  OBVIOUS
<1>3. QED
  BY <1>1, <1>2

LEMMA FlattensFirst ==
  ASSUME NEW f, NEW s, Flattens(f, s), 1 \in 1..Len(s)
  PROVE  f[1] = s[1]
BY DEF Flattens

LEMMA FlattensExists ==
  ASSUME NEW S, NEW s \in Seq(Seq(S))
  PROVE  \E f \in [1..Len(s) -> Seq(S)] : Flattens(f, s)
<1> DEFINE Upto(f, n) == \A i \in 1..n : f[i] = IF i = 1 THEN s[i] ELSE f[i - 1] \o s[i]
           T == {n \in Nat : n <= Len(s) => \E f \in [1..n -> Seq(S)] : Upto(f, n)}
<1>1. 0 \in T
  <2>1. PICK f : f \in [1..0 -> Seq(S)]
    <3>1. [i \in 1..0 |-> <<>>] \in [1..0 -> Seq(S)]
      OBVIOUS
    <3>2. QED
      BY <3>1
  <2>2. Upto(f, 0)
    OBVIOUS
  <2>3. QED
    BY <2>1, <2>2
<1>2. ASSUME NEW n \in Nat, n \in T, n + 1 <= Len(s)
      PROVE  \E f \in [1..n + 1 -> Seq(S)] : Upto(f, n + 1)
  <2>1. PICK f \in [1..n -> Seq(S)] : Upto(f, n)
    BY <1>2
  <2>2. /\ s[n + 1] \in Seq(S)
        /\ n # 0 => f[n] \o s[n + 1] \in Seq(S)
    BY <1>2
  <2> DEFINE last == IF n = 0 THEN s[n + 1] ELSE f[n] \o s[n + 1]
             g == [i \in 1..n + 1 |-> IF i = n + 1 THEN last ELSE f[i]]
  <2>3. g \in [1..n + 1 -> Seq(S)]
    BY <2>2
  <2>4. ASSUME NEW i \in 1..n + 1
        PROVE  g[i] = IF i = 1 THEN s[i] ELSE g[i - 1] \o s[i]
    <3>1. CASE i = n + 1
      BY <3>1
    <3>2. CASE i # n + 1
      <4>1. i \in 1..n /\ g[i] = f[i] /\ (i # 1 => g[i - 1] = f[i - 1])
        BY <3>2
      <4>2. QED
        BY <2>1, <4>1
    <3>3. QED
      BY <3>1, <3>2
  <2>5. QED
    BY <2>3, <2>4
<1>3. ASSUME NEW n \in Nat, n \in T PROVE n + 1 \in T
  <2> HIDE DEF Upto
  <2>1. n + 1 \in Nat
    OBVIOUS
  <2>2. QED
    BY <1>2, <1>3, <2>1
<1> HIDE DEF T
<1>4. Len(s) \in T
  BY <1>1, <1>3, SetInduction
<1>5. QED
  BY <1>4 DEF T, Flattens

LEMMA FlattensUnique ==
  ASSUME NEW s, NEW t, NEW f, NEW g, Begins(s, t), Flattens(f, s), Flattens(g, t)
  PROVE  Agree(f, g, s)
<1> DEFINE T == {n \in Nat : n \in 1..Len(s) => g[n] = f[n]}
<1>1. 0 \in T
  OBVIOUS
<1>2. ASSUME NEW n \in Nat, n \in T, n + 1 \in 1..Len(s)
      PROVE  g[n + 1] = f[n + 1]
  <2>1. n # 0 => g[n] = f[n]
    BY <1>2
  <2>2. /\ f[n + 1] = IF n + 1 = 1 THEN s[n + 1] ELSE f[(n + 1) - 1] \o s[n + 1]
        /\ g[n + 1] = IF n + 1 = 1 THEN t[n + 1] ELSE g[(n + 1) - 1] \o t[n + 1]
        /\ t[n + 1] = s[n + 1] /\ (n + 1) - 1 = n
    BY <1>2 DEF Flattens, Begins
  <2>3. QED
    BY <2>1, <2>2
<1>3. ASSUME NEW n \in Nat, n \in T PROVE n + 1 \in T
  <2>1. n + 1 \in Nat
    OBVIOUS
  <2>2. CASE n + 1 \in 1..Len(s)
    BY <1>2, <1>3, <2>1, <2>2
  <2>3. CASE n + 1 \notin 1..Len(s)
    BY <2>1, <2>3
  <2>4. QED
    BY <2>2, <2>3
<1> HIDE DEF T
<1>4. \A n \in Nat : n \in T
  BY <1>1, <1>3, SetInduction
<1>5. QED
  BY <1>4 DEF T, Agree

LEMMA FlattenIs ==
  ASSUME NEW S, NEW s \in Seq(Seq(S)), s # <<>>,
         NEW f \in [1..Len(s) -> Seq(S)], Flattens(f, s)
  PROVE  FlattenSeq(s) = f[Len(s)] /\ FlattenSeq(s) \in Seq(S)
<1> DEFINE Rec(g) == [i \in 1..Len(s) |-> IF i = 1 THEN s[i] ELSE g[i - 1] \o s[i]]
           g == CHOOSE g : g = Rec(g)
<1>1. Len(s) # 0 /\ Len(s) \in Nat
  OBVIOUS
<1>2. FlattenSeq(s) = g[Len(s)]
  BY <1>1 DEF FlattenSeq
<1>3. f = Rec(f)
  BY DEF Flattens
<1>4. g = Rec(g)
  BY <1>3
<1>5. Flattens(g, s)
  <2>1. \A i \in 1..Len(s) : Rec(g)[i] = IF i = 1 THEN s[i] ELSE g[i - 1] \o s[i]
    OBVIOUS
  <2> HIDE DEF Rec, g
  <2>2. QED
    BY <1>4, <2>1 DEF Flattens
<1> HIDE DEF g
<1>6. f[Len(s)] = g[Len(s)]
  <2>1. Begins(s, s)
    BY <1>1 DEF Begins
  <2>2. Agree(f, g, s)
    BY <1>5, <2>1, FlattensUnique, Zenon
  <2>3. QED
    BY <1>1, <2>2 DEF Agree
<1>7. f[Len(s)] \in Seq(S)
  <2>1. Len(s) \in 1..Len(s)
    BY <1>1
  <2>2. QED
    BY <2>1
<1>8. QED
  BY <1>2, <1>6, <1>7

LEMMA FlattenEmpty == FlattenSeq(<<>>) = <<>>
BY DEF FlattenSeq

LEMMA FlattenTyped ==
  ASSUME NEW S, NEW s \in Seq(Seq(S))
  PROVE  FlattenSeq(s) \in Seq(S)
BY FlattensExists, FlattenIs, FlattenEmpty

LEMMA FlattenExtends ==
  ASSUME NEW S, NEW s \in Seq(Seq(S)), NEW t \in Seq(Seq(S)), s # <<>>,
         Len(t) = Len(s) + 1, \A i \in 1..Len(s) : t[i] = s[i]
  PROVE  FlattenSeq(t) = FlattenSeq(s) \o t[Len(s) + 1]
<1>1. PICK f \in [1..Len(s) -> Seq(S)] : Flattens(f, s)
  BY FlattensExists
<1>2. PICK g \in [1..Len(t) -> Seq(S)] : Flattens(g, t)
  BY FlattensExists
<1>3. Len(s) \in Nat /\ Len(t) \in Nat /\ Len(s) <= Len(t) /\ Len(s) # 0 /\ t # <<>>
  OBVIOUS
<1>4. FlattenSeq(s) = f[Len(s)] /\ FlattenSeq(t) = g[Len(s) + 1]
  <2>1. FlattenSeq(s) = f[Len(s)]
    BY <1>1, FlattenIs
  <2>2. FlattenSeq(t) = g[Len(t)]
    BY <1>2, <1>3, FlattenIs
  <2>3. QED
    BY <2>1, <2>2
<1>5. Agree(f, g, s)
  <2>1. Flattens(f, s) /\ Flattens(g, t) /\ Begins(s, t)
    BY <1>1, <1>2, <1>3 DEF Begins
  <2>2. QED
    BY <2>1, FlattensUnique, Zenon
<1>6. g[Len(s) + 1] = g[Len(s)] \o t[Len(s) + 1]
  <2>1. Len(s) + 1 \in 1..Len(t)
    BY <1>3
  <2>2. g[Len(s) + 1] = IF Len(s) = 0 THEN t[Len(s) + 1] ELSE g[Len(s)] \o t[Len(s) + 1]
    BY <1>2, <1>3, <2>1, FlattensStep, Zenon
  <2>3. QED
    BY <1>3, <2>2, Zenon
<1>7. Len(s) \in 1..Len(s)
  BY <1>3
<1>8. QED
  BY <1>4, <1>5, <1>6, <1>7, Zenon DEF Agree

LEMMA Sums ==
  ASSUME NEW m \in Nat, NEW n \in Nat, NEW l \in Nat
  PROVE  l <= m + l /\ (n <= m => n <= m + l) /\ (n <= m /\ l >= 1 => n + 1 <= m + l)
OBVIOUS

(* The whole is no shorter than what it was made of. *)
LEMMA FlattenLengths ==
  ASSUME NEW S, NEW s \in Seq(Seq(S)), \A i \in 1..Len(s) : s[i] # <<>>
  PROVE  /\ Len(s) <= Len(FlattenSeq(s))
         /\ \A i \in 1..Len(s) : Len(s[i]) <= Len(FlattenSeq(s))
<1> SUFFICES ASSUME s # <<>>
             PROVE  /\ Len(s) <= Len(FlattenSeq(s))
                    /\ \A i \in 1..Len(s) : Len(s[i]) <= Len(FlattenSeq(s))
  BY FlattenEmpty
<1>1. PICK f \in [1..Len(s) -> Seq(S)] : Flattens(f, s)
  BY FlattensExists
<1>2. FlattenSeq(s) = f[Len(s)] /\ Len(s) \in 1..Len(s)
  BY <1>1, FlattenIs
<1> DEFINE T == {n \in Nat : n \in 1..Len(s) =>
                   n <= Len(f[n]) /\ \A i \in 1..n : Len(s[i]) <= Len(f[n])}
<1>3. 0 \in T
  OBVIOUS
<1>4. ASSUME NEW n \in Nat, n + 1 \in 1..Len(s),
             n # 0 => n <= Len(f[n]) /\ \A i \in 1..n : Len(s[i]) <= Len(f[n])
      PROVE  n + 1 <= Len(f[n + 1]) /\ \A i \in 1..n + 1 : Len(s[i]) <= Len(f[n + 1])
  <2> HIDE DEF T
  <2>1. /\ s[n + 1] \in Seq(S) /\ Len(s[n + 1]) >= 1 /\ Len(s[n + 1]) \in Nat
        /\ \A i \in 1..n + 1 : Len(s[i]) \in Nat
    BY <1>4
  <2>2. CASE n = 0
    <3>1. 1 \in 1..Len(s)
      BY <1>4, <2>2
    <3>2. f[1] = s[1]
      BY <1>1, <3>1, FlattensFirst, Zenon
    <3>3. QED
      BY <2>1, <2>2, <3>2
  <2>3. CASE n # 0
    <3>1. n \in 1..Len(s)
      BY <1>4, <2>3
    <3>2. f[n] \in Seq(S)
      BY <1>1, <3>1
    <3>3. f[n + 1] = f[n] \o s[n + 1]
      <4>1. f[n + 1] = IF n = 0 THEN s[n + 1] ELSE f[n] \o s[n + 1]
        BY <1>1, <1>4, FlattensStep, Zenon
      <4>2. QED
        BY <2>3, <4>1, Zenon
    <3>4. Len(f[n + 1]) = Len(f[n]) + Len(s[n + 1]) /\ Len(f[n]) \in Nat
      BY <2>1, <3>2, <3>3
    <3>5. n + 1 <= Len(f[n + 1])
      <4>1. n <= Len(f[n])
        BY <1>4, <2>3
      <4>2. Len(s[n + 1]) >= 1 /\ Len(s[n + 1]) \in Nat
        BY <2>1
      <4>3. QED
        BY <3>4, <4>1, <4>2, Sums, Zenon
    <3>6. ASSUME NEW i \in 1..n + 1 PROVE Len(s[i]) <= Len(f[n + 1])
      <4>1. CASE i = n + 1
        <5>1. Len(s[n + 1]) \in Nat
          BY <2>1
        <5>2. QED
          BY <3>4, <4>1, <5>1, Sums, Zenon
      <4>2. CASE i \in 1..n
        <5>1. Len(s[i]) <= Len(f[n]) /\ Len(s[i]) \in Nat /\ Len(s[n + 1]) \in Nat
          BY <1>4, <2>1, <2>3, <4>2
        <5>2. QED
          BY <3>4, <5>1, Sums, Zenon
      <4>3. QED
        BY <4>1, <4>2
    <3>7. QED
      BY <3>5, <3>6
  <2>4. QED
    BY <2>2, <2>3
<1>5. ASSUME NEW n \in Nat, n \in T PROVE n + 1 \in T
  <2>1. n + 1 \in 1..Len(s) /\ n # 0 => n \in 1..Len(s)
    OBVIOUS
  <2>2. QED
    BY <1>4, <1>5, <2>1
<1> HIDE DEF T
<1>6. \A n \in Nat : n \in T
  BY <1>3, <1>5, SetInduction
<1>7. QED
  BY <1>2, <1>6 DEF T

-----------------------------------------------------------------------------
(* Writes, and the types of what they write *)

LEMMA ClientWrite ==
  ASSUME NEW k \in Clients, NEW c \in Client, cl \in [Clients -> Client], Goes(k, c)
  PROVE  /\ cl' \in [Clients -> Client]
         /\ cl'[k] = c
         /\ \A o \in Clients \ {k} : cl'[o] = cl[o]
BY DEF Goes

LEMMA JobWrite ==
  ASSUME NEW j \in Jobs, NEW r \in Job, job \in [Jobs -> Job], job' = [job EXCEPT ![j] = r]
  PROVE  /\ job' \in [Jobs -> Job]
         /\ job'[j] = r
         /\ \A o \in Jobs \ {j} : job'[o] = job[o]
OBVIOUS

LEMMA QueuesTyped ==
  ASSUME TypeOK, NEW j \in Jobs, NEW cells \in Seq(CellIds), Queues(j, cells)
  PROVE  job' \in [Jobs -> Job] /\ kernel' \in 0..kernels' /\ kernels' \in Nat
<1>1. job[j] \in Job
  BY DEF TypeOK
<1>2. [job[j] EXCEPT !.status = "queued", !.cells = cells] \in Job
  BY <1>1 DEF Job, JobStatus
<1>3. job' \in [Jobs -> Job]
  BY <1>2, JobWrite DEF Queues, TypeOK
<1>4. QED
  BY <1>3 DEF Queues, EnsuresKernel, TypeOK

LEMMA PrintedTyped ==
  ASSUME NEW outputs \in Outputs
  PROVE  Printed(outputs) \in Seq(Shapes)
<1> DEFINE s == [i \in DOMAIN outputs |-> Text(outputs[i])]
<1>1. PICK n \in 0..MaxText : outputs \in [1..n -> Output]
  BY DEF Outputs
<1>2. \A i \in 1..n : Text(outputs[i]) \in Seq(Shapes)
  BY <1>1 DEF Text, Output, Shapes
<1>3. s \in Seq(Seq(Shapes))
  BY <1>1, <1>2
<1>4. QED
  BY <1>3, FlattenTyped DEF Printed

LEMMA ExtendedTyped ==
  ASSUME NEW outputs \in Outputs, Len(Printed(outputs)) < MaxText,
         NEW name \in Names, NEW j \in Jobs
  PROVE  Extended(outputs, name, j) \in Outputs
<1> DEFINE s == [i \in DOMAIN outputs |-> Text(outputs[i])]
<1>1. PICK n \in 0..MaxText : outputs \in [1..n -> Output]
  BY DEF Outputs
<1>2. MaxText \in Nat \ {0}
  BY ClientAssumption
<1>3. \A i \in 1..n : /\ Text(outputs[i]) \in Seq(Shapes)
                      /\ Len(Text(outputs[i])) = outputs[i].len
                      /\ outputs[i].len \in 1..MaxText
  BY <1>1 DEF Text, Output, Shapes
<1>4. s \in Seq(Seq(Shapes)) /\ Len(s) = n /\ \A i \in 1..n : s[i] = Text(outputs[i])
  BY <1>1, <1>3
<1>5. \A i \in 1..Len(s) : s[i] # <<>>
  BY <1>3, <1>4
<1> HIDE DEF s
<1>6. n <= Len(FlattenSeq(s)) /\ \A i \in 1..n : Len(s[i]) <= Len(FlattenSeq(s))
  BY <1>4, <1>5, FlattenLengths
<1>7. Len(FlattenSeq(s)) \in Nat /\ Len(FlattenSeq(s)) < MaxText
  <2>1. FlattenSeq(s) \in Seq(Shapes)
    BY <1>4, FlattenTyped
  <2>2. Printed(outputs) = FlattenSeq(s)
    BY DEF Printed, s
  <2>3. QED
    BY <2>1, <2>2
<1>8. n + 1 \in 0..MaxText /\ \A i \in 1..n : outputs[i].len + 1 \in 1..MaxText
  BY <1>2, <1>3, <1>4, <1>6, <1>7
<1>9. Len(outputs) = n
  BY <1>1
<1>10. CASE n > 0 /\ name # "display" /\ outputs[n].name = name
  <2>1. outputs[n] \in Output /\ outputs[n].len + 1 \in 1..MaxText
    BY <1>1, <1>8, <1>10
  <2>2. Longer(outputs[n]) \in Output
    BY <2>1 DEF Output, Longer
  <2>3. Extended(outputs, name, j) = [outputs EXCEPT ![n] = Longer(outputs[n])]
    BY <1>9, <1>10 DEF Extended
  <2>4. Extended(outputs, name, j) \in [1..n -> Output]
    BY <1>1, <2>2, <2>3
  <2>5. QED
    BY <2>4 DEF Outputs
<1>11. CASE ~(n > 0 /\ name # "display" /\ outputs[n].name = name)
  <2> DEFINE o == [name |-> name, by |-> j, len |-> 1]
  <2>1. o \in Output
    BY <1>2 DEF Output
  <2>2. Extended(outputs, name, j) = Append(outputs, o)
    BY <1>9, <1>11 DEF Extended
  <2> HIDE DEF o
  <2>3. Append(outputs, o) \in [1..n + 1 -> Output]
    <3>1. outputs \in Seq(Output)
      BY <1>1
    <3>2. Append(outputs, o) \in Seq(Output) /\ Len(Append(outputs, o)) = n + 1
      BY <1>9, <2>1, <3>1, AppendProperties
    <3>3. QED
      BY <3>2, LenProperties
  <2>4. QED
    BY <1>8, <2>2, <2>3 DEF Outputs
<1>12. QED
  BY <1>10, <1>11

LEMMA StrTyped ==
  ASSUME NEW o \in Output
  PROVE  /\ Text(o) \in Seq(Shapes) /\ Len(Text(o)) = o.len /\ o.len \in Nat
         /\ Str(o) \in Seq(Shapes) /\ Len(Str(o)) \in Nat
         /\ o.name # "lines" => Str(o) = Text(o)
<1>1. Text(o) \in Seq(Shapes) /\ Len(Text(o)) = o.len /\ o.len \in Nat
  BY DEF Text, Output, Shapes
<1>2. <<"[">> \in Seq(Shapes) /\ <<"]">> \in Seq(Shapes)
  BY DEF Shapes
<1>3. <<"[">> \o Text(o) \o <<"]">> \in Seq(Shapes)
  BY <1>1, <1>2, ConcatProperties
<1>4. Str(o) \in Seq(Shapes) /\ (o.name # "lines" => Str(o) = Text(o))
  BY <1>1, <1>3 DEF Str
<1>5. QED
  BY <1>1, <1>4, LenProperties

(* What _output_deltas makes of output i *)
GrownStr(p, o) == /\ o.name # "display" /\ p.name = o.name /\ p.by = o.by
                  /\ IsPrefix(Str(p), Str(o))
DeltaOf(previous, current, i) ==
  IF i > Len(previous) THEN Str(current[i])
  ELSE IF previous[i] = current[i] THEN <<>>
  ELSE IF GrownStr(previous[i], current[i])
       THEN SubSeq(Str(current[i]), Len(Str(previous[i])) + 1, Len(Str(current[i])))
  ELSE Str(current[i])

LEMMA DeltasAre ==
  ASSUME NEW previous, NEW current
  PROVE  Deltas(previous, current) = FlattenSeq([i \in DOMAIN current |-> DeltaOf(previous, current, i)])
BY DEF Deltas, DeltaOf, GrownStr

(* If the text before is a prefix, it and the delta are the text now. *)
LEMMA PrefixRest ==
  ASSUME NEW S, NEW x \in Seq(S), NEW y \in Seq(S), IsPrefix(x, y)
  PROVE  /\ SubSeq(y, Len(x) + 1, Len(y)) \in Seq(S)
         /\ y = x \o SubSeq(y, Len(x) + 1, Len(y))
<1>1. PICK l \in Nat : l = Len(x)
  OBVIOUS
<1>2. PICK m \in Nat : m = Len(y)
  OBVIOUS
<1>3. l <= m /\ SubSeq(x, 1, l) = SubSeq(y, 1, l)
  BY <1>1, <1>2 DEF IsPrefix
<1>4. PICK r : r = SubSeq(y, l + 1, m)
  OBVIOUS
<1>5. /\ r \in Seq(S) /\ Len(r) = m - l
      /\ \A i \in 1..m - l : r[i] = y[l + i]
  <2>1. l + 1 \in 1..m + 1 /\ m \in l..m
    BY <1>3
  <2>2. QED
    BY <1>2, <1>4, <2>1, SubSeqProperties
<1>6. \A i \in 1..l : x[i] = y[i]
  <2>1. \A i \in 1..l : SubSeq(x, 1, l)[i] = x[i] /\ SubSeq(y, 1, l)[i] = y[i]
    BY <1>1, <1>2, <1>3, SubSeqProperties
  <2>2. QED
    BY <1>3, <2>1
<1>7. /\ x \o r \in Seq(S) /\ Len(x \o r) = m
      /\ \A i \in 1..m : (x \o r)[i] = IF i <= l THEN x[i] ELSE r[i - l]
  <2>1. Len(x) + Len(r) = m
    BY <1>1, <1>3, <1>5
  <2>2. QED
    BY <1>1, <1>5, <2>1, ConcatProperties
<1>8. ASSUME NEW i \in 1..m PROVE (x \o r)[i] = y[i]
  <2>1. CASE i <= l
    BY <1>6, <1>7, <2>1
  <2>2. CASE ~(i <= l)
    <3>1. i - l \in 1..m - l /\ l + (i - l) = i
      BY <2>2
    <3>2. QED
      BY <1>5, <1>7, <2>2, <3>1
  <2>3. QED
    BY <2>1, <2>2
<1>9. y = x \o r
  BY <1>2, <1>7, <1>8, SeqEqual
<1>10. QED
  BY <1>1, <1>2, <1>4, <1>5, <1>9

LEMMA DeltaTyped ==
  ASSUME NEW previous \in Outputs, NEW current \in Outputs, NEW i \in DOMAIN current
  PROVE  DeltaOf(previous, current, i) \in Seq(Shapes)
<1>1. PICK n \in 0..MaxText : current \in [1..n -> Output]
  BY DEF Outputs
<1>2. PICK m \in 0..MaxText : previous \in [1..m -> Output]
  BY DEF Outputs
<1>3. n \in Nat /\ m \in Nat /\ i \in 1..n /\ Len(previous) = m
  BY <1>1, <1>2, ClientAssumption
<1>4. Str(current[i]) \in Seq(Shapes)
  BY <1>1, <1>3, StrTyped
<1>5. CASE i > m
  BY <1>3, <1>4, <1>5 DEF DeltaOf
<1>6. CASE i <= m
  <2>1. Str(previous[i]) \in Seq(Shapes)
    <3>1. previous[i] \in Output
      BY <1>2, <1>3, <1>6
    <3>2. QED
      BY <3>1, StrTyped
  <2>2. GrownStr(previous[i], current[i]) =>
          SubSeq(Str(current[i]), Len(Str(previous[i])) + 1, Len(Str(current[i]))) \in Seq(Shapes)
    BY <1>4, <2>1, PrefixRest DEF GrownStr
  <2>3. <<>> \in Seq(Shapes)
    OBVIOUS
  <2>4. QED
    BY <1>4, <2>2, <2>3 DEF DeltaOf
<1>7. QED
  BY <1>3, <1>5, <1>6

LEMMA DeltasTyped ==
  ASSUME NEW previous \in Outputs, NEW current \in Outputs
  PROVE  Deltas(previous, current) \in Seq(Shapes)
<1> DEFINE s == [i \in DOMAIN current |-> DeltaOf(previous, current, i)]
<1>1. PICK n \in 0..MaxText : current \in [1..n -> Output]
  BY DEF Outputs
<1>2. DOMAIN current = 1..n /\ n \in Nat
  BY <1>1, ClientAssumption
<1>3. \A i \in 1..n : s[i] \in Seq(Shapes)
  BY <1>2, DeltaTyped
<1>4. s \in Seq(Seq(Shapes))
  BY <1>2, <1>3
<1>5. Deltas(previous, current) = FlattenSeq(s)
  BY DeltasAre
<1> HIDE DEF s
<1>6. QED
  BY <1>4, <1>5, FlattenTyped

-----------------------------------------------------------------------------
(* Types.  A client's record has the type it should only with a few facts   *)
(* of where the client is.                                                  *)
Typed(k, c) ==
  /\ c.pc = "join" => cmd[k].op = "await"
  /\ c.pc \in {"poll", "look", "take", "decide"} => c.job # NoJob
  /\ c.pc = "take" => c.todo # <<>>

TypeInv == TypeOK /\ cmd \in Commands /\ \A k \in Clients : Typed(k, cl[k])

LEMMA CommandFacts ==
  ASSUME cmd \in Commands, NEW k \in Clients
  PROVE  cmd[k] \in Command /\ Accepted(cmd[k])
BY CommandsAssumption

LEMMA TypeInit == Init => TypeInv
<1> SUFFICES ASSUME Init PROVE TypeInv
  OBVIOUS
<1>1. cmd \in Commands /\ \A k \in Clients : cmd[k] \in Command /\ Accepted(cmd[k])
  BY CommandsAssumption DEF Init
<1>2. MaxText \in Nat \ {0} /\ MaxBatch \in Nat \ {0} /\ OldCells \in Seq(CellIds)
  BY ClientAssumption DEF CellIds
<1>3. <<>> \in Outputs
  <2>1. <<>> \in [1..0 -> Output] /\ 0 \in 0..MaxText
    BY <1>2
  <2>2. QED
    BY <2>1 DEF Outputs
<1>4. <<[name |-> "stream", by |-> Before, len |-> 1]>> \in Outputs
  <2>1. [name |-> "stream", by |-> Before, len |-> 1] \in Output
    BY <1>2 DEF Output, Names
  <2>2. 1 \in 0..MaxText /\ <<[name |-> "stream", by |-> Before, len |-> 1]>> \in [1..1 -> Output]
    BY <1>2, <2>1
  <2>3. QED
    BY <2>2 DEF Outputs
<1>5. out \in [CellIds -> Outputs] /\ doc \in Seq(CellIds) /\ runs \in [CellIds -> SUBSET Jobs]
  BY <1>2, <1>3, <1>4 DEF Init
<1>6. job \in [Jobs -> Job] /\ kernel \in 0..kernels /\ kernels \in Nat /\ late \in [Clients -> BOOLEAN]
  BY DEF Init, Job
<1>7. NoOutputs \in [CellIds -> Outputs] /\ NoOutputs \in [CellIds -> Seq(Shapes)]
  BY <1>3 DEF NoOutputs
<1>8. ASSUME NEW k \in Clients PROVE cl[k] \in Client /\ Typed(k, cl[k])
  <2> DEFINE c == [pc |-> FirstStep(cmd[k].op), i |-> 1, inserted |-> {}, job |-> NoJob, status |-> "none",
        cells |-> <<>>, todo |-> <<>>, seen |-> NoOutputs, shown |-> NoOutputs,
        current |-> {}, halt |-> "none", count |-> 0, since |-> 0, exit |-> "none"]
  <2>1. cl[k] = c
    BY DEF Init
  <2>2. FirstStep(cmd[k].op) \in {"insert", "list", "join", "check", "stop"}
        /\ (FirstStep(cmd[k].op) = "join" => cmd[k].op = "await")
    BY <1>1 DEF FirstStep, Command
  <2>3. c \in Client
    BY <1>2, <1>7, <2>2 DEF Client, Steps, Halts
  <2>4. c.pc = FirstStep(cmd[k].op)
    OBVIOUS
  <2> HIDE DEF c
  <2>5. QED
    BY <2>1, <2>2, <2>3, <2>4 DEF Typed
<1>9. cl \in [Clients -> Client]
  <2>1. cl = [k \in Clients |-> cl[k]]
    BY DEF Init
  <2>2. QED
    BY <1>8, <2>1
<1>10. QED
  BY <1>1, <1>5, <1>6, <1>8, <1>9, CommandsAssumption DEF TypeInv, TypeOK

LEMMA TypedMove ==
  ASSUME TypeInv, NEW k \in Clients, NEW c \in Client, Goes(k, c), Typed(k, c), cmd' = cmd,
         doc' \in Seq(CellIds), out' \in [CellIds -> Outputs], runs' \in [CellIds -> SUBSET Jobs],
         job' \in [Jobs -> Job], kernel' \in 0..kernels', kernels' \in Nat, late' \in [Clients -> BOOLEAN]
  PROVE  TypeInv'
<1>1. cl' \in [Clients -> Client] /\ cl'[k] = c /\ \A o \in Clients \ {k} : cl'[o] = cl[o]
  BY ClientWrite DEF TypeInv, TypeOK
<1>2. TypeOK'
  BY <1>1 DEF TypeInv, TypeOK
<1>3. \A o \in Clients : Typed(o, cl[o])'
  BY <1>1 DEF TypeInv, Typed
<1>4. QED
  BY <1>2, <1>3 DEF TypeInv

LEMMA TypedRead ==
  ASSUME TypeInv, NEW k \in Clients, NEW c \in Client, Goes(k, c), Typed(k, c),
         UNCHANGED <<serverVars, cmd, late>>
  PROVE  TypeInv'
<1>1. doc' \in Seq(CellIds) /\ out' \in [CellIds -> Outputs] /\ runs' \in [CellIds -> SUBSET Jobs]
      /\ job' \in [Jobs -> Job] /\ kernel' \in 0..kernels' /\ kernels' \in Nat /\ late' \in [Clients -> BOOLEAN]
      /\ cmd' = cmd
  BY DEF TypeInv, TypeOK, serverVars
<1>2. QED
  BY <1>1, TypedMove

LEMMA ExitTyped ==
  ASSUME NEW k \in Clients, NEW c \in Client, NEW code \in {"ok", "error", "failed"}
  PROVE  Exit(c, code) \in Client /\ Typed(k, Exit(c, code))
BY DEF Exit, Client, Steps, Typed

LEMMA ContinuedTyped ==
  ASSUME cmd \in Commands, NEW k \in Clients, NEW c \in Client
  PROVE  Continued(k, c) \in Client /\ Typed(k, Continued(k, c))
<1>1. Len(cmd[k].kinds) \in Nat /\ Len(cmd[k].kinds) <= MaxBatch /\ MaxBatch \in Nat
  BY CommandFacts, ClientAssumption DEF Accepted, Command
<1>2. CASE c.i < Len(cmd[k].kinds)
  <2>1. c.i + 1 \in 1..MaxBatch
    BY <1>1, <1>2 DEF Client
  <2>2. Continued(k, c) = [c EXCEPT !.pc = "insert", !.i = c.i + 1]
    BY <1>2 DEF Continued
  <2>3. QED
    BY <2>1, <2>2 DEF Client, Steps, Typed
<1>3. CASE ~(c.i < Len(cmd[k].kinds))
  <2>1. Continued(k, c) = [c EXCEPT !.pc = "report"]
    BY <1>3 DEF Continued
  <2>2. QED
    BY <2>1 DEF Client, Steps, Typed
<1>4. QED
  BY <1>2, <1>3

LEMMA TypeRaises ==
  ASSUME TypeInv, NEW k \in Clients, Raises(k), UNCHANGED <<serverVars, cmd, late>>
  PROVE  TypeInv'
<1>1. cl[k] \in Client
  BY DEF TypeInv, TypeOK
<1>2. QED
  BY <1>1, ExitTyped, TypedRead DEF Raises

LEMMA InsertAtProperties ==
  ASSUME NEW S, NEW s \in Seq(S), NEW i \in 1..Len(s) + 1, NEW e \in S
  PROVE  /\ InsertAt(s, i, e) \in Seq(S)
         /\ Len(InsertAt(s, i, e)) = Len(s) + 1
         /\ InsertAt(s, i, e)[i] = e
         /\ \A n \in 1..Len(s) + 1 : n # i => InsertAt(s, i, e)[n] = s[IF n < i THEN n ELSE n - 1]
<1> DEFINE left == SubSeq(s, 1, i - 1)
           right == SubSeq(s, i, Len(s))
           front == left \o <<e>>
<1>1. /\ left \in Seq(S) /\ Len(left) = i - 1
      /\ \A n \in 1..i - 1 : left[n] = s[n]
  BY SubSeqProperties
<1>2. /\ right \in Seq(S) /\ Len(right) = Len(s) + 1 - i
      /\ \A n \in 1..Len(s) + 1 - i : right[n] = s[i + n - 1]
  BY SubSeqProperties
<1>3. <<e>> \in Seq(S) /\ Len(<<e>>) = 1 /\ <<e>>[1] = e
  OBVIOUS
<1>4. InsertAt(s, i, e) = front \o right
  BY DEF InsertAt
<1> HIDE DEF left, right
<1>5. /\ front \in Seq(S) /\ Len(front) = i
      /\ \A n \in 1..i : front[n] = IF n < i THEN s[n] ELSE e
  BY <1>1, <1>3, ConcatProperties
<1> HIDE DEF front
<1>6. /\ front \o right \in Seq(S) /\ Len(front \o right) = Len(s) + 1
      /\ \A n \in 1..Len(s) + 1 :
           (front \o right)[n] = IF n <= i THEN front[n] ELSE right[n - i]
  BY <1>2, <1>5, ConcatProperties
<1>7. ASSUME NEW n \in 1..Len(s) + 1
      PROVE  (front \o right)[n] = IF n < i THEN s[n] ELSE IF n = i THEN e ELSE s[n - 1]
  <2>1. CASE n <= i
    BY <1>5, <1>6, <2>1
  <2>2. CASE n > i
    <3>1. n - i \in 1..Len(s) + 1 - i /\ i + (n - i) - 1 = n - 1 /\ ~(n <= i) /\ ~(n < i) /\ n # i
      BY <2>2
    <3>2. (front \o right)[n] = right[n - i]
      BY <1>6, <3>1
    <3>3. right[n - i] = s[n - 1]
      BY <1>2, <3>1
    <3>4. QED
      BY <3>1, <3>2, <3>3
  <2>3. n <= i \/ n > i
    OBVIOUS
  <2>4. QED
    BY <2>1, <2>2, <2>3, Zenon
<1>8. i \in 1..Len(s) + 1 /\ ~(i < i)
  OBVIOUS
<1>9. QED
  BY <1>4, <1>6, <1>7, <1>8

LEMMA RemoveAtProperties ==
  ASSUME NEW S, NEW s \in Seq(S), NEW i \in 1..Len(s)
  PROVE  /\ RemoveAt(s, i) \in Seq(S)
         /\ Len(RemoveAt(s, i)) = Len(s) - 1
         /\ \A n \in 1..Len(s) - 1 : RemoveAt(s, i)[n] = IF n < i THEN s[n] ELSE s[n + 1]
<1> DEFINE left == SubSeq(s, 1, i - 1)
           right == SubSeq(s, i + 1, Len(s))
<1>1. /\ left \in Seq(S) /\ Len(left) = i - 1
      /\ \A n \in 1..i - 1 : left[n] = s[n]
  BY SubSeqProperties
<1>2. /\ right \in Seq(S) /\ Len(right) = Len(s) - i
      /\ \A n \in 1..Len(s) - i : right[n] = s[i + n]
  BY SubSeqProperties
<1>3. RemoveAt(s, i) = left \o right
  BY DEF RemoveAt
<1> HIDE DEF left, right
<1>4. /\ left \o right \in Seq(S) /\ Len(left \o right) = Len(s) - 1
      /\ \A n \in 1..Len(s) - 1 : (left \o right)[n] = IF n < i THEN left[n] ELSE right[n - i + 1]
  BY <1>1, <1>2, ConcatProperties
<1>5. \A n \in 1..Len(s) - 1 : n >= i => right[n - i + 1] = s[n + 1]
  BY <1>2
<1>6. QED
  BY <1>1, <1>3, <1>4, <1>5

(* What Inserts, Deletes and Lists make of the document *)
LEMMA DocFacts ==
  ASSUME TypeInv
  PROVE  doc \in Seq(CellIds) /\ \A c : InDoc(c) <=> \E n \in 1..Len(doc) : doc[n] = c
BY DEF TypeInv, TypeOK, InDoc, ToSet

Place(k) == IF cl[k].i = 1 THEN Len(doc) + 1 ELSE 1 + CHOOSE n \in DOMAIN doc : doc[n] = <<k, cl[k].i - 1>>

LEMMA InsertsWhere ==
  ASSUME TypeInv, NEW k \in Clients, Inserts(k)
  PROVE  \/ Raises(k) /\ doc' = doc /\ cl[k].i > 1 /\ ~InDoc(<<k, cl[k].i - 1>>)
         \/ /\ Place(k) \in 1..Len(doc) + 1
            /\ cl[k].i = 1 => Place(k) = Len(doc) + 1
            /\ cl[k].i > 1 => Place(k) > 1 /\ doc[Place(k) - 1] = <<k, cl[k].i - 1>>
            /\ <<k, cl[k].i>> \in CellIds
            /\ doc' = InsertAt(doc, Place(k), <<k, cl[k].i>>)
            /\ Goes(k, [cl[k] EXCEPT !.pc = "type", !.inserted = @ \cup {<<k, cl[k].i>>}])
<1>1. cl[k].i \in 1..MaxBatch /\ <<k, cl[k].i>> \in CellIds /\ doc \in Seq(CellIds) /\ MaxBatch \in Nat
  BY ClientAssumption DEF TypeInv, TypeOK, Client, CellIds, Jobs
<1>2. CASE cl[k].i > 1 /\ ~InDoc(<<k, cl[k].i - 1>>)
  BY <1>2 DEF Inserts
<1>3. CASE ~(cl[k].i > 1 /\ ~InDoc(<<k, cl[k].i - 1>>))
  <2>1. /\ doc' = InsertAt(doc, Place(k), <<k, cl[k].i>>)
        /\ Goes(k, [cl[k] EXCEPT !.pc = "type", !.inserted = @ \cup {<<k, cl[k].i>>}])
    BY <1>3 DEF Inserts, Place
  <2>2. CASE cl[k].i = 1
    <3>1. Place(k) = Len(doc) + 1
      BY <2>2 DEF Place
    <3>2. QED
      BY <1>1, <2>1, <2>2, <3>1
  <2>3. CASE cl[k].i # 1
    <3>1. cl[k].i > 1
      BY <1>1, <2>3
    <3>2. \E n \in DOMAIN doc : doc[n] = <<k, cl[k].i - 1>>
      BY <1>1, <1>3, <3>1, DocFacts
    <3>3. PICK n \in DOMAIN doc : /\ n = (CHOOSE p \in DOMAIN doc : doc[p] = <<k, cl[k].i - 1>>)
                                  /\ doc[n] = <<k, cl[k].i - 1>>
      BY <3>2
    <3>4. Place(k) = 1 + n
      BY <2>3, <3>3 DEF Place
    <3>5. n \in 1..Len(doc) /\ (1 + n) - 1 = n
      BY <1>1
    <3>6. Place(k) \in 1..Len(doc) + 1 /\ Place(k) > 1 /\ Place(k) - 1 = n
      BY <3>4, <3>5
    <3>7. doc[Place(k) - 1] = <<k, cl[k].i - 1>>
      BY <3>3, <3>6
    <3>8. QED
      BY <1>1, <2>1, <2>3, <3>6, <3>7
  <2>4. QED
    BY <2>2, <2>3
<1>4. QED
  BY <1>2, <1>3

LEMMA DeletesWhere ==
  ASSUME TypeInv, NEW k \in Clients, Deletes(k)
  PROVE  \/ Raises(k) /\ doc' = doc
         \/ \E n \in 1..Len(doc) : doc' = RemoveAt(doc, n) /\ Goes(k, Exit(cl[k], "ok"))
<1>1. CASE InDoc(cmd[k].cells[1])
  <2>1. \E n \in DOMAIN doc : doc[n] = cmd[k].cells[1]
    BY <1>1, DocFacts
  <2>2. PICK n \in DOMAIN doc : n = CHOOSE p \in DOMAIN doc : doc[p] = cmd[k].cells[1]
    BY <2>1
  <2>3. n \in 1..Len(doc)
    BY DocFacts
  <2>4. doc' = RemoveAt(doc, n) /\ Goes(k, Exit(cl[k], "ok"))
    BY <1>1, <2>2 DEF Deletes
  <2>5. QED
    BY <2>3, <2>4
<1>2. CASE ~InDoc(cmd[k].cells[1])
  BY <1>2 DEF Deletes
<1>3. QED
  BY <1>1, <1>2

CodeCells == FlattenSeq([n \in DOMAIN doc |-> IF IsCode(doc[n]) THEN <<doc[n]>> ELSE <<>>])

LEMMA CodeCellsTyped ==
  ASSUME TypeInv
  PROVE  CodeCells \in Seq(CellIds)
<1> DEFINE s == [n \in DOMAIN doc |-> IF IsCode(doc[n]) THEN <<doc[n]>> ELSE <<>>]
<1>1. DOMAIN doc = 1..Len(doc) /\ Len(doc) \in Nat /\ \A n \in 1..Len(doc) : doc[n] \in CellIds
  BY DEF TypeInv, TypeOK
<1>2. \A n \in 1..Len(doc) : (IF IsCode(doc[n]) THEN <<doc[n]>> ELSE <<>>) \in Seq(CellIds)
  <2>1. \A c \in CellIds : <<c>> \in Seq(CellIds)
    OBVIOUS
  <2>2. <<>> \in Seq(CellIds)
    OBVIOUS
  <2>3. QED
    BY <1>1, <2>1, <2>2
<1>3. s \in Seq(Seq(CellIds))
  BY <1>1, <1>2
<1> HIDE DEF s
<1>4. FlattenSeq(s) \in Seq(CellIds)
  BY <1>3, FlattenTyped
<1>5. QED
  BY <1>4 DEF CodeCells, s

LEMMA TypeJobStep ==
  ASSUME TypeInv, NEW j \in Jobs, JobStep(j)
  PROVE  TypeInv'
<1> DEFINE r == job[j]
<1>1. /\ r \in Job /\ job \in [Jobs -> Job] /\ kernel \in 0..kernels /\ kernels \in Nat
      /\ out \in [CellIds -> Outputs] /\ runs \in [CellIds -> SUBSET Jobs] /\ doc \in Seq(CellIds)
  BY DEF TypeInv, TypeOK
<1>2. cl' = cl /\ cmd' = cmd /\ late' = late /\ doc' = doc
  BY DEF JobStep, JobStarts, CellRuns, CellPrints, JobEnds, JobFails, JobAsks, JobIsAnswered
<1>3. \A s \in JobStatus : [r EXCEPT !.status = s] \in Job
  BY <1>1 DEF Job, JobStatus
<1>4. /\ job' \in [Jobs -> Job] /\ kernel' \in 0..kernels' /\ kernels' \in Nat
      /\ out' \in [CellIds -> Outputs] /\ runs' \in [CellIds -> SUBSET Jobs]
  <2>1. CASE JobStarts(j)
    <3>1. kernel' \in 0..kernels' /\ kernels' \in Nat
      BY <1>1, <2>1 DEF JobStarts, EnsuresKernel
    <3>2. \A n \in Nat : [r EXCEPT !.status = "running", !.kernel = n] \in Job
      BY <1>1 DEF Job, JobStatus
    <3>3. kernel' \in Nat
      BY <3>1
    <3>4. [r EXCEPT !.status = "running", !.kernel = kernel'] \in Job
      BY <3>2, <3>3
    <3>5. job' = [job EXCEPT ![j] = [r EXCEPT !.status = "running", !.kernel = kernel']]
      BY <2>1 DEF JobStarts
    <3>6. job' \in [Jobs -> Job]
      BY <1>1, <3>4, <3>5, JobWrite
    <3>7. QED
      BY <1>1, <2>1, <3>1, <3>6 DEF JobStarts
  <2>2. CASE CellRuns(j)
    <3>1. [r EXCEPT !.at = r.at + 1] \in Job
      <4>1. \A n \in Nat : [r EXCEPT !.at = n] \in Job
        BY <1>1 DEF Job
      <4>2. r.at + 1 \in Nat
        BY <1>1 DEF Job
      <4>3. QED
        BY <4>1, <4>2
    <3>2. \/ job' = [job EXCEPT ![j] = [r EXCEPT !.at = r.at + 1]]
          \/ job' = [job EXCEPT ![j] = [r EXCEPT !.status = "failed"]]
      BY <2>2 DEF CellRuns
    <3>3. "failed" \in JobStatus
      BY DEF JobStatus
    <3>4. job' \in [Jobs -> Job]
      BY <1>1, <1>3, <3>1, <3>2, <3>3, JobWrite
    <3>5. <<>> \in Outputs
      <4>1. <<>> \in [1..0 -> Output] /\ 0 \in 0..MaxText
        BY ClientAssumption
      <4>2. QED
        BY <4>1 DEF Outputs
    <3>6. out' \in [CellIds -> Outputs]
      BY <1>1, <2>2, <3>5 DEF CellRuns
    <3>7. runs' \in [CellIds -> SUBSET Jobs]
      BY <1>1, <2>2 DEF CellRuns
    <3>8. QED
      BY <1>1, <2>2, <3>4, <3>6, <3>7 DEF CellRuns
  <2>3. CASE CellPrints(j)
    <3> DEFINE c == job[j].cells[job[j].at]
    <3>1. PICK name \in Names : out' = [out EXCEPT ![c] = Extended(@, name, j)]
      BY <2>3 DEF CellPrints
    <3>2. c \in CellIds
      <4>1. InDoc(c)
        BY <2>3 DEF CellPrints
      <4>2. QED
        BY <1>1, <4>1, DocFacts
    <3>3. out[c] \in Outputs /\ Len(Printed(out[c])) < MaxText
      BY <1>1, <2>3, <3>2 DEF CellPrints
    <3>4. Extended(out[c], name, j) \in Outputs
      BY <3>3, ExtendedTyped
    <3>5. UNCHANGED <<runs, job, kernel, kernels>>
      BY <2>3 DEF CellPrints
    <3> HIDE DEF c
    <3>6. out' \in [CellIds -> Outputs]
      BY <1>1, <3>1, <3>2, <3>4
    <3>7. QED
      BY <1>1, <3>5, <3>6
  <2>4. CASE JobEnds(j) \/ JobFails(j) \/ JobAsks(j) \/ JobIsAnswered(j)
    <3>1. PICK s \in {"succeeded", "failed", "awaiting", "running"} :
            job' = [job EXCEPT ![j] = [r EXCEPT !.status = s]]
      BY <2>4 DEF JobEnds, JobFails, JobAsks, JobIsAnswered
    <3>2. job' \in [Jobs -> Job]
      BY <1>1, <1>3, <3>1, JobWrite DEF JobStatus
    <3>3. UNCHANGED <<out, runs, kernel, kernels>>
      BY <2>4 DEF JobEnds, JobFails, JobAsks, JobIsAnswered
    <3>4. QED
      BY <1>1, <3>2, <3>3
  <2>5. QED
    BY <2>1, <2>2, <2>3, <2>4 DEF JobStep
<1>5. TypeOK'
  BY <1>1, <1>2, <1>4 DEF TypeInv, TypeOK
<1>6. \A k \in Clients : Typed(k, cl[k])'
  BY <1>2 DEF TypeInv, Typed
<1>7. QED
  BY <1>2, <1>5, <1>6 DEF TypeInv

LEMMA WaitingTyped ==
  ASSUME NEW k \in Clients, NEW c \in Client, c.job # NoJob
  PROVE  Waiting(k, c) \in Client /\ Typed(k, Waiting(k, c))
<1>1. \A p \in {"decide", "poll"} : [c EXCEPT !.pc = p] \in Client /\ Typed(k, [c EXCEPT !.pc = p])
  BY DEF Client, Steps, Typed
<1>2. \E p \in {"decide", "poll"} : Waiting(k, c) = [c EXCEPT !.pc = p]
  BY DEF Waiting
<1>3. QED
  BY <1>1, <1>2

(* The steps that only read *)
LEMMA TypeReads ==
  ASSUME TypeInv, NEW k \in Clients,
         \/ Types(k) \/ Checks(k) \/ Lists(k) \/ RunRefused(k) \/ Joins(k) \/ Polls(k) \/ Looks(k)
         \/ Takes(k) \/ Decides(k) \/ BatchGoes(k) \/ Reports(k) \/ OpenRefused(k)
  PROVE  TypeInv'
<1> DEFINE c == cl[k]
<1>1. /\ c \in Client /\ cmd[k] \in Command /\ Accepted(cmd[k]) /\ cmd \in Commands /\ Typed(k, c)
      /\ job \in [Jobs -> Job] /\ out \in [CellIds -> Outputs]
  BY CommandFacts DEF TypeInv, TypeOK
<1>2. UNCHANGED <<serverVars, cmd, late>>
  BY DEF Types, Checks, Lists, RunRefused, Joins, Polls, Looks, Takes, Decides, BatchGoes, Reports, OpenRefused
<1>3. CASE Raises(k)
  BY <1>2, <1>3, TypeRaises
<1>4. CASE Goes(k, Continued(k, c))
  BY <1>1, <1>2, <1>4, ContinuedTyped, TypedRead
<1>5. CASE Types(k) /\ ~Raises(k) /\ ~Goes(k, Continued(k, c))
  <2>1. Goes(k, [c EXCEPT !.pc = "run", !.cells = <<<<k, c.i>>>>])
    BY <1>5 DEF Types
  <2>2. <<<<k, c.i>>>> \in Seq(CellIds)
    BY <1>1 DEF Client, CellIds, Jobs
  <2>3. /\ [c EXCEPT !.pc = "run", !.cells = <<<<k, c.i>>>>] \in Client
        /\ Typed(k, [c EXCEPT !.pc = "run", !.cells = <<<<k, c.i>>>>])
    BY <1>1, <2>2 DEF Client, Steps, Typed
  <2>4. QED
    BY <1>2, <2>1, <2>3, TypedRead
<1>6. CASE Checks(k) /\ ~Raises(k)
  <2>1. PICK p \in {"delete", "run"} : Goes(k, [[c EXCEPT !.pc = p] EXCEPT !.cells = cmd[k].cells])
    BY <1>6 DEF Checks, At
  <2>2. cmd[k].cells \in Seq(CellIds)
    BY <1>1 DEF Command
  <2>3. /\ [[c EXCEPT !.pc = p] EXCEPT !.cells = cmd[k].cells] \in Client
        /\ Typed(k, [[c EXCEPT !.pc = p] EXCEPT !.cells = cmd[k].cells])
    BY <1>1, <2>2 DEF Client, Steps, Typed
  <2>4. QED
    BY <1>2, <2>1, <2>3, TypedRead
<1>7. CASE Lists(k) /\ ~Raises(k)
  <2>1. Goes(k, [[c EXCEPT !.pc = "run"] EXCEPT !.cells = CodeCells])
    BY <1>7 DEF Lists, At, CodeCells
  <2>2. \A cells \in Seq(CellIds) : /\ [[c EXCEPT !.pc = "run"] EXCEPT !.cells = cells] \in Client
                                    /\ Typed(k, [[c EXCEPT !.pc = "run"] EXCEPT !.cells = cells])
    BY <1>1 DEF Client, Steps, Typed
  <2>3. QED
    BY <1>2, <2>1, <2>2, CodeCellsTyped, TypedRead
<1>8. CASE Joins(k) /\ ~Raises(k)
  <2> DEFINE j == cmd[k].of
             d == [c EXCEPT !.job = j, !.status = job[j].status, !.cells = job[j].cells]
  <2>1. Goes(k, Waiting(k, d)) /\ job[j].status # "none"
    BY <1>8 DEF Joins
  <2>2. j \in Jobs
    BY <1>1, <1>8 DEF Joins, Typed, Accepted, Command
  <2>3. job[j].status \in JobStatus /\ job[j].cells \in Seq(CellIds)
    BY <1>1, <2>1, <2>2 DEF Job
  <2>4. d \in Client /\ d.job # NoJob
    BY <1>1, <2>2, <2>3, ClientAssumption DEF Client
  <2> HIDE DEF d
  <2>5. QED
    BY <1>2, <2>1, <2>4, WaitingTyped, TypedRead
<1>9. CASE Polls(k) /\ ~Raises(k)
  <2>1. c.job \in Jobs
    BY <1>1, <1>9 DEF Polls, Typed, Client
  <2>2. PICK p \in {"look", "decide"}, todo \in {c.cells, <<>>} :
          Goes(k, [c EXCEPT !.status = job[c.job].status, !.pc = p, !.todo = todo])
    <3>1. CASE cmd[k].form = "watch" /\ ~IsBatch(k)
      BY <1>9, <3>1 DEF Polls
    <3>2. CASE ~(cmd[k].form = "watch" /\ ~IsBatch(k))
      BY <1>9, <3>2 DEF Polls
    <3>3. QED
      BY <3>1, <3>2
  <2>3. job[c.job].status \in JobStatus \cup {"none"}
    BY <1>1, <2>1 DEF Job
  <2>4. todo \in Seq(CellIds)
    <3>1. c.cells \in Seq(CellIds) /\ <<>> \in Seq(CellIds)
      BY <1>1 DEF Client
    <3>2. todo = c.cells \/ todo = <<>>
      OBVIOUS
    <3>3. QED
      BY <3>1, <3>2
  <2>5. /\ [c EXCEPT !.status = job[c.job].status, !.pc = p, !.todo = todo] \in Client
        /\ Typed(k, [c EXCEPT !.status = job[c.job].status, !.pc = p, !.todo = todo])
    BY <1>1, <1>9, <2>1, <2>3, <2>4, ClientAssumption DEF Client, Steps, Typed, Polls
  <2>6. QED
    BY <1>2, <2>2, <2>5, TypedRead
<1>10. CASE Looks(k)
  <2>1. c.job # NoJob /\ c.pc = "look"
    BY <1>1, <1>10 DEF Looks, Typed
  <2>2. CASE c.todo = <<>>
    <3>1. Goes(k, [c EXCEPT !.pc = "decide"])
      BY <1>10, <2>2 DEF Looks, At
    <3>2. [c EXCEPT !.pc = "decide"] \in Client /\ Typed(k, [c EXCEPT !.pc = "decide"])
      BY <1>1, <2>1 DEF Client, Steps, Typed
    <3>3. QED
      BY <1>2, <3>1, <3>2, TypedRead
  <2>3. CASE c.todo # <<>> /\ InDoc(Head(c.todo))
    <3>1. Goes(k, [c EXCEPT !.pc = "take"])
      BY <1>10, <2>3 DEF Looks, At
    <3>2. [c EXCEPT !.pc = "take"] \in Client /\ Typed(k, [c EXCEPT !.pc = "take"])
      BY <1>1, <2>1, <2>3 DEF Client, Steps, Typed
    <3>3. QED
      BY <1>2, <3>1, <3>2, TypedRead
  <2>4. CASE c.todo # <<>> /\ ~InDoc(Head(c.todo))
    <3>1. Goes(k, [c EXCEPT !.todo = Tail(c.todo)])
      BY <1>10, <2>4 DEF Looks
    <3>2. Tail(c.todo) \in Seq(CellIds)
      BY <1>1, <2>4 DEF Client
    <3>3. \A t \in Seq(CellIds) : [c EXCEPT !.todo = t] \in Client /\ Typed(k, [c EXCEPT !.todo = t])
      BY <1>1, <2>1 DEF Client, Steps, Typed
    <3>4. QED
      BY <1>2, <3>1, <3>2, <3>3, TypedRead
  <2>5. QED
    BY <2>2, <2>3, <2>4
<1>11. CASE Takes(k) /\ ~Raises(k)
  <2> DEFINE cell == Head(c.todo)
             shown == [c.shown EXCEPT ![cell] = @ \o Deltas(c.seen[cell], out[cell])]
             seen == [c.seen EXCEPT ![cell] = out[cell]]
  <2>1. Goes(k, [c EXCEPT !.pc = "look", !.todo = Tail(@), !.shown = shown, !.seen = seen])
    BY <1>11 DEF Takes
  <2>2. c.todo # <<>> /\ c.job # NoJob
    BY <1>1, <1>11 DEF Takes, Typed
  <2>3. cell \in CellIds /\ Tail(c.todo) \in Seq(CellIds)
    BY <1>1, <2>2 DEF Client
  <2>4. c.seen[cell] \in Outputs /\ out[cell] \in Outputs
    BY <1>1, <2>3 DEF Client
  <2>5. Deltas(c.seen[cell], out[cell]) \in Seq(Shapes)
    BY <2>4, DeltasTyped
  <2> HIDE DEF cell
  <2>6. shown \in [CellIds -> Seq(Shapes)] /\ seen \in [CellIds -> Outputs]
    BY <1>1, <2>3, <2>4, <2>5 DEF Client
  <2> HIDE DEF shown, seen
  <2>7. ASSUME NEW t \in Seq(CellIds), NEW x \in [CellIds -> Seq(Shapes)],
               NEW y \in [CellIds -> Outputs]
        PROVE  /\ [c EXCEPT !.pc = "look", !.todo = t, !.shown = x, !.seen = y] \in Client
               /\ Typed(k, [c EXCEPT !.pc = "look", !.todo = t, !.shown = x, !.seen = y])
    BY <1>1, <2>2 DEF Client, Steps, Typed
  <2>8. QED
    BY <1>2, <2>1, <2>3, <2>6, <2>7, TypedRead
<1>12. CASE Decides(k) /\ ~Raises(k)
  <2>1. PICK p \in {"next", "report", "poll"} : Goes(k, [c EXCEPT !.pc = p])
    BY <1>12 DEF Decides, Ended
  <2>2. c.job # NoJob
    BY <1>1, <1>12 DEF Decides, Typed
  <2>3. [c EXCEPT !.pc = p] \in Client /\ Typed(k, [c EXCEPT !.pc = p])
    BY <1>1, <2>2 DEF Client, Steps, Typed
  <2>4. QED
    BY <1>2, <2>1, <2>3, TypedRead
<1>13. CASE BatchGoes(k) /\ ~Raises(k) /\ ~Goes(k, Continued(k, c))
  <2>1. PICK h \in Halts : Goes(k, [c EXCEPT !.pc = "report", !.halt = h])
    BY <1>13 DEF BatchGoes, Halts, HaltReason
  <2>2. [c EXCEPT !.pc = "report", !.halt = h] \in Client /\ Typed(k, [c EXCEPT !.pc = "report", !.halt = h])
    BY <1>1 DEF Client, Steps, Typed
  <2>3. QED
    BY <1>2, <2>1, <2>2, TypedRead
<1>14. CASE Reports(k) /\ ~Raises(k)
  <2>1. c.inserted \subseteq CellIds /\ ToSet(c.cells) \subseteq CellIds /\ c.i \in 0..MaxBatch /\ 0 \in 0..MaxBatch
    BY <1>1, ClientAssumption DEF Client, ToSet
  <2>2. Current(k) \subseteq CellIds /\ (IF IsBatch(k) THEN c.i ELSE 0) \in 0..MaxBatch
    BY <2>1 DEF Current, Reported
  <2>3. ASSUME NEW current \in SUBSET CellIds, NEW count \in 0..MaxBatch
        PROVE  [c EXCEPT !.current = current, !.count = count] \in Client
    BY <1>1 DEF Client
  <2> DEFINE d == [c EXCEPT !.current = Current(k), !.count = IF IsBatch(k) THEN c.i ELSE 0]
  <2>4. d \in Client
    BY <2>2, <2>3
  <2>5. Goes(k, ExitByJob(d))
    BY <1>14 DEF Reports
  <2> HIDE DEF d
  <2>6. ExitByJob(d) \in Client /\ Typed(k, ExitByJob(d))
    BY <2>4, ExitTyped DEF ExitByJob
  <2>7. QED
    BY <1>2, <2>5, <2>6, TypedRead
<1>15. CASE RunRefused(k) \/ OpenRefused(k)
  BY <1>3, <1>15 DEF RunRefused, OpenRefused
<1>16. QED
  BY <1>3, <1>4, <1>5, <1>6, <1>7, <1>8, <1>9, <1>10, <1>11, <1>12, <1>13, <1>14, <1>15

(* The steps that change the document, the jobs or the kernel *)
LEMMA TypeWrites ==
  ASSUME TypeInv, NEW k \in Clients,
         Inserts(k) \/ Deletes(k) \/ Runs(k) \/ Stops(k) \/ Opens(k) \/ DeadlinePasses(k)
  PROVE  TypeInv'
<1> DEFINE c == cl[k]
<1>1. /\ c \in Client /\ cmd[k] \in Command /\ Accepted(cmd[k]) /\ cmd \in Commands /\ Typed(k, c)
      /\ job \in [Jobs -> Job] /\ out \in [CellIds -> Outputs] /\ runs \in [CellIds -> SUBSET Jobs]
      /\ doc \in Seq(CellIds) /\ kernel \in 0..kernels /\ kernels \in Nat /\ late \in [Clients -> BOOLEAN]
  BY CommandFacts DEF TypeInv, TypeOK
<1>2. CASE Raises(k) /\ doc' = doc /\ UNCHANGED <<out, runs, job, kernel, kernels, cmd, late>>
  BY <1>2, TypeRaises DEF serverVars
<1>3. CASE Inserts(k)
  <2>1. UNCHANGED <<out, runs, job, kernel, kernels, cmd, late>>
    BY <1>3 DEF Inserts
  <2>2. CASE Raises(k) /\ doc' = doc
    BY <1>2, <2>1, <2>2
  <2>3. CASE /\ Place(k) \in 1..Len(doc) + 1 /\ <<k, c.i>> \in CellIds
             /\ doc' = InsertAt(doc, Place(k), <<k, c.i>>)
             /\ Goes(k, [c EXCEPT !.pc = "type", !.inserted = @ \cup {<<k, c.i>>}])
    <3>1. doc' \in Seq(CellIds)
      BY <1>1, <2>3, InsertAtProperties
    <3>2. \A x \in CellIds : /\ [c EXCEPT !.pc = "type", !.inserted = @ \cup {x}] \in Client
                             /\ Typed(k, [c EXCEPT !.pc = "type", !.inserted = @ \cup {x}])
      BY <1>1 DEF Client, Steps, Typed
    <3>3. QED
      BY <1>1, <2>1, <2>3, <3>1, <3>2, TypedMove
  <2>4. QED
    BY <1>3, <2>2, <2>3, InsertsWhere
<1>4. CASE Deletes(k)
  <2>1. UNCHANGED <<out, runs, job, kernel, kernels, cmd, late>>
    BY <1>4 DEF Deletes
  <2>2. CASE Raises(k) /\ doc' = doc
    BY <1>2, <2>1, <2>2
  <2>3. CASE \E n \in 1..Len(doc) : doc' = RemoveAt(doc, n) /\ Goes(k, Exit(c, "ok"))
    <3>1. doc' \in Seq(CellIds)
      BY <1>1, <2>3, RemoveAtProperties
    <3>2. QED
      BY <1>1, <2>1, <2>3, <3>1, ExitTyped, TypedMove
  <2>4. QED
    BY <1>4, <2>2, <2>3, DeletesWhere
<1>5. CASE Runs(k)
  <2> DEFINE d == [c EXCEPT !.job = OwnJob(k), !.status = "queued"]
  <2>1. OwnJob(k) \in Jobs /\ c.cells \in Seq(CellIds) /\ NoJob \notin Jobs
    BY <1>1, ClientAssumption DEF Client, OwnJob, Jobs
  <2>2. Queues(OwnJob(k), d.cells) /\ UNCHANGED <<doc, out, runs, cmd>> /\ late' = [late EXCEPT ![k] = FALSE]
    BY <1>5 DEF Runs
  <2>3. d.cells = c.cells
    BY <1>1 DEF Client
  <2>4. job' \in [Jobs -> Job] /\ kernel' \in 0..kernels' /\ kernels' \in Nat
    BY <2>1, <2>2, <2>3, QueuesTyped DEF TypeInv
  <2>5. d \in Client /\ d.job # NoJob
    BY <1>1, <2>1 DEF Client, JobStatus
  <2> HIDE DEF d
  <2>6. [d EXCEPT !.pc = "report"] \in Client /\ Typed(k, [d EXCEPT !.pc = "report"])
    BY <2>5 DEF Client, Steps, Typed
  <2>7. Goes(k, Waiting(k, d)) \/ Goes(k, [d EXCEPT !.pc = "report"])
    BY <1>5 DEF Runs, d
  <2>8. Waiting(k, d) \in Client /\ Typed(k, Waiting(k, d))
    BY <2>5, WaitingTyped
  <2>9. \E e \in Client : Goes(k, e) /\ Typed(k, e)
    BY <2>6, <2>7, <2>8
  <2>10. doc' \in Seq(CellIds) /\ out' \in [CellIds -> Outputs] /\ runs' \in [CellIds -> SUBSET Jobs]
         /\ late' \in [Clients -> BOOLEAN] /\ cmd' = cmd
    BY <1>1, <2>2
  <2>11. QED
    BY <2>4, <2>9, <2>10, TypedMove
<1>6. CASE Stops(k)
  <2>1. \A j \in Jobs : job[j] \in Job /\ [job[j] EXCEPT !.evicted = @ \/ job[j].status # "none"] \in Job
    <3>1. ASSUME NEW j \in Jobs, NEW b \in BOOLEAN PROVE [job[j] EXCEPT !.evicted = b] \in Job
      BY <1>1 DEF Job
    <3>2. QED
      BY <1>1, <3>1 DEF Job
  <2>2. job' \in [Jobs -> Job]
    BY <1>1, <1>6, <2>1 DEF Stops
  <2>3. UNCHANGED <<doc, out, runs, kernels, cmd, late>> /\ kernel' = 0
    BY <1>6 DEF Stops
  <2>4. CASE Goes(k, Exit(c, "ok"))
    BY <1>1, <2>2, <2>3, <2>4, ExitTyped, TypedMove
  <2>5. CASE Goes(k, [[c EXCEPT !.pc = "open"] EXCEPT !.since = kernels])
    <3>1. /\ [[c EXCEPT !.pc = "open"] EXCEPT !.since = kernels] \in Client
          /\ Typed(k, [[c EXCEPT !.pc = "open"] EXCEPT !.since = kernels])
      BY <1>1 DEF Client, Steps, Typed
    <3>2. QED
      BY <1>1, <2>2, <2>3, <2>5, <3>1, TypedMove
  <2>6. QED
    BY <1>6, <2>4, <2>5 DEF Stops, At
<1>7. CASE Opens(k)
  <2>1. kernel' \in 0..kernels' /\ kernels' \in Nat
    BY <1>1, <1>7 DEF Opens, EnsuresKernel
  <2>2. UNCHANGED <<doc, out, runs, job, cmd, late>>
    BY <1>7 DEF Opens
  <2>3. CASE Goes(k, Exit(c, "ok"))
    BY <1>1, <2>1, <2>2, <2>3, ExitTyped, TypedMove
  <2>4. CASE Goes(k, [c EXCEPT !.pc = "list"])
    <3>1. [c EXCEPT !.pc = "list"] \in Client /\ Typed(k, [c EXCEPT !.pc = "list"])
      BY <1>1 DEF Client, Steps, Typed
    <3>2. QED
      BY <1>1, <2>1, <2>2, <2>4, <3>1, TypedMove
  <2>5. QED
    BY <1>7, <2>3, <2>4 DEF Opens, At
<1>8. CASE DeadlinePasses(k)
  <2>1. late' \in [Clients -> BOOLEAN] /\ UNCHANGED <<serverVars, cmd, cl>>
    BY <1>1, <1>8 DEF DeadlinePasses
  <2>2. QED
    BY <1>1, <2>1 DEF TypeInv, TypeOK, Typed, serverVars
<1>9. QED
  BY <1>3, <1>4, <1>5, <1>6, <1>7, <1>8

LEMMA TypeNext == TypeInv /\ [Next]_vars => TypeInv'
<1> SUFFICES ASSUME TypeInv, [Next]_vars PROVE TypeInv'
  OBVIOUS
<1>1. CASE UNCHANGED vars
  BY <1>1 DEF vars, TypeInv, TypeOK, Typed
<1>2. ASSUME NEW k \in Clients, ClientStep(k) \/ DeadlinePasses(k) PROVE TypeInv'
  BY <1>2, TypeReads, TypeWrites DEF ClientStep
<1>3. QED
  BY <1>1, <1>2, TypeJobStep DEF Next

(* What the clients and the server keep has its type: a client waits for a  *)
(* job that it has, prints no more than the server wrote, and reports of    *)
(* no cell that cannot be.                                                  *)
THEOREM TypeOKAlways == Spec => []TypeOK
<1>1. Spec => []TypeInv
  BY TypeInit, TypeNext, PTL DEF Spec
<1>2. TypeInv => TypeOK
  BY DEF TypeInv
<1>3. QED
  BY <1>1, <1>2, PTL

-----------------------------------------------------------------------------
(* The inductive invariant *)

Born(x) == x \in ToSet(OldCells) \/ \E k \in Clients : x \in cl[k].inserted

(* A job has run the cells before the one it is at, and what it runs was in *)
(* the notebook when it was named.                                          *)
JobFacts(j) ==
  /\ job[j].status = "none" => job[j].at = 0 /\ job[j].kernel = 0
  /\ job[j].status = "queued" => job[j].at = 0
  /\ job[j].at <= Len(job[j].cells)
  /\ \A n \in 1..job[j].at : j \in runs[job[j].cells[n]]
  /\ job[j].status = "succeeded" => job[j].at = Len(job[j].cells)
  /\ \A x \in ToSet(job[j].cells) : Born(x)

(* A cell is put into the notebook once, behind those of its command. *)
DocInv ==
  /\ \A n \in DOMAIN doc : Born(doc[n])
  /\ \A m, n \in DOMAIN doc : doc[m] = doc[n] /\ doc[m] \in Jobs => m = n
  /\ \A k \in Clients : \A e, i \in 1..MaxBatch : \A m, n \in DOMAIN doc :
       e < i /\ doc[m] = <<k, e>> /\ doc[n] = <<k, i>> => m < n

(* Where a client can be in its command *)
AtStep(k, c) ==
  /\ c.pc \in {"insert", "type", "next"} => cmd[k].op = "ix"
  /\ c.pc = "next" => IsBatch(k)
  /\ c.pc \in {"stop", "open"} => cmd[k].op \in {"stop", "restart", "restart-run-all"}
  /\ c.pc = "open" => cmd[k].op # "stop"
  /\ c.pc = "list" => cmd[k].op \in {"run-all", "restart-run-all"}
  /\ c.pc = "check" => cmd[k].op \in {"exec", "delete"}
  /\ c.pc = "delete" => cmd[k].op = "delete"
  /\ c.pc = "run" => cmd[k].op \in {"ix", "exec", "run-all", "restart-run-all"}
  /\ c.pc \in {"poll", "look", "take", "decide"} =>
       cmd[k].wait /\ cmd[k].op \in {"ix", "exec", "run-all", "restart-run-all", "await"}
  /\ c.pc = "report" => cmd[k].op \in {"ix", "exec", "run-all", "restart-run-all", "await"}
  /\ IF cmd[k].op = "ix" THEN c.i <= Len(cmd[k].kinds) ELSE c.i = 1 /\ c.inserted = {}
  /\ c.pc = "done" <=> c.exit # "none"

(* What it has inserted *)
Inserted(k, c) ==
  /\ \A x \in c.inserted : \E n \in 1..c.i : x = <<k, n>>
  /\ \A n \in 1..c.i - 1 : <<k, n>> \in c.inserted
  /\ c.pc = "insert" => <<k, c.i>> \notin c.inserted
  /\ (cmd[k].op = "ix" /\ c.pc \notin {"insert", "done"}) => <<k, c.i>> \in c.inserted

(* The job that it follows *)
Follows(k, c) ==
  /\ c.job = NoJob <=> c.status = "none"
  /\ c.job # NoJob => job[c.job].status # "none"
  /\ c.job # NoJob => IF cmd[k].op = "await" THEN c.job = cmd[k].of ELSE \E n \in 1..c.i : c.job = <<k, n>>
  /\ c.status \in {"succeeded", "failed"} => job[c.job].status = c.status
  /\ c.pc \in {"insert", "type", "run"} =>
       c.job = NoJob \/ (c.status = "succeeded" /\ c.job # <<k, c.i>>)
  /\ c.pc \in {"stop", "open", "list", "check", "delete", "join"} => c.job = NoJob
  /\ (cmd[k].op = "ix" /\ c.pc \in {"poll", "look", "take", "decide", "next"}) => c.job = <<k, c.i>>
  /\ c.pc = "next" => c.status \in Terminal
  /\ (c.pc = "report" /\ cmd[k].wait) => c.job = NoJob \/ c.status \in Terminal
  /\ (cmd[k].op = "ix" /\ c.pc = "report" /\ cmd[k].kinds[c.i] = "code") => c.job = <<k, c.i>>
  /\ (c.job # NoJob /\ ~IsBatch(k)) => c.cells = job[c.job].cells
  /\ (c.pc = "run" /\ cmd[k].op = "ix") => c.cells = <<<<k, c.i>>>>
  /\ \A x \in ToSet(c.cells) : Born(x)
  /\ c.pc \in {"look", "take"} => ToSet(c.todo) \subseteq ToSet(c.cells)

(* The jobs of its command *)
Owns(k, c) ==
  /\ \A n \in 1..MaxBatch : job[<<k, n>>].status # "none" =>
       c.job = <<k, n>> \/ (n < c.i /\ job[<<k, n>>].status = "succeeded")
  /\ cmd[k].op = "ix" =>
       /\ \A n \in 1..MaxBatch : job[<<k, n>>].status # "none" => job[<<k, n>>].cells = <<<<k, n>>>>
       /\ \A e \in 1..c.i - 1 : cmd[k].kinds[e] = "code" => job[<<k, e>>].status = "succeeded"

(* What it tells when it has ended *)
Tells(k, c) ==
  /\ c.exit = "failed" => c.status = "failed"
  /\ (c.exit = "ok" /\ cmd[k].wait /\ c.job # NoJob) => c.status \in {"succeeded", "awaiting"}
  /\ (c.exit = "error" /\ c.job \in {<<k, c.i>>, cmd[k].of} \ {NoJob}) =>
       \/ cmd[k].timed /\ late[k]
       \/ job[c.job].evicted
       \/ \E x \in c.inserted \cup ToSet(c.cells) : ~InDoc(x)
  /\ c.halt # "none" => c.pc \in {"report", "done"}
  /\ c.halt = "job_failed" => c.status = "failed" /\ c.job = <<k, c.i>>
  /\ (IsBatch(k) /\ c.pc = "report") => (c.halt = "none" <=> c.i = Len(cmd[k].kinds))
  /\ c.count > 0 =>
       /\ IsBatch(k) /\ c.pc = "done" /\ c.count = c.i /\ <<k, c.i>> \in c.inserted
       /\ c.halt = "none" <=> c.i = Len(cmd[k].kinds)
  /\ c.current # {} =>
       /\ c.pc = "done" /\ c.status \in Terminal
       /\ c.current \subseteq c.inserted \cup (IF IsBatch(k) THEN {} ELSE ToSet(c.cells))
       /\ (cmd[k].op = "ix" /\ cmd[k].kinds[c.i] = "code") => c.job = <<k, c.i>>

(* The kernel that restart-run-all runs in *)
Restarted(k, c) ==
  cmd[k].op = "restart-run-all" =>
    /\ c.pc # "stop" => c.since <= kernels /\ (kernel = 0 \/ kernel > c.since)
    /\ c.pc = "stop" => c.since = 0
    /\ \A n \in 1..MaxBatch : job[<<k, n>>].kernel # 0 => job[<<k, n>>].kernel > c.since
    
ClientInv(k, c) ==
  AtStep(k, c) /\ Inserted(k, c) /\ Follows(k, c) /\ Owns(k, c) /\ Tells(k, c) /\ Restarted(k, c)

IInv ==
  /\ DocInv
  /\ \A j \in Jobs : JobFacts(j)
  /\ \A k \in Clients : ClientInv(k, cl[k])

(* What every step leaves as it is: a job is made once, has the cells it    *)
(* was made with, and its end is its end; a cell is put into the notebook   *)
(* once.                                                                    *)
Grows ==
  /\ cmd' = cmd
  /\ \A j \in Jobs :
       /\ job[j].status # "none" => job'[j].status # "none" /\ job'[j].cells = job[j].cells
       /\ job[j].status \in {"succeeded", "failed"} => job'[j].status = job[j].status
       /\ job[j].evicted => job'[j].evicted
       /\ job'[j].kernel = job[j].kernel \/ job'[j].kernel = kernel'
  /\ \A x \in CellIds : runs[x] \subseteq runs'[x]
  /\ \A x : Born(x) => Born(x)'
  /\ \A x : Born(x) /\ ~InDoc(x) => ~InDoc(x)'
  /\ kernels <= kernels'
  /\ kernel' = kernel \/ kernel' = 0 \/ kernel' = kernels + 1

NoneStays(k) == \A n \in 1..MaxBatch : job[<<k, n>>].status = "none" => job'[<<k, n>>].status = "none"

LEMMA OwnJobs ==
  ASSUME NEW k \in Clients
  PROVE  \A n \in 1..MaxBatch : <<k, n>> \in Jobs /\ <<k, n>> \in CellIds
BY DEF Jobs, CellIds

LEMMA KeepsPlace ==
  ASSUME cmd' = cmd, NEW k \in Clients, NEW c \in Client, AtStep(k, c), Inserted(k, c)
  PROVE  AtStep(k, c)' /\ Inserted(k, c)'
BY DEF AtStep, Inserted, IsBatch

LEMMA KeepsFollows ==
  ASSUME TypeInv, Grows, NEW k \in Clients, NEW c \in Client, Follows(k, c)
  PROVE  Follows(k, c)'
<1>1. c.job = NoJob \/ c.job \in Jobs
  BY DEF Client
<1>2. c.status # "none" => c.job \in Jobs
  BY <1>1 DEF Follows
<1>3. \A x \in ToSet(c.cells) : Born(x)'
  BY DEF Follows, Grows
<1>4. (c.job = NoJob <=> c.status = "none") /\ (c.job # NoJob => job'[c.job].status # "none")
  BY <1>1 DEF Follows, Grows
<1>5. (c.job # NoJob /\ ~IsBatch(k)) => c.cells = job'[c.job].cells
  BY <1>1 DEF Follows, Grows
<1>6. c.status \in {"succeeded", "failed"} => job'[c.job].status = c.status
  BY <1>2 DEF Follows, Grows
<1>7. cmd' = cmd
  BY DEF Grows
<1>8. QED
  BY <1>3, <1>4, <1>5, <1>6, <1>7 DEF Follows, IsBatch

LEMMA KeepsOwns ==
  ASSUME TypeInv, Grows, NEW k \in Clients, NEW c \in Client, NoneStays(k), Owns(k, c)
  PROVE  Owns(k, c)'
<1>1. \A n \in 1..MaxBatch : <<k, n>> \in Jobs
  BY OwnJobs
<1>2. ASSUME NEW n \in 1..MaxBatch, job'[<<k, n>>].status # "none"
      PROVE  /\ c.job = <<k, n>> \/ (n < c.i /\ job'[<<k, n>>].status = "succeeded")
             /\ cmd[k].op = "ix" => job'[<<k, n>>].cells = <<<<k, n>>>>
  BY <1>1, <1>2 DEF Owns, Grows, NoneStays
<1>3. ASSUME cmd[k].op = "ix", NEW e \in 1..c.i - 1, cmd[k].kinds[e] = "code"
      PROVE  job'[<<k, e>>].status = "succeeded"
  <2>1. e \in 1..MaxBatch
    BY ClientAssumption DEF Client
  <2>2. job[<<k, e>>].status = "succeeded"
    BY <1>3 DEF Owns
  <2>3. QED
    BY <1>1, <2>1, <2>2 DEF Grows
<1>4. cmd' = cmd
  BY DEF Grows
<1>5. QED
  BY <1>2, <1>3, <1>4 DEF Owns

LEMMA KeepsTells ==
  ASSUME TypeInv, Grows, NEW k \in Clients, NEW c \in Client, c.inserted = cl[k].inserted, late[k] => late'[k],
         AtStep(k, c), Inserted(k, c), Follows(k, c), Tells(k, c)
  PROVE  Tells(k, c)'
<1>1. cmd' = cmd
  BY DEF Grows
<1>2. ASSUME NEW x \in c.inserted \cup ToSet(c.cells) PROVE Born(x)
  BY DEF Inserted, Follows, Born
<1>3. ASSUME c.exit = "error", c.job \in {<<k, c.i>>, cmd[k].of} \ {NoJob}
      PROVE  \/ cmd[k].timed /\ late'[k]
             \/ job'[c.job].evicted
             \/ \E x \in c.inserted \cup ToSet(c.cells) : ~InDoc(x)'
  <2>1. c.job \in Jobs
    BY <1>3 DEF Client
  <2>2. QED
    BY <1>2, <1>3, <2>1 DEF Tells, Grows
<1>4. QED
  BY <1>1, <1>3 DEF Tells, IsBatch

LEMMA KeepsRestarted ==
  ASSUME TypeInv, TypeInv', Grows, NEW k \in Clients, NEW c \in Client, Restarted(k, c)
  PROVE  Restarted(k, c)'
<1>1. c.since \in Nat /\ kernel \in 0..kernels /\ kernels \in Nat /\ kernels' \in Nat /\ kernel' \in 0..kernels'
  BY DEF TypeInv, TypeOK, Client
<1>2. \A n \in 1..MaxBatch : <<k, n>> \in Jobs
  BY OwnJobs
<1>3. QED
  BY <1>1, <1>2 DEF Restarted, Grows

(* A client that does nothing, or leaves what it inserted *)
LEMMA KeepsMoved ==
  ASSUME TypeInv, TypeInv', Grows, NEW k \in Clients, NEW c \in Client, ClientInv(k, c), cl'[k] = c,
         c.inserted = cl[k].inserted, late[k] => late'[k], NoneStays(k)
  PROVE  ClientInv(k, cl[k])'
<1>1. cmd' = cmd
  BY DEF Grows
<1>2. AtStep(k, c) /\ Inserted(k, c) /\ Follows(k, c) /\ Owns(k, c) /\ Tells(k, c) /\ Restarted(k, c)
  BY DEF ClientInv
<1>3. (AtStep(k, c) /\ Inserted(k, c) /\ Follows(k, c) /\ Owns(k, c) /\ Tells(k, c) /\ Restarted(k, c))'
  BY <1>1, <1>2, KeepsPlace, KeepsFollows, KeepsOwns, KeepsTells, KeepsRestarted
<1>4. ClientInv(k, c)'
  BY <1>3 DEF ClientInv
<1>5. QED
  BY <1>4

LEMMA KeepsClient ==
  ASSUME TypeInv, TypeInv', Grows, NEW k \in Clients, ClientInv(k, cl[k]), cl'[k] = cl[k],
         late[k] => late'[k], NoneStays(k)
  PROVE  ClientInv(k, cl[k])'
<1>1. PICK c \in Client : c = cl[k]
  BY DEF TypeInv, TypeOK
<1>2. QED
  BY <1>1, KeepsMoved

LEMMA KeepsBorn ==
  ASSUME NEW k \in Clients, NEW d, cl \in [Clients -> Client], cl' = [cl EXCEPT ![k] = d],
         d.inserted = cl[k].inserted
  PROVE  \A x : Born(x)' <=> Born(x)
BY DEF Born

(* A client that reads *)
LEMMA KeepsReader ==
  ASSUME TypeInv, IInv, NEW k \in Clients, NEW d \in Client, Goes(k, d), d.inserted = cl[k].inserted,
         ClientInv(k, d), UNCHANGED <<serverVars, cmd, late>>
  PROVE  IInv'
<1>1. cl' \in [Clients -> Client] /\ cl'[k] = d /\ \A o \in Clients \ {k} : cl'[o] = cl[o]
  BY ClientWrite DEF TypeInv, TypeOK
<1>2. \A x : Born(x)' <=> Born(x)
  BY KeepsBorn DEF Goes, TypeInv, TypeOK
<1>3. /\ doc' = doc /\ out' = out /\ runs' = runs /\ job' = job /\ kernel' = kernel /\ kernels' = kernels
      /\ cmd' = cmd /\ late' = late
  BY DEF serverVars
<1>4. DocInv'
  BY <1>2, <1>3 DEF IInv, DocInv
<1>5. \A j \in Jobs : JobFacts(j)'
  BY <1>2, <1>3 DEF IInv, JobFacts
<1>6. \A x : InDoc(x)' <=> InDoc(x)
  BY <1>3 DEF InDoc
<1>7. ASSUME NEW o \in Clients, NEW c \in Client, ClientInv(o, c) PROVE ClientInv(o, c)'
  <2>1. AtStep(o, c)' /\ Inserted(o, c)'
    BY <1>3, <1>7, KeepsPlace DEF ClientInv
  <2>2. Follows(o, c)'
    BY <1>2, <1>3, <1>7 DEF ClientInv, Follows, IsBatch
  <2>3. Owns(o, c)'
    BY <1>3, <1>7 DEF ClientInv, Owns
  <2>4. Tells(o, c)'
    BY <1>3, <1>6, <1>7 DEF ClientInv, Tells, IsBatch
  <2>5. Restarted(o, c)'
    BY <1>3, <1>7 DEF ClientInv, Restarted
  <2>6. QED
    BY <2>1, <2>2, <2>3, <2>4, <2>5 DEF ClientInv
<1>8. ASSUME NEW o \in Clients PROVE ClientInv(o, cl[o])'
  <2>1. PICK c \in Client : c = cl'[o] /\ ClientInv(o, c)
    <3>1. CASE o = k
      BY <1>1, <3>1
    <3>2. CASE o # k
      BY <1>1, <3>2 DEF IInv, TypeInv, TypeOK
    <3>3. QED
      BY <3>1, <3>2
  <2>2. ClientInv(o, c)'
    BY <1>7, <2>1
  <2>3. QED
    BY <2>1, <2>2
<1>9. QED
  BY <1>4, <1>5, <1>8 DEF IInv

LEMMA InvInit == Init => IInv
<1> SUFFICES ASSUME Init PROVE IInv
  OBVIOUS
<1>1. TypeInv
  BY TypeInit
<1>2. DocInv
  <2>1. \A n \in DOMAIN doc : Born(doc[n]) /\ doc[n] \notin Jobs
    BY ClientAssumption DEF Init, Born, ToSet
  <2>2. \A k \in Clients : \A i \in 1..MaxBatch : <<k, i>> \in Jobs
    BY OwnJobs
  <2>3. QED
    BY <2>1, <2>2 DEF DocInv
<1>3. \A j \in Jobs : job[j] = [status |-> "none", cells |-> <<>>, at |-> 0, kernel |-> 0, evicted |-> FALSE]
  BY DEF Init
<1>4. \A j \in Jobs : JobFacts(j)
  BY <1>3 DEF JobFacts, ToSet
<1>5. ASSUME NEW k \in Clients PROVE ClientInv(k, cl[k])
  <2>1. PICK c \in Client :
          /\ c = cl[k]
          /\ c.pc = FirstStep(cmd[k].op) /\ c.i = 1 /\ c.inserted = {} /\ c.job = NoJob /\ c.status = "none"
          /\ c.cells = <<>> /\ c.todo = <<>> /\ c.current = {} /\ c.halt = "none" /\ c.count = 0
          /\ c.since = 0 /\ c.exit = "none"
    <3>1. cl[k] \in Client
      BY <1>1 DEF TypeInv, TypeOK
    <3>2. cl[k] = [pc |-> FirstStep(cmd[k].op), i |-> 1, inserted |-> {}, job |-> NoJob, status |-> "none",
                   cells |-> <<>>, todo |-> <<>>, seen |-> NoOutputs, shown |-> NoOutputs, current |-> {},
                   halt |-> "none", count |-> 0, since |-> 0, exit |-> "none"]
      BY DEF Init
    <3>3. QED
      BY <3>1, <3>2
  <2>2. cmd[k] \in Command /\ Accepted(cmd[k])
    BY <1>1, CommandFacts DEF TypeInv
  <2>3. \A n \in 1..MaxBatch : job[<<k, n>>].status = "none" /\ job[<<k, n>>].kernel = 0
    BY <1>3, OwnJobs
  <2>4. /\ cmd[k].op = "ix" => c.pc = "insert" /\ 1 <= Len(cmd[k].kinds)
        /\ cmd[k].op = "await" => c.pc = "join"
        /\ cmd[k].op = "run-all" => c.pc = "list"
        /\ cmd[k].op \in {"exec", "delete"} => c.pc = "check"
        /\ cmd[k].op \in {"stop", "restart", "restart-run-all"} => c.pc = "stop"
        /\ cmd[k].op \in {"ix", "exec", "run-all", "restart", "restart-run-all", "await", "stop", "delete"}
    BY <2>1, <2>2 DEF FirstStep, Command, Accepted
  <2>5. AtStep(k, c)
    BY <2>1, <2>4 DEF AtStep
  <2>6. Inserted(k, c)
    BY <2>1, <2>4 DEF Inserted
  <2>7. ToSet(c.cells) = {} /\ ToSet(c.todo) = {}
    BY <2>1 DEF ToSet
  <2>8. Follows(k, c)
    BY <2>1, <2>4, <2>7 DEF Follows
  <2>9. Owns(k, c)
    BY <2>1, <2>3 DEF Owns
  <2>10. Tells(k, c)
    BY <2>1, <2>4 DEF Tells
  <2>11. Restarted(k, c)
    BY <2>1, <2>3, <2>4 DEF Restarted
  <2>12. QED
    BY <2>1, <2>5, <2>6, <2>8, <2>9, <2>10, <2>11 DEF ClientInv
<1>6. QED
  BY <1>2, <1>4, <1>5 DEF IInv

(* An exception ends the command, with a reason that it can name. *)
Excused(k, c) ==
  (c.job \in {<<k, c.i>>, cmd[k].of} \ {NoJob}) =>
     \/ cmd[k].timed /\ late[k]
     \/ job[c.job].evicted
     \/ \E x \in c.inserted \cup ToSet(c.cells) : ~InDoc(x)

LEMMA RaiseKeeps ==
  ASSUME NEW k \in Clients, NEW c \in Client, ClientInv(k, c), c.pc \notin {"done", "stop"}, Excused(k, c)
  PROVE  ClientInv(k, Exit(c, "error"))
<1>1. PICK d \in Client :
        /\ d = Exit(c, "error") /\ d.pc = "done" /\ d.exit = "error" /\ d.i = c.i /\ d.inserted = c.inserted
        /\ d.job = c.job /\ d.status = c.status /\ d.cells = c.cells /\ d.todo = c.todo
        /\ d.current = c.current /\ d.halt = c.halt /\ d.count = c.count /\ d.since = c.since
  <2>1. Exit(c, "error") \in Client
    BY ExitTyped
  <2>2. QED
    BY <2>1 DEF Exit, Client
<1>2. AtStep(k, d)
  BY <1>1 DEF ClientInv, AtStep
<1>3. Inserted(k, d)
  BY <1>1 DEF ClientInv, Inserted
<1>4. Follows(k, d)
  BY <1>1 DEF ClientInv, Follows
<1>5. Owns(k, d)
  BY <1>1 DEF ClientInv, Owns
<1>6. Tells(k, d)
  BY <1>1 DEF ClientInv, Tells, Excused, Client
<1>7. Restarted(k, d)
  BY <1>1 DEF ClientInv, Restarted
<1>8. QED
  BY <1>1, <1>2, <1>3, <1>4, <1>5, <1>6, <1>7 DEF ClientInv

(* Reads that leave the job and what was told as they were *)
LEMMA GoOnKeeps ==
  ASSUME NEW k \in Clients, Accepted(cmd[k]), NEW c \in Client, ClientInv(k, c), NEW d \in Client,
         c.pc \in {"poll", "look", "take", "decide"}, d.pc \in {"look", "take", "decide", "poll", "next", "report"},
         d.i = c.i, d.inserted = c.inserted, d.job = c.job, d.status = c.status, d.cells = c.cells,
         d.pc \in {"look", "take"} => ToSet(d.todo) \subseteq ToSet(c.cells),
         d.current = c.current, d.halt = c.halt, d.count = c.count, d.since = c.since, d.exit = c.exit,
         d.pc = "next" => IsBatch(k) /\ d.status \in Terminal,
         d.pc = "report" => ~IsBatch(k) /\ d.status \in Terminal
  PROVE  ClientInv(k, d)
<1>2. AtStep(k, d)
  <2>1. /\ cmd[k].wait /\ cmd[k].op \in {"ix", "exec", "run-all", "restart-run-all", "await"}
        /\ IF cmd[k].op = "ix" THEN c.i <= Len(cmd[k].kinds) ELSE c.i = 1 /\ c.inserted = {}
        /\ c.exit = "none"
    BY DEF ClientInv, AtStep
  <2>2. IF cmd[k].op = "ix" THEN d.i <= Len(cmd[k].kinds) ELSE d.i = 1 /\ d.inserted = {}
    BY <2>1
  <2>3. d.pc = "next" => cmd[k].op = "ix"
    <3>1. SUFFICES ASSUME IsBatch(k) PROVE cmd[k].op = "ix"
      OBVIOUS
    <3>2. cmd[k].kinds # <<>>
      BY <3>1 DEF IsBatch
    <3>3. QED
      BY <3>2 DEF Accepted
  <2>4. QED
    BY <2>1, <2>2, <2>3 DEF AtStep
<1>3. Inserted(k, d)
  BY DEF ClientInv, Inserted
<1>4. Follows(k, d)
  BY DEF ClientInv, Follows
<1>5. Owns(k, d)
  BY DEF ClientInv, Owns
<1>6. Tells(k, d)
  BY DEF ClientInv, Tells, Client, AtStep
<1>7. Restarted(k, d)
  BY DEF ClientInv, Restarted
<1>8. QED
  BY <1>2, <1>3, <1>4, <1>5, <1>6, <1>7 DEF ClientInv

(* ix is done with a cell. *)
LEMMA ContinuedKeeps ==
  ASSUME NEW k \in Clients, cmd[k] \in Command, Accepted(cmd[k]), NEW c \in Client, ClientInv(k, c),
         \/ c.pc = "type" /\ cmd[k].kinds[c.i] # "code"
         \/ c.pc = "next" /\ c.status = "succeeded"
  PROVE  ClientInv(k, Continued(k, c)) /\ Continued(k, c) \in Client /\ Continued(k, c).inserted = c.inserted
<1>1. /\ cmd[k].op = "ix" /\ c.exit = "none" /\ c.halt = "none" /\ c.count = 0 /\ c.current = {}
      /\ c.i \in Nat /\ c.i \in 1..Len(cmd[k].kinds) /\ Len(cmd[k].kinds) \in Nat /\ MaxBatch \in Nat
      /\ Len(cmd[k].kinds) <= MaxBatch /\ <<k, c.i>> \in c.inserted
  BY ClientAssumption, SMTT(20) DEF ClientInv, AtStep, Inserted, Tells, Client, Command, Accepted
<1>2. /\ c.job = NoJob \/ c.status = "succeeded"
      /\ cmd[k].kinds[c.i] = "code" => c.job = <<k, c.i>> /\ job[<<k, c.i>>].status = "succeeded"
      /\ c.job # NoJob => \E n \in 1..c.i : c.job = <<k, n>>
  BY <1>1 DEF ClientInv, Follows
<1>3. CASE c.i < Len(cmd[k].kinds)
  <2>1. PICK d \in Client :
          /\ d = Continued(k, c) /\ d.pc = "insert" /\ d.exit = "none" /\ d.i = c.i + 1
          /\ d.inserted = c.inserted /\ d.job = c.job /\ d.status = c.status /\ d.cells = c.cells /\ d.todo = c.todo
          /\ d.current = {} /\ d.halt = "none" /\ d.count = 0 /\ d.since = c.since
    <3>1. c.i + 1 \in 1..MaxBatch
      BY <1>1, <1>3
    <3>2. Continued(k, c) = [c EXCEPT !.pc = "insert", !.i = c.i + 1]
      BY <1>3 DEF Continued
    <3>3. QED
      BY <1>1, <3>1, <3>2, ZenonT(30) DEF Client, Steps
  <2>2. AtStep(k, d)
    BY <1>1, <1>3, <2>1 DEF AtStep
  <2>3. Inserted(k, d)
    <3>1. \A x \in c.inserted : \E n \in 1..c.i : x = <<k, n>>
      BY DEF ClientInv, Inserted
    <3>2. <<k, d.i>> \notin d.inserted
      BY <1>1, <2>1, <3>1
    <3>3. \A n \in 1..d.i - 1 : <<k, n>> \in d.inserted
      <4>1. \A n \in 1..d.i - 1 : n = c.i \/ n \in 1..c.i - 1
        BY <1>1, <2>1
      <4>2. QED
        BY <1>1, <2>1, <4>1 DEF ClientInv, Inserted
    <3>4. \A x \in d.inserted : \E n \in 1..d.i : x = <<k, n>>
      BY <1>1, <2>1, <3>1
    <3>5. QED
      BY <2>1, <3>2, <3>3, <3>4 DEF Inserted
  <2>4. Follows(k, d)
    <3>1. c.job # NoJob => \E n \in 1..d.i : c.job = <<k, n>> /\ n # d.i
      BY <1>1, <1>2, <2>1
    <3>2. QED
      BY <1>1, <1>2, <2>1, <3>1 DEF ClientInv, Follows
  <2>5. Owns(k, d)
    <3>1. \A n \in 1..MaxBatch : job[<<k, n>>].status # "none" =>
            d.job = <<k, n>> \/ (n < d.i /\ job[<<k, n>>].status = "succeeded")
      BY <1>1, <2>1 DEF ClientInv, Owns
    <3>2. \A e \in 1..d.i - 1 : cmd[k].kinds[e] = "code" => job[<<k, e>>].status = "succeeded"
      <4>1. \A e \in 1..d.i - 1 : e = c.i \/ e \in 1..c.i - 1
        BY <1>1, <2>1
      <4>2. QED
        BY <1>1, <1>2, <4>1 DEF ClientInv, Owns
    <3>3. QED
      BY <3>1, <3>2 DEF ClientInv, Owns
  <2>6. Tells(k, d)
    BY <2>1 DEF Tells
  <2>7. Restarted(k, d)
    BY <1>1 DEF Restarted
  <2>8. QED
    BY <2>1, <2>2, <2>3, <2>4, <2>5, <2>6, <2>7 DEF ClientInv
<1>4. CASE ~(c.i < Len(cmd[k].kinds))
  <2>1. PICK d \in Client :
          /\ d = Continued(k, c) /\ d.pc = "report" /\ d.exit = "none" /\ d.i = c.i
          /\ d.inserted = c.inserted /\ d.job = c.job /\ d.status = c.status /\ d.cells = c.cells /\ d.todo = c.todo
          /\ d.current = {} /\ d.halt = "none" /\ d.count = 0 /\ d.since = c.since
    <3>1. Continued(k, c) = [c EXCEPT !.pc = "report"]
      BY <1>4 DEF Continued
    <3>2. QED
      BY <1>1, <3>1, ZenonT(30) DEF Client, Steps
  <2>2. AtStep(k, d)
    BY <1>1, <2>1 DEF AtStep
  <2>3. Inserted(k, d)
    BY <1>1, <2>1 DEF ClientInv, Inserted
  <2>4. Follows(k, d)
    BY <1>1, <1>2, <2>1 DEF ClientInv, Follows, Terminal
  <2>5. Owns(k, d)
    BY <2>1 DEF ClientInv, Owns
  <2>6. Tells(k, d)
    <3>1. d.i = Len(cmd[k].kinds)
      BY <1>1, <1>4, <2>1
    <3>2. QED
      BY <2>1, <3>1 DEF Tells
  <2>7. Restarted(k, d)
    BY <1>1 DEF Restarted
  <2>8. QED
    BY <2>1, <2>2, <2>3, <2>4, <2>5, <2>6, <2>7 DEF ClientInv
<1>5. QED
  BY <1>3, <1>4

(* A client has named the cells to run, and its job is not there yet. *)
LEMMA NamesKeeps ==
  ASSUME NEW k \in Clients, cmd[k] \in Command, NEW c \in Client, ClientInv(k, c), NEW d \in Client,
         \/ c.pc = "type" /\ cmd[k].op = "ix" /\ d.pc = "run" /\ d.cells = <<<<k, c.i>>>>
         \/ c.pc = "check" /\ cmd[k].op = "exec" /\ d.pc = "run"
         \/ c.pc = "check" /\ cmd[k].op = "delete" /\ d.pc = "delete"
         \/ c.pc = "list" /\ d.pc = "run",
         \A x \in ToSet(d.cells) : Born(x),
         d.i = c.i, d.inserted = c.inserted, d.job = c.job, d.status = c.status, d.todo = c.todo,
         d.current = c.current, d.halt = c.halt, d.count = c.count, d.since = c.since, d.exit = c.exit
  PROVE  ClientInv(k, d)
<1>1. AtStep(k, d)
  BY DEF ClientInv, AtStep
<1>2. Inserted(k, d)
  BY DEF ClientInv, Inserted
<1>3. Follows(k, d)
  <2>1. c.job # NoJob /\ ~IsBatch(k) => FALSE
    <3>1. SUFFICES ASSUME c.job # NoJob, ~IsBatch(k), c.pc = "type" PROVE FALSE
      BY DEF ClientInv, Follows
    <3>2. Len(cmd[k].kinds) \in Nat /\ Len(cmd[k].kinds) <= 1 /\ c.i <= Len(cmd[k].kinds) /\ c.i \in Nat
      BY <3>1 DEF IsBatch, Command, ClientInv, AtStep, Client
    <3>3. \E n \in 1..c.i : c.job = <<k, n>> /\ n # c.i
      BY <3>1 DEF ClientInv, Follows, AtStep
    <3>4. QED
      BY <3>2, <3>3
  <2>2. c.pc = "list" => cmd[k].op # "ix"
    BY DEF ClientInv, AtStep
  <2>3. QED
    BY <2>1, <2>2 DEF ClientInv, Follows
<1>4. Owns(k, d)
  BY DEF ClientInv, Owns
<1>5. Tells(k, d)
  BY DEF ClientInv, Tells, Client, AtStep
<1>6. Restarted(k, d)
  BY DEF ClientInv, Restarted
<1>7. QED
  BY <1>1, <1>2, <1>3, <1>4, <1>5, <1>6 DEF ClientInv

LEMMA BatchIsIx ==
  ASSUME NEW k \in Clients, Accepted(cmd[k])
  PROVE  IsBatch(k) => cmd[k].op = "ix" /\ cmd[k].wait
<1>1. IsBatch(k) => cmd[k].kinds # <<>>
  BY DEF IsBatch
<1>2. QED
  BY <1>1 DEF Accepted, IsBatch

(* job await finds its job. *)
LEMMA JoinKeeps ==
  ASSUME NEW k \in Clients, cmd[k] \in Command, Accepted(cmd[k]), NEW c \in Client, ClientInv(k, c), c.pc = "join",
         cmd[k].op = "await", cmd[k].of \in Jobs, JobFacts(cmd[k].of), job[cmd[k].of].status # "none",
         NEW d \in Client, d.pc \in {"poll", "decide"},
         d.job = cmd[k].of, d.status = job[cmd[k].of].status, d.cells = job[cmd[k].of].cells,
         d.i = c.i, d.inserted = c.inserted, d.todo = c.todo,
         d.current = c.current, d.halt = c.halt, d.count = c.count, d.since = c.since, d.exit = c.exit
  PROVE  ClientInv(k, d)
<1>1. AtStep(k, d)
  BY DEF ClientInv, AtStep, Accepted
<1>2. Inserted(k, d)
  BY DEF ClientInv, Inserted
<1>3. Follows(k, d)
  <2>1. \A x \in ToSet(d.cells) : Born(x)
    BY DEF JobFacts
  <2>2. d.job # NoJob
    BY ClientAssumption
  <2>3. QED
    BY <2>1, <2>2 DEF Follows
<1>4. Owns(k, d)
  <2>1. c.job = NoJob /\ \A n \in 1..MaxBatch : c.job # <<k, n>>
    BY OwnJobs, ClientAssumption DEF ClientInv, Follows
  <2>2. QED
    BY <2>1 DEF ClientInv, Owns
<1>5. Tells(k, d)
  BY DEF ClientInv, Tells, Client, AtStep
<1>6. Restarted(k, d)
  BY DEF Restarted
<1>7. QED
  BY <1>1, <1>2, <1>3, <1>4, <1>5, <1>6 DEF ClientInv

(* A poll finds the job. *)
LEMMA PollKeeps ==
  ASSUME NEW k \in Clients, NEW c \in Client, ClientInv(k, c), c.pc = "poll", c.job \in Jobs,
         NEW d \in Client, d.pc \in {"look", "decide"}, d.status = job[c.job].status,
         d.pc = "look" => d.todo = c.cells,
         d.job = c.job, d.cells = c.cells, d.i = c.i, d.inserted = c.inserted,
         d.current = c.current, d.halt = c.halt, d.count = c.count, d.since = c.since, d.exit = c.exit
  PROVE  ClientInv(k, d)
<1>1. AtStep(k, d)
  BY DEF ClientInv, AtStep
<1>2. Inserted(k, d)
  BY DEF ClientInv, Inserted
<1>3. Follows(k, d)
  <2>1. c.job # NoJob
    BY ClientAssumption
  <2>2. QED
    BY <2>1 DEF ClientInv, Follows
<1>4. Owns(k, d)
  BY DEF ClientInv, Owns
<1>5. Tells(k, d)
  BY DEF ClientInv, Tells, Client, AtStep
<1>6. Restarted(k, d)
  BY DEF ClientInv, Restarted
<1>7. QED
  BY <1>1, <1>2, <1>3, <1>4, <1>5, <1>6 DEF ClientInv

(* A batch halts. *)
LEMMA HaltKeeps ==
  ASSUME NEW k \in Clients, cmd[k] \in Command, NEW c \in Client, ClientInv(k, c), c.pc = "next",
         c.status \in {"failed", "awaiting"},
         NEW d \in Client, d.pc = "report",
         d.halt = IF c.i < Len(cmd[k].kinds) THEN HaltReason(c.status) ELSE "none",
         d.status = c.status, d.todo = c.todo, d.job = c.job, d.cells = c.cells, d.i = c.i, d.inserted = c.inserted,
         d.current = c.current, d.count = c.count, d.since = c.since, d.exit = c.exit
  PROVE  ClientInv(k, d)
<1>1. AtStep(k, d)
  BY DEF ClientInv, AtStep
<1>2. Inserted(k, d)
  BY DEF ClientInv, Inserted
<1>3. Follows(k, d)
  BY DEF ClientInv, Follows, AtStep
<1>4. Owns(k, d)
  BY DEF ClientInv, Owns
<1>5. Tells(k, d)
  <2>1. c.exit = "none" /\ c.count = 0 /\ c.current = {} /\ c.job = <<k, c.i>>
    BY DEF ClientInv, Tells, Client, AtStep, Follows
  <2>2. c.i \in Nat /\ Len(cmd[k].kinds) \in Nat /\ c.i <= Len(cmd[k].kinds)
    BY DEF ClientInv, AtStep, Client, Command
  <2>3. HaltReason(c.status) # "none" /\ (HaltReason(c.status) = "job_failed" => c.status = "failed")
    BY DEF HaltReason
  <2>4. QED
    BY <2>1, <2>2, <2>3 DEF Tells
<1>6. Restarted(k, d)
  BY DEF ClientInv, Restarted
<1>7. QED
  BY <1>1, <1>2, <1>3, <1>4, <1>5, <1>6 DEF ClientInv

(* The results are told. *)
LEMMA ReportKeeps ==
  ASSUME NEW k \in Clients, cmd[k] \in Command, Accepted(cmd[k]), NEW c \in Client, c = cl[k], ClientInv(k, c),
         c.pc = "report",
         NEW d \in Client, d.pc = "done", d.exit = IF c.status = "failed" THEN "failed" ELSE "ok",
         d.current = Current(k), d.count = IF IsBatch(k) THEN c.i ELSE 0,
         d.status = c.status, d.todo = c.todo, d.job = c.job, d.cells = c.cells, d.i = c.i, d.inserted = c.inserted,
         d.halt = c.halt, d.since = c.since
  PROVE  ClientInv(k, d)
<1>1. AtStep(k, d)
  BY DEF ClientInv, AtStep
<1>2. Inserted(k, d)
  BY DEF ClientInv, Inserted
<1>3. Follows(k, d)
  BY DEF ClientInv, Follows
<1>4. Owns(k, d)
  BY DEF ClientInv, Owns
<1>5. Tells(k, d)
  <2>1. Current(k) # {} => c.status \in Terminal
    BY DEF Current
  <2>2. Current(k) \subseteq c.inserted \cup (IF IsBatch(k) THEN {} ELSE ToSet(c.cells))
    BY DEF Current, Reported
  <2>3. /\ (cmd[k].op = "ix" /\ cmd[k].kinds[c.i] = "code") => c.job = <<k, c.i>>
        /\ cmd[k].wait => c.job = NoJob \/ c.status \in Terminal
    BY DEF ClientInv, Follows
  <2>4. IsBatch(k) => /\ c.halt = "none" <=> c.i = Len(cmd[k].kinds)
                      /\ <<k, c.i>> \in c.inserted
    BY BatchIsIx DEF ClientInv, Tells, Inserted
  <2>5. c.halt = "job_failed" => c.status = "failed" /\ c.job = <<k, c.i>>
    BY DEF ClientInv, Tells
  <2>6. d.count > 0 => IsBatch(k) /\ d.count = c.i
    OBVIOUS
  <2>7. QED
    BY <2>1, <2>2, <2>3, <2>4, <2>5, <2>6 DEF Tells, Terminal
<1>6. Restarted(k, d)
  BY DEF ClientInv, Restarted
<1>7. QED
  BY <1>1, <1>2, <1>3, <1>4, <1>5, <1>6 DEF ClientInv

LEMMA CodeCellsInDoc ==
  ASSUME TypeInv
  PROVE  \A x \in ToSet(CodeCells) : InDoc(x)
<1> DEFINE s == [n \in DOMAIN doc |-> IF IsCode(doc[n]) THEN <<doc[n]>> ELSE <<>>]
           D == {x \in CellIds : InDoc(x)}
<1>1. DOMAIN doc = 1..Len(doc) /\ Len(doc) \in Nat /\ \A n \in 1..Len(doc) : doc[n] \in D
  BY DocFacts DEF TypeInv, TypeOK
<1> HIDE DEF D
<1>2. \A n \in 1..Len(doc) : (IF IsCode(doc[n]) THEN <<doc[n]>> ELSE <<>>) \in Seq(D)
  <2>1. \A c \in D : <<c>> \in Seq(D)
    OBVIOUS
  <2>2. <<>> \in Seq(D)
    OBVIOUS
  <2>3. QED
    BY <1>1, <2>1, <2>2
<1>3. s \in Seq(Seq(D))
  BY <1>1, <1>2
<1> HIDE DEF s
<1>4. FlattenSeq(s) \in Seq(D)
  BY <1>3, FlattenTyped
<1>5. CodeCells \in Seq(D)
  BY <1>4 DEF CodeCells, s
<1>6. \A x \in ToSet(CodeCells) : x \in D
  BY <1>5 DEF ToSet
<1>7. QED
  BY <1>6 DEF D

LEMMA InvReads ==
  ASSUME TypeInv, IInv, NEW k \in Clients,
         \/ Types(k) \/ Checks(k) \/ Lists(k) \/ RunRefused(k) \/ Joins(k) \/ Polls(k) \/ Looks(k)
         \/ Takes(k) \/ Decides(k) \/ BatchGoes(k) \/ Reports(k) \/ OpenRefused(k)
  PROVE  IInv'
<1>1. PICK c \in Client : c = cl[k]
  BY DEF TypeInv, TypeOK
<1>2. PICK d \in Client : d = cl'[k]
  <2>1. TypeInv'
    BY TypeReads
  <2>2. QED
    BY <2>1 DEF TypeInv, TypeOK
<1>3. \A e : Goes(k, e) => d = e /\ Goes(k, d)
  BY <1>2 DEF Goes, TypeInv, TypeOK
<1>4. /\ cmd[k] \in Command /\ Accepted(cmd[k]) /\ ClientInv(k, c) /\ Typed(k, c)
      /\ job \in [Jobs -> Job] /\ \A j \in Jobs : JobFacts(j)
      /\ \A x : InDoc(x) => Born(x)
  <2>1. \A x : InDoc(x) => Born(x)
    BY DocFacts DEF IInv, DocInv, TypeInv, TypeOK
  <2>2. QED
    BY <1>1, <2>1, CommandFacts DEF TypeInv, TypeOK, IInv
<1>5. UNCHANGED <<serverVars, cmd, late>>
  BY DEF Types, Checks, Lists, RunRefused, Joins, Polls, Looks, Takes, Decides, BatchGoes, Reports, OpenRefused
<1>6. SUFFICES /\ \E e : Goes(k, e)
               /\ ClientInv(k, d) /\ d.inserted = c.inserted
  BY <1>1, <1>3, <1>5, KeepsReader
<1>7. ASSUME Raises(k), Excused(k, c), c.pc \notin {"done", "stop"}
      PROVE  (\E e : Goes(k, e)) /\ ClientInv(k, d) /\ d.inserted = c.inserted
  <2>1. d = Exit(c, "error")
    BY <1>1, <1>3, <1>7 DEF Raises
  <2>2. d.inserted = c.inserted
    BY <2>1 DEF Exit, Client
  <2>3. QED
    BY <1>4, <1>7, <2>1, <2>2, RaiseKeeps DEF Raises
<1>8. CASE Types(k)
  <2>1. c.pc = "type" /\ cmd[k].op = "ix" /\ cmd[k].of = NoJob /\ <<k, c.i>> \in c.inserted /\ <<k, c.i>> \in Jobs
    BY <1>1, <1>4, <1>8, OwnJobs DEF Types, ClientInv, AtStep, Inserted, Accepted, Client
  <2>2. CASE ~InDoc(<<k, c.i>>)
    <3>1. Raises(k)
      BY <1>1, <1>8, <2>2 DEF Types
    <3>2. Excused(k, c)
      BY <2>1, <2>2 DEF Excused
    <3>3. QED
      BY <1>7, <2>1, <3>1, <3>2
  <2>3. CASE InDoc(<<k, c.i>>) /\ cmd[k].kinds[c.i] = "markdown"
    <3>1. Goes(k, Continued(k, c))
      BY <1>1, <1>8, <2>3 DEF Types
    <3>2. d = Continued(k, c) /\ cmd[k].kinds[c.i] # "code"
      BY <1>3, <2>3, <3>1
    <3>3. QED
      BY <1>4, <2>1, <3>1, <3>2, ContinuedKeeps
  <2>4. CASE InDoc(<<k, c.i>>) /\ cmd[k].kinds[c.i] # "markdown"
    <3>1. Goes(k, [c EXCEPT !.pc = "run", !.cells = <<<<k, c.i>>>>])
      BY <1>1, <1>8, <2>4 DEF Types
    <3>2. d = [c EXCEPT !.pc = "run", !.cells = <<<<k, c.i>>>>]
      BY <1>3, <3>1
    <3>3. /\ d.pc = "run" /\ d.cells = <<<<k, c.i>>>> /\ d.i = c.i /\ d.inserted = c.inserted /\ d.job = c.job
          /\ d.status = c.status /\ d.todo = c.todo /\ d.current = c.current /\ d.halt = c.halt /\ d.count = c.count
          /\ d.since = c.since /\ d.exit = c.exit
      BY <3>2 DEF Client
    <3>4. \A x \in ToSet(d.cells) : Born(x)
      BY <1>4, <2>4, <3>3 DEF ToSet
    <3>5. QED
      BY <1>4, <2>1, <3>1, <3>3, <3>4, NamesKeeps
  <2>5. QED
    BY <2>2, <2>3, <2>4
<1>9. CASE Checks(k)
  <2>1. c.pc = "check" /\ c.job = NoJob /\ cmd[k].op \in {"exec", "delete"}
    BY <1>1, <1>4, <1>9 DEF Checks, ClientInv, AtStep, Follows
  <2>2. CASE Raises(k)
    BY <1>7, <2>1, <2>2 DEF Excused
  <2>3. CASE /\ \A x \in ToSet(cmd[k].cells) : InDoc(x)
             /\ Goes(k, [[c EXCEPT !.pc = IF cmd[k].op = "delete" THEN "delete" ELSE "run"] EXCEPT !.cells = cmd[k].cells])
    <3>1. d = [[c EXCEPT !.pc = IF cmd[k].op = "delete" THEN "delete" ELSE "run"] EXCEPT !.cells = cmd[k].cells]
      BY <1>3, <2>3
    <3>2. /\ d.pc = (IF cmd[k].op = "delete" THEN "delete" ELSE "run") /\ d.cells = cmd[k].cells
          /\ d.i = c.i /\ d.inserted = c.inserted /\ d.job = c.job
          /\ d.status = c.status /\ d.todo = c.todo /\ d.current = c.current /\ d.halt = c.halt /\ d.count = c.count
          /\ d.since = c.since /\ d.exit = c.exit
      BY <3>1 DEF Client
    <3>3. \A x \in ToSet(d.cells) : Born(x)
      BY <1>4, <2>3, <3>2
    <3>4. \/ cmd[k].op = "exec" /\ d.pc = "run"
          \/ cmd[k].op = "delete" /\ d.pc = "delete"
      BY <2>1, <3>2
    <3>5. QED
      BY <1>4, <2>1, <2>3, <3>2, <3>3, <3>4, NamesKeeps
  <2>4. QED
    BY <1>1, <1>9, <2>2, <2>3 DEF Checks, At
<1>10. CASE Lists(k)
  <2>1. c.pc = "list" /\ c.job = NoJob
    BY <1>1, <1>4, <1>10 DEF Lists, ClientInv, Follows
  <2>2. CASE Raises(k)
    BY <1>7, <2>1, <2>2 DEF Excused
  <2>3. CASE Goes(k, [[c EXCEPT !.pc = "run"] EXCEPT !.cells = CodeCells])
    <3>1. d = [[c EXCEPT !.pc = "run"] EXCEPT !.cells = CodeCells]
      BY <1>3, <2>3
    <3>2. /\ d.pc = "run" /\ d.cells = CodeCells /\ d.i = c.i /\ d.inserted = c.inserted /\ d.job = c.job
          /\ d.status = c.status /\ d.todo = c.todo /\ d.current = c.current /\ d.halt = c.halt /\ d.count = c.count
          /\ d.since = c.since /\ d.exit = c.exit
      BY <3>1 DEF Client
    <3>3. \A x \in ToSet(d.cells) : Born(x)
      BY <1>4, <3>2, CodeCellsInDoc
    <3>4. QED
      BY <1>4, <2>1, <2>3, <3>2, <3>3, NamesKeeps
  <2>4. QED
    BY <1>1, <1>10, <2>2, <2>3 DEF Lists, At, CodeCells
<1>11. CASE RunRefused(k) \/ OpenRefused(k)
  <2>1. Raises(k) /\ c.pc \in {"run", "open"}
    BY <1>1, <1>11 DEF RunRefused, OpenRefused
  <2>2. cmd[k].of = NoJob
    BY <1>4, <2>1 DEF ClientInv, AtStep, Accepted
  <2>3. c.job # <<k, c.i>> \/ c.job = NoJob
    BY <1>4, <2>1 DEF ClientInv, Follows
  <2>4. Excused(k, c)
    BY <2>2, <2>3 DEF Excused
  <2>5. QED
    BY <1>7, <2>1, <2>4
<1>12. CASE Joins(k)
  <2>1. c.pc = "join" /\ c.job = NoJob /\ cmd[k].op = "await" /\ cmd[k].of \in Jobs
    BY <1>1, <1>4, <1>12 DEF Joins, ClientInv, Follows, Typed, Accepted, Command
  <2>2. CASE Raises(k)
    BY <1>7, <2>1, <2>2 DEF Excused
  <2> DEFINE j == cmd[k].of
             e == [c EXCEPT !.job = j, !.status = job[j].status, !.cells = job[j].cells]
  <2>3. CASE job[j].status # "none" /\ Goes(k, Waiting(k, e))
    <3>1. PICK p \in {"poll", "decide"} : Waiting(k, e) = [e EXCEPT !.pc = p]
      BY DEF Waiting
    <3>2. d = [e EXCEPT !.pc = p]
      BY <1>3, <2>3, <3>1
    <3>3. /\ d.pc = p /\ d.job = j /\ d.status = job[j].status /\ d.cells = job[j].cells
          /\ d.i = c.i /\ d.inserted = c.inserted
          /\ d.todo = c.todo /\ d.current = c.current /\ d.halt = c.halt /\ d.count = c.count
          /\ d.since = c.since /\ d.exit = c.exit
      BY <3>2 DEF Client
    <3>4. QED
      BY <1>4, <2>1, <2>3, <3>3, JoinKeeps
  <2>4. QED
    BY <1>1, <1>12, <2>2, <2>3 DEF Joins
<1>13. CASE Polls(k)
  <2>1. c.pc = "poll" /\ c.job \in Jobs
    BY <1>1, <1>4, <1>13 DEF Polls, Typed, Client
  <2>2. CASE job[c.job].evicted
    <3>1. Raises(k)
      BY <1>1, <1>13, <2>2 DEF Polls
    <3>2. QED
      BY <1>7, <2>1, <2>2, <3>1 DEF Excused
  <2>3. CASE ~job[c.job].evicted
    <3>1. PICK p \in {"look", "decide"}, t \in {c.cells, <<>>} :
            /\ Goes(k, [c EXCEPT !.status = job[c.job].status, !.pc = p, !.todo = t])
            /\ p = "look" => t = c.cells
      <4>1. CASE cmd[k].form = "watch" /\ ~IsBatch(k)
        BY <1>1, <1>13, <2>3, <4>1 DEF Polls
      <4>2. CASE ~(cmd[k].form = "watch" /\ ~IsBatch(k))
        BY <1>1, <1>13, <2>3, <4>2 DEF Polls
      <4>3. QED
        BY <4>1, <4>2
    <3>2. d = [c EXCEPT !.status = job[c.job].status, !.pc = p, !.todo = t]
      BY <1>3, <3>1
    <3>3. /\ d.status = job[c.job].status /\ d.pc = p /\ d.todo = t
          /\ d.job = c.job /\ d.cells = c.cells /\ d.i = c.i /\ d.inserted = c.inserted
          /\ d.current = c.current /\ d.halt = c.halt /\ d.count = c.count /\ d.since = c.since /\ d.exit = c.exit
      BY <3>2 DEF Client
    <3>4. QED
      BY <1>4, <2>1, <3>1, <3>3, PollKeeps
  <2>4. QED
    BY <2>2, <2>3
<1>14. ASSUME c.pc \in {"poll", "look", "take", "decide"}, NEW p \in {"look", "take", "decide", "poll", "next", "report"},
              p = "next" => IsBatch(k) /\ c.status \in Terminal,
              p = "report" => ~IsBatch(k) /\ c.status \in Terminal,
              p \in {"look", "take"} => ToSet(c.todo) \subseteq ToSet(c.cells),
              Goes(k, [c EXCEPT !.pc = p])
       PROVE  (\E e : Goes(k, e)) /\ ClientInv(k, d) /\ d.inserted = c.inserted
  <2>1. d = [c EXCEPT !.pc = p]
    BY <1>3, <1>14
  <2>2. /\ d.status = c.status /\ d.pc = p /\ d.todo = c.todo
        /\ d.job = c.job /\ d.cells = c.cells /\ d.i = c.i /\ d.inserted = c.inserted
        /\ d.current = c.current /\ d.halt = c.halt /\ d.count = c.count /\ d.since = c.since /\ d.exit = c.exit
    BY <2>1 DEF Client
  <2>3. QED
    BY <1>4, <1>14, <2>2, GoOnKeeps
<1>15. ToSet(c.todo) \subseteq ToSet(c.cells) /\ c.todo # <<>> =>
         Head(c.todo) \in ToSet(c.cells) /\ ToSet(Tail(c.todo)) \subseteq ToSet(c.cells)
  <2>1. c.todo \in Seq(CellIds)
    BY DEF Client
  <2>2. c.todo # <<>> => /\ Head(c.todo) = c.todo[1] /\ 1 \in 1..Len(c.todo)
                         /\ \A n \in DOMAIN Tail(c.todo) : n + 1 \in 1..Len(c.todo) /\ Tail(c.todo)[n] = c.todo[n + 1]
    BY <2>1
  <2>3. \A n \in 1..Len(c.todo) : c.todo[n] \in ToSet(c.todo)
    BY <2>1 DEF ToSet
  <2>4. c.todo # <<>> => Head(c.todo) \in ToSet(c.todo) /\ \A x \in ToSet(Tail(c.todo)) : x \in ToSet(c.todo)
    BY <2>2, <2>3 DEF ToSet
  <2>5. QED
    BY <2>4
<1>16. CASE Looks(k)
  <2>1. c.pc = "look" /\ ToSet(c.todo) \subseteq ToSet(c.cells)
    BY <1>1, <1>4, <1>16 DEF Looks, ClientInv, Follows
  <2>2. CASE c.todo = <<>>
    <3>1. Goes(k, [c EXCEPT !.pc = "decide"])
      BY <1>1, <1>16, <2>2 DEF Looks, At
    <3>2. QED
      BY <1>14, <2>1, <3>1
  <2>3. CASE c.todo # <<>> /\ InDoc(Head(c.todo))
    <3>1. Goes(k, [c EXCEPT !.pc = "take"])
      BY <1>1, <1>16, <2>3 DEF Looks, At
    <3>2. QED
      BY <1>14, <2>1, <3>1
  <2>4. CASE c.todo # <<>> /\ ~InDoc(Head(c.todo))
    <3>1. Goes(k, [c EXCEPT !.todo = Tail(c.todo)])
      BY <1>1, <1>16, <2>4 DEF Looks
    <3>2. d = [c EXCEPT !.todo = Tail(c.todo)]
      BY <1>3, <3>1
    <3>3. /\ d.status = c.status /\ d.pc = "look" /\ d.todo = Tail(c.todo)
          /\ d.job = c.job /\ d.cells = c.cells /\ d.i = c.i /\ d.inserted = c.inserted
          /\ d.current = c.current /\ d.halt = c.halt /\ d.count = c.count /\ d.since = c.since /\ d.exit = c.exit
      BY <2>1, <3>2 DEF Client
    <3>4. QED
      BY <1>4, <1>15, <2>1, <2>4, <3>1, <3>3, GoOnKeeps
  <2>5. QED
    BY <2>2, <2>3, <2>4
<1>17. CASE Takes(k)
  <2>1. c.pc = "take" /\ ToSet(c.todo) \subseteq ToSet(c.cells) /\ c.todo # <<>>
    BY <1>1, <1>4, <1>17 DEF Takes, ClientInv, Follows, Typed
  <2>2. CASE ~InDoc(Head(c.todo))
    <3>1. Raises(k)
      BY <1>1, <1>17, <2>2 DEF Takes
    <3>2. QED
      BY <1>7, <1>15, <2>1, <2>2, <3>1 DEF Excused
  <2>3. CASE InDoc(Head(c.todo))
    <3>1. PICK s, t : Goes(k, [c EXCEPT !.pc = "look", !.todo = Tail(c.todo), !.shown = s, !.seen = t])
      BY <1>1, <1>17, <2>3 DEF Takes
    <3>2. d = [c EXCEPT !.pc = "look", !.todo = Tail(c.todo), !.shown = s, !.seen = t]
      BY <1>3, <3>1
    <3>3. /\ d.status = c.status /\ d.pc = "look" /\ d.todo = Tail(c.todo)
          /\ d.job = c.job /\ d.cells = c.cells /\ d.i = c.i /\ d.inserted = c.inserted
          /\ d.current = c.current /\ d.halt = c.halt /\ d.count = c.count /\ d.since = c.since /\ d.exit = c.exit
      BY <3>2 DEF Client
    <3>4. QED
      BY <1>4, <1>15, <2>1, <3>1, <3>3, GoOnKeeps
  <2>4. QED
    BY <2>2, <2>3
<1>18. CASE Decides(k)
  <2>1. c.pc = "decide"
    BY <1>1, <1>18 DEF Decides
  <2>2. CASE c.status \in Terminal
    <3>1. PICK p \in {"next", "report"} : Goes(k, [c EXCEPT !.pc = p]) /\ (p = "next" <=> IsBatch(k))
      BY <1>1, <1>18, <2>2 DEF Decides, Ended
    <3>2. QED
      BY <1>14, <2>1, <2>2, <3>1
  <2>3. CASE c.status \notin Terminal /\ cmd[k].timed /\ late[k]
    <3>1. Raises(k)
      BY <1>1, <1>18, <2>3 DEF Decides
    <3>2. QED
      BY <1>7, <2>1, <2>3, <3>1 DEF Excused
  <2>4. CASE c.status \notin Terminal /\ ~(cmd[k].timed /\ late[k])
    <3>1. Goes(k, [c EXCEPT !.pc = "poll"])
      BY <1>1, <1>18, <2>4 DEF Decides
    <3>2. QED
      BY <1>14, <2>1, <3>1
  <2>5. QED
    BY <2>2, <2>3, <2>4
<1>19. CASE BatchGoes(k)
  <2>1. c.pc = "next" /\ <<k, c.i>> \in c.inserted /\ c.status \in Terminal
    BY <1>1, <1>4, <1>19 DEF BatchGoes, ClientInv, Inserted, AtStep, Follows
  <2>2. CASE cmd[k].form # "brief" /\ ~InDoc(<<k, c.i>>)
    <3>1. Raises(k)
      BY <1>1, <1>19, <2>2 DEF BatchGoes
    <3>2. QED
      BY <1>7, <2>1, <2>2, <3>1 DEF Excused
  <2>3. CASE ~(cmd[k].form # "brief" /\ ~InDoc(<<k, c.i>>)) /\ HaltsBatch(c.status)
    <3> DEFINE h == IF c.i < Len(cmd[k].kinds) THEN HaltReason(c.status) ELSE "none"
    <3>1. Goes(k, [c EXCEPT !.pc = "report", !.halt = h])
      BY <1>1, <1>19, <2>3 DEF BatchGoes
    <3> HIDE DEF h
    <3>2. d = [c EXCEPT !.pc = "report", !.halt = h]
      BY <1>3, <3>1
    <3>3. /\ d.pc = "report" /\ d.halt = h
          /\ d.status = c.status /\ d.todo = c.todo /\ d.job = c.job /\ d.cells = c.cells /\ d.i = c.i
          /\ d.inserted = c.inserted /\ d.current = c.current /\ d.count = c.count /\ d.since = c.since
          /\ d.exit = c.exit
      BY <3>2 DEF Client
    <3>4. c.status \in {"failed", "awaiting"}
      BY <2>3 DEF HaltsBatch
    <3>5. QED
      BY <1>4, <2>1, <3>1, <3>3, <3>4, HaltKeeps DEF h
  <2>4. CASE ~(cmd[k].form # "brief" /\ ~InDoc(<<k, c.i>>)) /\ ~HaltsBatch(c.status)
    <3>1. Goes(k, Continued(k, c))
      BY <1>1, <1>19, <2>4 DEF BatchGoes
    <3>2. d = Continued(k, c)
      BY <1>3, <3>1
    <3>3. c.status = "succeeded"
      BY <2>1, <2>4 DEF HaltsBatch, Terminal
    <3>4. QED
      BY <1>4, <2>1, <3>1, <3>2, <3>3, ContinuedKeeps
  <2>5. QED
    BY <2>2, <2>3, <2>4
<1>20. CASE Reports(k)
  <2>1. c.pc = "report"
    BY <1>1, <1>20 DEF Reports
  <2>2. CASE \E x \in Reported(k) : ~InDoc(x)
    <3>1. Raises(k)
      BY <1>20, <2>2 DEF Reports
    <3>2. Reported(k) \subseteq c.inserted \cup ToSet(c.cells)
      BY <1>1 DEF Reported
    <3>3. QED
      BY <1>7, <2>1, <2>2, <3>1, <3>2 DEF Excused
  <2>3. CASE ~\E x \in Reported(k) : ~InDoc(x)
    <3> DEFINE n == IF IsBatch(k) THEN c.i ELSE 0
               code == IF c.status = "failed" THEN "failed" ELSE "ok"
    <3>1. Goes(k, ExitByJob([c EXCEPT !.current = Current(k), !.count = n]))
      BY <1>1, <1>20, <2>3 DEF Reports
    <3>2. d = ExitByJob([c EXCEPT !.current = Current(k), !.count = n])
      BY <1>3, <3>1
    <3> HIDE DEF n
    <3>3. d = [c EXCEPT !.current = Current(k), !.count = n, !.pc = "done", !.exit = code]
      BY <3>2 DEF ExitByJob, Exit, Client
    <3> HIDE DEF code
    <3>4. /\ d.pc = "done" /\ d.exit = code /\ d.current = Current(k) /\ d.count = n
          /\ d.status = c.status /\ d.todo = c.todo /\ d.job = c.job /\ d.cells = c.cells /\ d.i = c.i
          /\ d.inserted = c.inserted /\ d.halt = c.halt /\ d.since = c.since
      BY <3>3 DEF Client
    <3>5. ClientInv(k, d)
      BY <1>1, <1>4, <2>1, <3>4, ReportKeeps DEF n, code
    <3>6. QED
      BY <3>1, <3>4, <3>5
  <2>4. QED
    BY <2>2, <2>3
<1>21. QED
  BY <1>8, <1>9, <1>10, <1>11, <1>12, <1>13, <1>16, <1>17, <1>18, <1>19, <1>20

(* The server goes on with a job. *)
LEMMA JobMoves ==
  ASSUME TypeInv, TypeInv', IInv, UNCHANGED <<doc, cmd, cl, late>>, Grows,
         \A k \in Clients : NoneStays(k), \A j \in Jobs : JobFacts(j)'
  PROVE  IInv'
<1>1. \A x : Born(x)' <=> Born(x)
  BY DEF Born
<1>2. DocInv'
  BY <1>1 DEF IInv, DocInv
<1>3. ASSUME NEW k \in Clients PROVE ClientInv(k, cl[k])'
  BY KeepsClient DEF IInv
<1>4. QED
  BY <1>2, <1>3 DEF IInv

LEMMA JobWritten ==
  ASSUME TypeInv, TypeInv', IInv, UNCHANGED <<doc, cmd, cl, late>>,
         NEW j \in Jobs, NEW r \in Job, job' = [job EXCEPT ![j] = r],
         job[j].status \notin {"none", "succeeded", "failed"}, r.status \notin {"none", "queued"},
         r.cells = job[j].cells, r.evicted = job[j].evicted, r.kernel = job[j].kernel \/ r.kernel = kernel',
         r.at <= Len(r.cells), r.status = "succeeded" => r.at = Len(r.cells),
         \A n \in 1..r.at : j \in runs'[r.cells[n]],
         \A x : runs[x] \subseteq runs'[x],
         kernels <= kernels', kernel' = kernel \/ kernel' = 0 \/ kernel' = kernels + 1
  PROVE  IInv'
<1>1. /\ job' \in [Jobs -> Job] /\ job'[j] = r /\ \A o \in Jobs \ {j} : job'[o] = job[o]
  BY JobWrite DEF TypeInv, TypeOK
<1>2. (\A x : Born(x)' <=> Born(x)) /\ (\A x : InDoc(x)' <=> InDoc(x))
  BY DEF Born, InDoc
<1>3. Grows
  <2>1. ASSUME NEW o \in Jobs
        PROVE  /\ job[o].status # "none" => job'[o].status # "none" /\ job'[o].cells = job[o].cells
               /\ job[o].status \in {"succeeded", "failed"} => job'[o].status = job[o].status
               /\ job[o].evicted => job'[o].evicted
               /\ job'[o].kernel = job[o].kernel \/ job'[o].kernel = kernel'
    <3>1. CASE o = j
      BY <1>1, <3>1
    <3>2. CASE o # j
      BY <1>1, <3>2
    <3>3. QED
      BY <3>1, <3>2
  <2>2. QED
    BY <1>2, <2>1 DEF Grows
<1>4. ASSUME NEW k \in Clients PROVE NoneStays(k)
  BY <1>1, OwnJobs DEF NoneStays
<1>5. ASSUME NEW o \in Jobs PROVE JobFacts(o)'
  <2>1. JobFacts(o)
    BY DEF IInv
  <2>2. CASE o = j
    <3>1. \A x \in ToSet(r.cells) : Born(x)'
      BY <1>2, <2>1, <2>2 DEF JobFacts
    <3>2. QED
      BY <1>1, <2>2, <3>1 DEF JobFacts
  <2>3. CASE o # j
    BY <1>1, <1>2, <2>1, <2>3 DEF JobFacts
  <2>4. QED
    BY <2>2, <2>3
<1>6. QED
  BY <1>3, <1>4, <1>5, JobMoves

LEMMA InvJobStep ==
  ASSUME TypeInv, IInv, NEW j \in Jobs, JobStep(j)
  PROVE  IInv'
<1> DEFINE r == job[j]
<1>1. /\ r \in Job /\ job \in [Jobs -> Job] /\ kernel \in 0..kernels /\ kernels \in Nat
      /\ runs \in [CellIds -> SUBSET Jobs] /\ TypeInv' /\ JobFacts(j)
  BY TypeJobStep DEF TypeInv, TypeOK, IInv
<1>2. UNCHANGED <<doc, cmd, cl, late>>
  BY DEF JobStep, JobStarts, CellRuns, CellPrints, JobEnds, JobFails, JobAsks, JobIsAnswered
<1>3. r.at \in Nat /\ Len(r.cells) \in Nat
  BY <1>1 DEF Job
<1>4. CASE JobStarts(j)
  <2>1. PICK s \in Job : s = [r EXCEPT !.status = "running", !.kernel = kernel']
    <3>1. kernel' \in Nat
      BY <1>1 DEF TypeInv, TypeOK
    <3>2. QED
      BY <1>1, <3>1 DEF Job, JobStatus
  <2>2. s.status = "running" /\ s.kernel = kernel' /\ s.cells = r.cells /\ s.at = r.at /\ s.evicted = r.evicted
    BY <1>1, <2>1 DEF Job
  <2>3. job' = [job EXCEPT ![j] = s] /\ r.status = "queued" /\ runs' = runs
    BY <1>4, <2>1 DEF JobStarts
  <2>4. kernels <= kernels' /\ (kernel' = kernel \/ kernel' = kernels + 1)
    BY <1>1, <1>4 DEF JobStarts, EnsuresKernel
  <2>5. s.at <= Len(s.cells) /\ \A n \in 1..s.at : j \in runs'[s.cells[n]]
    BY <1>1, <2>2, <2>3 DEF JobFacts
  <2>6. QED
    BY <1>1, <1>2, <2>2, <2>3, <2>4, <2>5, JobWritten
<1>5. CASE CellRuns(j)
  <2>1. r.status = "running" /\ r.at < Len(r.cells) /\ kernel' = kernel /\ kernels <= kernels'
    BY <1>1, <1>5 DEF CellRuns
  <2> DEFINE x == r.cells[r.at + 1]
  <2>2. CASE InDoc(x)
    <3>1. PICK s \in Job : s = [r EXCEPT !.at = r.at + 1]
      <4>1. \A n \in Nat : [r EXCEPT !.at = n] \in Job
        BY <1>1 DEF Job
      <4>2. r.at + 1 \in Nat
        BY <1>3
      <4>3. QED
        BY <4>1, <4>2
    <3>2. s.status = r.status /\ s.kernel = r.kernel /\ s.cells = r.cells /\ s.at = r.at + 1 /\ s.evicted = r.evicted
      BY <1>1, <3>1 DEF Job
    <3>3. job' = [job EXCEPT ![j] = s] /\ runs' = [runs EXCEPT ![x] = @ \cup {j}]
      BY <1>5, <2>2, <3>1 DEF CellRuns
    <3>4. x \in CellIds
      BY <2>2, DocFacts
    <3> HIDE DEF x
    <3>5. j \in runs'[x] /\ \A y : runs[y] \subseteq runs'[y]
      BY <1>1, <3>3, <3>4
    <3>6. \A n \in 1..s.at : n = r.at + 1 \/ n \in 1..r.at
      BY <1>3, <3>2
    <3>7. \A n \in 1..s.at : j \in runs'[s.cells[n]]
      BY <1>1, <3>2, <3>5, <3>6 DEF JobFacts, x
    <3>8. s.at <= Len(s.cells)
      BY <1>3, <2>1, <3>2
    <3>9. r.status \notin {"none", "succeeded", "failed"} /\ s.status \notin {"none", "queued", "succeeded"}
      BY <2>1, <3>2
    <3>10. QED
      BY <1>1, <1>2, <2>1, <3>2, <3>3, <3>5, <3>7, <3>8, <3>9, JobWritten
  <2>3. CASE ~InDoc(x)
    <3>1. PICK s \in Job : s = [r EXCEPT !.status = "failed"]
      BY <1>1 DEF Job, JobStatus
    <3>2. s.status = "failed" /\ s.kernel = r.kernel /\ s.cells = r.cells /\ s.at = r.at /\ s.evicted = r.evicted
      BY <1>1, <3>1 DEF Job
    <3>3. job' = [job EXCEPT ![j] = s] /\ runs' = runs
      BY <1>5, <2>3, <3>1 DEF CellRuns
    <3>4. s.at <= Len(s.cells) /\ \A n \in 1..s.at : j \in runs'[s.cells[n]]
      BY <1>1, <3>2, <3>3 DEF JobFacts
    <3>5. \A y : runs[y] \subseteq runs'[y]
      BY <3>3
    <3>6. r.status \notin {"none", "succeeded", "failed"} /\ s.status \notin {"none", "queued", "succeeded"}
      BY <2>1, <3>2
    <3>7. QED
      BY <1>1, <1>2, <2>1, <3>2, <3>3, <3>4, <3>5, <3>6, JobWritten
  <2>4. QED
    BY <2>2, <2>3
<1>6. CASE CellPrints(j)
  <2>1. UNCHANGED <<runs, job, kernel, kernels>>
    BY <1>6 DEF CellPrints
  <2>2. (\A x : Born(x)' <=> Born(x)) /\ (\A x : InDoc(x)' <=> InDoc(x))
    BY <1>2 DEF Born, InDoc
  <2>3. Grows
    BY <1>1, <1>2, <2>1, <2>2 DEF Grows
  <2>4. \A o \in Jobs : JobFacts(o)'
    BY <2>1, <2>2 DEF IInv, JobFacts
  <2>5. \A k \in Clients : NoneStays(k)
    BY <2>1 DEF NoneStays
  <2>6. QED
    BY <1>1, <1>2, <2>3, <2>4, <2>5, JobMoves
<1>7. CASE JobEnds(j) \/ JobFails(j) \/ JobAsks(j) \/ JobIsAnswered(j)
  <2>1. PICK t \in {"succeeded", "failed", "awaiting", "running"} :
          job' = [job EXCEPT ![j] = [r EXCEPT !.status = t]] /\ (t = "succeeded" => r.at = Len(r.cells))
    BY <1>7 DEF JobEnds, JobFails, JobAsks, JobIsAnswered
  <2>2. PICK s \in Job : s = [r EXCEPT !.status = t]
    BY <1>1 DEF Job, JobStatus
  <2>3. s.status = t /\ s.kernel = r.kernel /\ s.cells = r.cells /\ s.at = r.at /\ s.evicted = r.evicted
    BY <1>1, <2>2 DEF Job
  <2>4. /\ runs' = runs /\ kernel' = kernel /\ kernels <= kernels' /\ r.status \in {"running", "awaiting"}
        /\ \A x : runs[x] \subseteq runs'[x]
    BY <1>1, <1>7 DEF JobEnds, JobFails, JobAsks, JobIsAnswered, Live
  <2>5. s.at <= Len(s.cells) /\ \A n \in 1..s.at : j \in runs'[s.cells[n]]
    BY <1>1, <2>3, <2>4 DEF JobFacts
  <2>6. job' = [job EXCEPT ![j] = s]
    BY <2>1, <2>2
  <2>7. r.status \notin {"none", "succeeded", "failed"} /\ s.status \notin {"none", "queued"}
    BY <2>3, <2>4
  <2>8. s.status = "succeeded" => s.at = Len(s.cells)
    BY <2>1, <2>3
  <2>9. QED
    BY <1>1, <1>2, <2>3, <2>4, <2>5, <2>6, <2>7, <2>8, JobWritten
<1>8. QED
  BY <1>4, <1>5, <1>6, <1>7 DEF JobStep

(* A client that writes *)
LEMMA ClientMoves ==
  ASSUME TypeInv, TypeInv', IInv, Grows, NEW k \in Clients,
         \A o \in Clients \ {k} : cl'[o] = cl[o] /\ (late[o] => late'[o]) /\ NoneStays(o),
         DocInv', \A j \in Jobs : JobFacts(j)', ClientInv(k, cl[k])'
  PROVE  IInv'
<1>1. ASSUME NEW o \in Clients PROVE ClientInv(o, cl[o])'
  <2>1. CASE o = k
    BY <2>1
  <2>2. CASE o # k
    BY <2>2, KeepsClient DEF IInv
  <2>3. QED
    BY <2>1, <2>2
<1>2. QED
  BY <1>1 DEF IInv

LEMMA InvDeadline ==
  ASSUME TypeInv, IInv, NEW k \in Clients, DeadlinePasses(k)
  PROVE  IInv'
<1>1. /\ TypeInv' /\ UNCHANGED <<doc, out, runs, job, kernel, kernels, cmd, cl>>
      /\ \A o \in Clients : late[o] => late'[o]
  <2>1. TypeInv'
    BY TypeWrites
  <2>2. QED
    BY <2>1 DEF DeadlinePasses, serverVars, TypeInv, TypeOK
<1>2. (\A x : Born(x)' <=> Born(x)) /\ (\A x : InDoc(x)' <=> InDoc(x))
  BY <1>1 DEF Born, InDoc
<1>3. Grows
  BY <1>1, <1>2 DEF Grows, TypeInv, TypeOK
<1>4. DocInv' /\ \A j \in Jobs : JobFacts(j)'
  BY <1>1, <1>2 DEF IInv, DocInv, JobFacts
<1>5. \A o \in Clients : NoneStays(o) /\ cl'[o] = cl[o]
  BY <1>1 DEF NoneStays
<1>6. \A o \in Clients : ClientInv(o, cl[o])'
  BY <1>1, <1>3, <1>5, KeepsClient DEF IInv
<1>7. QED
  BY <1>4, <1>6 DEF IInv

(* A raise where the server could have been written *)
LEMMA InvRaises ==
  ASSUME TypeInv, IInv, NEW k \in Clients, Raises(k), UNCHANGED <<serverVars, cmd, late>>,
         cl[k].pc \notin {"done", "stop"}, Excused(k, cl[k])
  PROVE  IInv'
<1>1. PICK c \in Client : c = cl[k] /\ ClientInv(k, c)
  BY DEF TypeInv, TypeOK, IInv
<1>2. Exit(c, "error") \in Client
  BY ExitTyped
<1>3. ClientInv(k, Exit(c, "error"))
  BY <1>1, RaiseKeeps
<1>4. Exit(c, "error").inserted = c.inserted
  BY DEF Exit, Client
<1>5. QED
  BY <1>1, <1>2, <1>3, <1>4, KeepsReader DEF Raises

(* A command that changes the runtime or the document ends. *)
LEMMA EndKeeps ==
  ASSUME NEW k \in Clients, NEW c \in Client, ClientInv(k, c), c.pc \in {"delete", "stop", "open"},
         NEW d \in Client, d.pc = "done", d.exit = "ok", d.i = c.i, d.inserted = c.inserted, d.job = c.job,
         d.status = c.status, d.cells = c.cells, d.todo = c.todo, d.current = c.current, d.halt = c.halt,
         d.count = c.count, d.since = c.since, cmd[k].op \in {"delete", "stop", "restart"}
  PROVE  ClientInv(k, d)
<1>1. AtStep(k, d)
  BY DEF ClientInv, AtStep
<1>2. Inserted(k, d)
  BY DEF ClientInv, Inserted
<1>3. Follows(k, d)
  BY DEF ClientInv, Follows
<1>4. Owns(k, d)
  BY DEF ClientInv, Owns
<1>5. Tells(k, d)
  BY DEF ClientInv, Tells, Client, Follows
<1>6. Restarted(k, d)
  BY DEF Restarted
<1>7. QED
  BY <1>1, <1>2, <1>3, <1>4, <1>5, <1>6 DEF ClientInv

LEMMA ExitFields ==
  ASSUME NEW c \in Client, NEW code
  PROVE  LET d == Exit(c, code)
         IN /\ d.pc = "done" /\ d.exit = code /\ d.i = c.i /\ d.inserted = c.inserted /\ d.job = c.job
            /\ d.status = c.status /\ d.cells = c.cells /\ d.todo = c.todo /\ d.current = c.current
            /\ d.halt = c.halt /\ d.count = c.count /\ d.since = c.since
BY DEF Exit, Client

LEMMA InvOpens ==
  ASSUME TypeInv, IInv, NEW k \in Clients, Opens(k)
  PROVE  IInv'
<1>1. PICK c \in Client : c = cl[k] /\ ClientInv(k, c) /\ c.pc = "open"
  BY DEF TypeInv, TypeOK, IInv, Opens
<1>2. TypeInv'
  BY TypeWrites
<1>3. PICK d \in Client : Goes(k, d) /\ d.inserted = c.inserted /\ ClientInv(k, d)
  <2>1. CASE cmd[k].op = "restart"
    <3>1. Goes(k, Exit(c, "ok"))
      BY <1>1, <2>1 DEF Opens
    <3>2. Exit(c, "ok") \in Client
      BY ExitTyped
    <3>3. ClientInv(k, Exit(c, "ok"))
      BY <1>1, <2>1, <3>2, ExitFields, EndKeeps
    <3>4. QED
      BY <3>1, <3>2, <3>3, ExitFields
  <2>2. CASE cmd[k].op # "restart"
    <3>1. PICK d \in Client : d = [c EXCEPT !.pc = "list"]
      BY DEF Client, Steps
    <3>2. Goes(k, d)
      BY <1>1, <2>2, <3>1 DEF Opens, At
    <3>3. /\ d.pc = "list" /\ d.exit = c.exit /\ d.i = c.i /\ d.inserted = c.inserted /\ d.job = c.job
          /\ d.status = c.status /\ d.cells = c.cells /\ d.todo = c.todo /\ d.current = c.current
          /\ d.halt = c.halt /\ d.count = c.count /\ d.since = c.since
      BY <3>1 DEF Client
    <3>4. cmd[k].op = "restart-run-all"
      BY <1>1, <2>2 DEF ClientInv, AtStep
    <3>5. AtStep(k, d)
      BY <1>1, <3>3, <3>4 DEF ClientInv, AtStep
    <3>6. Inserted(k, d)
      BY <1>1, <3>3, <3>4 DEF ClientInv, Inserted
    <3>7. Follows(k, d)
      BY <1>1, <3>3, <3>4 DEF ClientInv, Follows
    <3>8. Owns(k, d)
      BY <1>1, <3>3, <3>4 DEF ClientInv, Owns
    <3>9. Tells(k, d)
      BY <1>1, <3>3 DEF ClientInv, Tells, Client, AtStep
    <3>10. Restarted(k, d)
      BY <1>1, <3>3 DEF ClientInv, Restarted
    <3>11. QED
      BY <3>2, <3>3, <3>5, <3>6, <3>7, <3>8, <3>9, <3>10 DEF ClientInv
  <2>3. QED
    BY <2>1, <2>2
<1>4. cl'[k] = d /\ \A o \in Clients \ {k} : cl'[o] = cl[o]
  BY <1>3, ClientWrite DEF TypeInv, TypeOK
<1>5. (\A x : Born(x)' <=> Born(x)) /\ (\A x : InDoc(x)' <=> InDoc(x))
  <2>1. \A x : Born(x)' <=> Born(x)
    BY <1>1, <1>3, KeepsBorn DEF Goes, TypeInv, TypeOK
  <2>2. QED
    BY <2>1 DEF InDoc, Opens
<1>6. UNCHANGED <<doc, out, runs, job, cmd, late>>
  BY DEF Opens
<1>7. Grows
  <2>1. kernels <= kernels' /\ (kernel' = kernel \/ kernel' = kernels + 1)
    BY DEF Opens, EnsuresKernel, TypeInv, TypeOK
  <2>2. QED
    BY <1>5, <1>6, <2>1 DEF Grows
<1>8. DocInv' /\ \A j \in Jobs : JobFacts(j)'
  BY <1>5, <1>6 DEF IInv, DocInv, JobFacts
<1>9. \A o \in Clients : NoneStays(o)
  BY <1>6 DEF NoneStays
<1>10. ClientInv(k, cl[k])'
  BY <1>1, <1>2, <1>3, <1>4, <1>6, <1>7, <1>9, KeepsMoved
<1>11. QED
  BY <1>2, <1>4, <1>6, <1>7, <1>8, <1>9, <1>10, ClientMoves

LEMMA DocThins ==
  ASSUME TypeInv, TypeInv', DocInv, \A x : Born(x) => Born(x)', NEW i \in 1..Len(doc), doc' = RemoveAt(doc, i)
  PROVE  DocInv' /\ \A x : InDoc(x)' => InDoc(x)
<1> DEFINE old(n) == IF n < i THEN n ELSE n + 1
<1>1. doc \in Seq(CellIds) /\ Len(doc) \in Nat /\ DOMAIN doc = 1..Len(doc)
  BY DEF TypeInv, TypeOK
<1>2. /\ DOMAIN doc' = 1..Len(doc) - 1
      /\ \A n \in 1..Len(doc) - 1 : doc'[n] = doc[old(n)]
  <2>1. /\ RemoveAt(doc, i) \in Seq(CellIds) /\ Len(RemoveAt(doc, i)) = Len(doc) - 1
        /\ \A n \in 1..Len(doc) - 1 : RemoveAt(doc, i)[n] = IF n < i THEN doc[n] ELSE doc[n + 1]
    BY <1>1, RemoveAtProperties
  <2>2. DOMAIN RemoveAt(doc, i) = 1..Len(doc) - 1
    BY <1>1, <2>1
  <2>3. \A n \in 1..Len(doc) - 1 : doc'[n] = doc[old(n)]
    BY <1>1, <2>1
  <2>4. QED
    BY <2>2, <2>3
<1>3. \A n \in 1..Len(doc) - 1 : old(n) \in 1..Len(doc) /\ n \in Int /\ old(n) \in Int
  BY <1>1
<1>4. \A m, n \in 1..Len(doc) - 1 : (old(m) < old(n) => m < n) /\ (old(m) = old(n) => m = n)
  BY <1>1
<1> HIDE DEF old
<1>5. \A n \in DOMAIN doc' : doc'[n] = doc[old(n)] /\ old(n) \in DOMAIN doc
  BY <1>1, <1>2, <1>3
<1>6. ASSUME NEW x, \E n \in DOMAIN doc' : doc'[n] = x PROVE Born(x)'
  BY <1>5, <1>6 DEF DocInv
<1>7. \A m, n \in DOMAIN doc' : doc'[m] = doc'[n] /\ doc'[m] \in Jobs => m = n
  <2>1. TAKE m, n \in DOMAIN doc'
  <2>2. HAVE doc'[m] = doc'[n] /\ doc'[m] \in Jobs
  <2>3. old(m) = old(n)
    BY <1>5, <2>2 DEF DocInv
  <2>4. QED
    BY <1>2, <1>4, <2>3
<1>8. \A k \in Clients : \A e, j \in 1..MaxBatch : \A m, n \in DOMAIN doc' :
        e < j /\ doc'[m] = <<k, e>> /\ doc'[n] = <<k, j>> => m < n
  <2>1. TAKE k \in Clients
  <2>2. TAKE e, j \in 1..MaxBatch
  <2>3. TAKE m, n \in DOMAIN doc'
  <2>4. HAVE e < j /\ doc'[m] = <<k, e>> /\ doc'[n] = <<k, j>>
  <2>5. old(m) < old(n)
    BY <1>5, <2>4 DEF DocInv
  <2>6. QED
    BY <1>2, <1>4, <2>5
<1>9. ASSUME NEW x, InDoc(x)' PROVE InDoc(x)
  <2>1. PICK n \in DOMAIN doc' : doc'[n] = x
    BY <1>9, <1>2 DEF InDoc, ToSet
  <2>2. QED
    BY <1>1, <1>5, <2>1 DEF InDoc, ToSet
<1>10. QED
  BY <1>6, <1>7, <1>8, <1>9 DEF DocInv

LEMMA InvDeletes ==
  ASSUME TypeInv, IInv, NEW k \in Clients, Deletes(k)
  PROVE  IInv'
<1>1. PICK c \in Client : c = cl[k] /\ ClientInv(k, c) /\ c.pc = "delete"
  BY DEF TypeInv, TypeOK, IInv, Deletes
<1>2. TypeInv'
  BY TypeWrites
<1>3. UNCHANGED <<out, runs, job, kernel, kernels, cmd, late>>
  BY DEF Deletes
<1>4. CASE Raises(k) /\ doc' = doc
  <2>1. Excused(k, c)
    BY <1>1 DEF ClientInv, Follows, Excused
  <2>2. QED
    BY <1>1, <1>3, <1>4, <2>1, InvRaises DEF serverVars
<1>5. ASSUME NEW n \in 1..Len(doc), doc' = RemoveAt(doc, n), Goes(k, Exit(cl[k], "ok")) PROVE IInv'
  <2>1. PICK d \in Client : d = Exit(c, "ok") /\ Goes(k, d)
    BY <1>1, <1>5, ExitTyped
  <2>2. d.inserted = c.inserted /\ ClientInv(k, d)
    <3>1. cmd[k].op = "delete"
      BY <1>1 DEF ClientInv, AtStep
    <3>2. QED
      BY <1>1, <2>1, <3>1, ExitFields, EndKeeps
  <2>3. cl'[k] = d /\ \A o \in Clients \ {k} : cl'[o] = cl[o]
    BY <2>1, ClientWrite DEF TypeInv, TypeOK
  <2>4. \A x : Born(x)' <=> Born(x)
    BY <1>1, <2>1, <2>2, KeepsBorn DEF Goes, TypeInv, TypeOK
  <2>5. DocInv' /\ \A x : InDoc(x)' => InDoc(x)
    BY <1>2, <1>5, <2>4, DocThins DEF IInv
  <2>6. Grows
    BY <1>3, <2>4, <2>5 DEF Grows, TypeInv, TypeOK
  <2>7. \A j \in Jobs : JobFacts(j)'
    BY <1>3, <2>4 DEF IInv, JobFacts
  <2>8. \A o \in Clients : NoneStays(o)
    BY <1>3 DEF NoneStays
  <2>9. ClientInv(k, cl[k])'
    BY <1>1, <1>2, <1>3, <2>2, <2>3, <2>6, <2>8, KeepsMoved
  <2>10. QED
    BY <1>2, <1>3, <2>3, <2>5, <2>6, <2>7, <2>8, <2>9, ClientMoves
<1>6. QED
  BY <1>4, <1>5, DeletesWhere

LEMMA DocInsertAt ==
  ASSUME TypeInv, NEW p \in 1..Len(doc) + 1, NEW x \in CellIds
  PROVE  /\ DOMAIN InsertAt(doc, p, x) = 1..Len(doc) + 1
         /\ InsertAt(doc, p, x)[p] = x
         /\ \A n \in 1..Len(doc) + 1 : n # p => InsertAt(doc, p, x)[n] = doc[IF n < p THEN n ELSE n - 1]
<1>1. doc \in Seq(CellIds) /\ Len(doc) \in Nat
  BY DEF TypeInv, TypeOK
<1>2. InsertAt(doc, p, x) \in Seq(CellIds) /\ Len(InsertAt(doc, p, x)) = Len(doc) + 1
  BY <1>1, InsertAtProperties
<1>3. DOMAIN InsertAt(doc, p, x) = 1..Len(doc) + 1
  BY <1>1, <1>2
<1>4. InsertAt(doc, p, x)[p] = x
  BY <1>1, InsertAtProperties
<1>5. \A n \in 1..Len(doc) + 1 : n # p => InsertAt(doc, p, x)[n] = doc[IF n < p THEN n ELSE n - 1]
  BY <1>1, InsertAtProperties
<1>6. QED
  BY <1>3, <1>4, <1>5

LEMMA DocThickens ==
  ASSUME TypeInv, DocInv, \A x : Born(x) => Born(x)', NEW k \in Clients, NEW i \in 1..MaxBatch,
         NEW p \in 1..Len(doc) + 1, doc' = InsertAt(doc, p, <<k, i>>), Born(<<k, i>>)',
         i > 1 => p > 1 /\ doc[p - 1] = <<k, i - 1>>,
         \A j \in 1..MaxBatch : j >= i => ~InDoc(<<k, j>>)
  PROVE  DocInv' /\ \A x : InDoc(x)' => InDoc(x) \/ x = <<k, i>>
<1> DEFINE old(n) == IF n < p THEN n ELSE n - 1
<1>1. doc \in Seq(CellIds) /\ Len(doc) \in Nat /\ DOMAIN doc = 1..Len(doc)
  BY DEF TypeInv, TypeOK
<1>2. /\ DOMAIN doc' = 1..Len(doc) + 1
      /\ doc'[p] = <<k, i>>
      /\ \A n \in 1..Len(doc) + 1 : n # p => doc'[n] = doc[old(n)]
  <2>1. <<k, i>> \in CellIds
    BY OwnJobs
  <2>2. ASSUME NEW x \in CellIds
        PROVE  /\ DOMAIN InsertAt(doc, p, x) = 1..Len(doc) + 1
               /\ InsertAt(doc, p, x)[p] = x
               /\ \A n \in 1..Len(doc) + 1 : n # p => InsertAt(doc, p, x)[n] = doc[old(n)]
    BY DocInsertAt
  <2>3. QED
    BY <2>1, <2>2
<1>3. \A n \in 1..Len(doc) + 1 : n # p => old(n) \in 1..Len(doc) /\ n \in Int /\ old(n) \in Int
  BY <1>1
<1>4. \A m, n \in 1..Len(doc) + 1 :
        m # p /\ n # p => (old(m) < old(n) => m < n) /\ (old(m) = old(n) => m = n)
  BY <1>1
<1>5. \A n \in 1..Len(doc) + 1 : n # p /\ old(n) <= p - 1 => n < p
  BY <1>1
<1> HIDE DEF old
<1>6. \A n \in DOMAIN doc' : n # p => doc'[n] = doc[old(n)] /\ old(n) \in DOMAIN doc
  BY <1>1, <1>2, <1>3
<1>7. \A n \in DOMAIN doc' : n # p => InDoc(doc'[n])
  BY <1>1, <1>6 DEF InDoc, ToSet
<1>8. <<k, i>> \in Jobs
  BY OwnJobs
<1>9. \A n \in DOMAIN doc' : n # p => doc'[n] # <<k, i>>
  <2>1. ~InDoc(<<k, i>>)
    OBVIOUS
  <2>2. QED
    BY <1>7, <2>1
<1>10. ASSUME NEW x, \E n \in DOMAIN doc' : doc'[n] = x PROVE Born(x)'
  <2>1. PICK n \in DOMAIN doc' : doc'[n] = x
    BY <1>10
  <2>2. CASE n = p
    BY <1>2, <2>1, <2>2
  <2>3. CASE n # p
    BY <1>6, <2>1, <2>3 DEF DocInv
  <2>4. QED
    BY <2>2, <2>3
<1>11. \A m, n \in DOMAIN doc' : doc'[m] = doc'[n] /\ doc'[m] \in Jobs => m = n
  <2>1. TAKE m, n \in DOMAIN doc'
  <2>2. HAVE doc'[m] = doc'[n] /\ doc'[m] \in Jobs
  <2>3. CASE m # p /\ n # p
    <3>1. old(m) = old(n)
      BY <1>6, <2>2, <2>3 DEF DocInv
    <3>2. QED
      BY <1>2, <1>4, <2>3, <3>1
  <2>4. CASE m = p \/ n = p
    BY <1>2, <1>9, <2>2, <2>4
  <2>5. QED
    BY <2>3, <2>4
<1>12. ASSUME NEW o \in Clients, NEW e \in 1..MaxBatch, NEW j \in 1..MaxBatch,
             NEW m \in DOMAIN doc', NEW n \in DOMAIN doc',
             e < j, doc'[m] = <<o, e>>, doc'[n] = <<o, j>>
      PROVE  m < n
  <2>1. CASE m # p /\ n # p
    <3>1. old(m) < old(n)
      BY <1>6, <1>12, <2>1 DEF DocInv
    <3>2. QED
      BY <1>2, <1>4, <2>1, <3>1
  <2>2. CASE m = p
    <3>1. o = k /\ e = i /\ j >= i /\ n # p
      BY <1>2, <1>12, <2>2
    <3>2. InDoc(<<k, j>>)
      BY <1>7, <1>12, <3>1
    <3>3. QED
      BY <3>1, <3>2
  <2>3. CASE m # p /\ n = p
    <3>1. o = k /\ j = i
      BY <1>2, <1>12, <2>3
    <3>2. i > 1 /\ p > 1 /\ doc[p - 1] = <<k, i - 1>> /\ p - 1 \in DOMAIN doc /\ i - 1 \in 1..MaxBatch
      BY <1>1, <1>12, <3>1, ClientAssumption
    <3>3. doc[old(m)] = <<k, e>> /\ old(m) \in DOMAIN doc
      BY <1>6, <1>12, <2>3, <3>1
    <3>4. old(m) <= p - 1
      <4>1. CASE e = i - 1
        <5>1. <<k, i - 1>> \in Jobs
          BY <3>2, OwnJobs
        <5>2. old(m) = p - 1
          BY <3>2, <3>3, <4>1, <5>1 DEF DocInv
        <5>3. QED
          BY <1>1, <3>2, <5>2
      <4>2. CASE e < i - 1
        <5>1. old(m) < p - 1
          BY <3>2, <3>3, <4>2 DEF DocInv
        <5>2. QED
          BY <1>1, <3>3, <5>1
      <4>3. e = i - 1 \/ e < i - 1
        BY <1>12, <3>1, ClientAssumption
      <4>4. QED
        BY <4>1, <4>2, <4>3
    <3>5. QED
      BY <1>2, <1>5, <2>3, <3>4
  <2>4. QED
    BY <2>1, <2>2, <2>3
<1>13. ASSUME NEW x, InDoc(x)' PROVE InDoc(x) \/ x = <<k, i>>
  <2>1. PICK n \in DOMAIN doc' : doc'[n] = x
    BY <1>13, <1>2 DEF InDoc, ToSet
  <2>2. QED
    BY <1>2, <1>7, <2>1
<1>14. QED
  BY <1>10, <1>11, <1>12, <1>13 DEF DocInv

LEMMA InvInserts ==
  ASSUME TypeInv, IInv, NEW k \in Clients, Inserts(k)
  PROVE  IInv'
<1>1. PICK c \in Client : c = cl[k] /\ ClientInv(k, c) /\ c.pc = "insert"
  BY DEF TypeInv, TypeOK, IInv, Inserts
<1>2. TypeInv'
  BY TypeWrites
<1>3. UNCHANGED <<out, runs, job, kernel, kernels, cmd, late>>
  BY DEF Inserts
<1>4. cmd[k].op = "ix" /\ cmd[k].of = NoJob
  <2>1. Accepted(cmd[k])
    BY CommandFacts DEF TypeInv
  <2>2. QED
    BY <1>1, <2>1 DEF ClientInv, AtStep, Accepted
<1>5. CASE Raises(k) /\ doc' = doc
  <2>1. Excused(k, c)
    BY <1>1, <1>4 DEF ClientInv, Follows, Excused
  <2>2. QED
    BY <1>1, <1>3, <1>5, <2>1, InvRaises DEF serverVars
<1>6. CASE /\ Place(k) \in 1..Len(doc) + 1
           /\ c.i > 1 => Place(k) > 1 /\ doc[Place(k) - 1] = <<k, c.i - 1>>
           /\ <<k, c.i>> \in CellIds
           /\ doc' = InsertAt(doc, Place(k), <<k, c.i>>)
           /\ Goes(k, [c EXCEPT !.pc = "type", !.inserted = @ \cup {<<k, c.i>>}])
  <2>1. PICK d \in Client : d = [c EXCEPT !.pc = "type", !.inserted = c.inserted \cup {<<k, c.i>>}]
    BY <1>6 DEF Client, Steps
  <2>2. /\ d.pc = "type" /\ d.exit = c.exit /\ d.i = c.i /\ d.inserted = c.inserted \cup {<<k, c.i>>}
        /\ d.job = c.job /\ d.status = c.status /\ d.cells = c.cells /\ d.todo = c.todo
        /\ d.current = c.current /\ d.halt = c.halt /\ d.count = c.count /\ d.since = c.since
    BY <2>1 DEF Client
  <2>3. Goes(k, d)
    BY <1>6, <2>1
  <2>4. cl'[k] = d /\ \A o \in Clients \ {k} : cl'[o] = cl[o]
    BY <2>3, ClientWrite DEF TypeInv, TypeOK
  <2>5. c.i \in 1..MaxBatch /\ MaxBatch \in Nat
    BY ClientAssumption DEF Client
  <2>6. \A j \in 1..MaxBatch : j >= c.i => ~Born(<<k, j>>) /\ ~InDoc(<<k, j>>)
    <3>1. TAKE j \in 1..MaxBatch
    <3>2. HAVE j >= c.i
    <3>3. <<k, j>> \notin ToSet(OldCells)
      BY OwnJobs, ClientAssumption
    <3>4. <<k, j>> \notin c.inserted
      <4>1. SUFFICES ASSUME <<k, j>> \in c.inserted PROVE FALSE
        OBVIOUS
      <4>2. PICK n \in 1..c.i : <<k, j>> = <<k, n>>
        BY <1>1, <4>1 DEF ClientInv, Inserted
      <4>3. j = c.i
        BY <2>5, <3>2, <4>2
      <4>4. QED
        BY <1>1, <4>1, <4>3 DEF ClientInv, Inserted
    <3>5. \A o \in Clients : o # k => <<k, j>> \notin cl[o].inserted
      BY DEF IInv, ClientInv, Inserted
    <3>6. ~Born(<<k, j>>)
      BY <1>1, <3>3, <3>4, <3>5 DEF Born
    <3>7. ~InDoc(<<k, j>>)
      BY <3>6, DocFacts DEF IInv, DocInv
    <3>8. QED
      BY <3>6, <3>7
  <2>7. \A x : Born(x) => Born(x)'
    <3>1. ASSUME NEW x, NEW o \in Clients, x \in cl[o].inserted PROVE x \in cl'[o].inserted
      BY <1>1, <2>2, <2>4, <3>1
    <3>2. QED
      BY <3>1 DEF Born
  <2>8. Born(<<k, c.i>>)'
    BY <2>1, <2>2, <2>4 DEF Born
  <2>9. DocInv' /\ \A x : InDoc(x)' => InDoc(x) \/ x = <<k, c.i>>
    BY <1>6, <2>5, <2>6, <2>7, <2>8, DocThickens DEF IInv
  <2>10. \A x : Born(x) /\ ~InDoc(x) => ~InDoc(x)'
    BY <2>5, <2>6, <2>9
  <2>11. Grows
    BY <1>3, <2>7, <2>10 DEF Grows, TypeInv, TypeOK
  <2>12. \A j \in Jobs : JobFacts(j)'
    BY <1>3, <2>7 DEF IInv, JobFacts
  <2>13. \A o \in Clients : NoneStays(o)
    BY <1>3 DEF NoneStays
  <2>14. AtStep(k, d)
    BY <1>1, <1>4, <2>2 DEF ClientInv, AtStep
  <2>15. Inserted(k, d)
    BY <1>1, <1>4, <2>2, <2>5 DEF ClientInv, Inserted
  <2>16. Follows(k, d)
    BY <1>1, <1>4, <2>2 DEF ClientInv, Follows
  <2>17. Owns(k, d)
    BY <1>1, <2>2 DEF ClientInv, Owns
  <2>18. Restarted(k, d)
    BY <1>1, <1>4, <2>2 DEF ClientInv, Restarted
  <2>19. Tells(k, d)'
    <3>1. c.exit = "none" /\ c.halt = "none" /\ ~(c.count > 0) /\ c.current = {}
      BY <1>1 DEF ClientInv, AtStep, Tells
    <3>2. QED
      BY <2>2, <3>1 DEF Tells
  <2>20. ClientInv(k, d)'
    <3>1. cmd' = cmd
      BY <1>3
    <3>2. AtStep(k, d)' /\ Inserted(k, d)'
      BY <3>1, <2>14, <2>15, KeepsPlace
    <3>3. Follows(k, d)' /\ Owns(k, d)' /\ Restarted(k, d)'
      BY <1>2, <2>11, <2>13, <2>16, <2>17, <2>18, KeepsFollows, KeepsOwns, KeepsRestarted
    <3>4. QED
      BY <2>19, <3>2, <3>3 DEF ClientInv
  <2>21. ClientInv(k, cl[k])'
    BY <2>4, <2>20
  <2>22. QED
    BY <1>2, <1>3, <2>4, <2>9, <2>11, <2>12, <2>13, <2>21, ClientMoves
<1>7. QED
  BY <1>1, <1>5, <1>6, InsertsWhere

LEMMA InvRuns ==
  ASSUME TypeInv, IInv, NEW k \in Clients, Runs(k)
  PROVE  IInv'
<1>1. PICK c \in Client : c = cl[k] /\ ClientInv(k, c) /\ c.pc = "run"
  BY DEF TypeInv, TypeOK, IInv, Runs
<1>2. /\ TypeInv' /\ UNCHANGED <<doc, out, runs, cmd>> /\ Accepted(cmd[k])
      /\ \A o \in Clients \ {k} : late'[o] = late[o]
  BY TypeWrites, CommandFacts DEF Runs, TypeInv, TypeOK
<1>3. c.i \in 1..MaxBatch /\ MaxBatch \in Nat /\ NoJob \notin Jobs
  BY ClientAssumption DEF Client
<1>4. PICK j \in Jobs : j = <<k, c.i>>
  BY <1>3, OwnJobs
<1>5. job[j].status = "none" /\ job[j].at = 0 /\ job[j].kernel = 0
  <2>1. c.job # j
    BY <1>1, <1>3, <1>4 DEF ClientInv, Follows
  <2>2. job[j].status = "none"
    BY <1>1, <1>3, <1>4, <2>1 DEF ClientInv, Owns
  <2>3. QED
    BY <2>2 DEF IInv, JobFacts
<1>6. PICK r \in Job : r = [job[j] EXCEPT !.status = "queued", !.cells = c.cells]
  <2>1. job[j] \in Job /\ c.cells \in Seq(CellIds)
    BY DEF TypeInv, TypeOK, Client
  <2>2. [job[j] EXCEPT !.status = "queued", !.cells = c.cells] \in Job
    BY <2>1 DEF Job, JobStatus
  <2>3. QED
    BY <2>2
<1>7. r.status = "queued" /\ r.cells = c.cells /\ r.at = 0 /\ r.kernel = 0 /\ r.evicted = job[j].evicted
  BY <1>5, <1>6 DEF TypeInv, TypeOK, Job
<1>8. job' = [job EXCEPT ![j] = r] /\ EnsuresKernel
  BY <1>1, <1>4, <1>6 DEF Runs, Queues, OwnJob
<1>9. job'[j] = r /\ \A o \in Jobs \ {j} : job'[o] = job[o]
  BY <1>8, JobWrite DEF TypeInv, TypeOK
<1>10. PICK d \in Client :
         /\ Goes(k, d) /\ d.pc = IF cmd[k].wait THEN "poll" ELSE "report"
         /\ d.exit = c.exit /\ d.i = c.i /\ d.inserted = c.inserted /\ d.job = j /\ d.status = "queued"
         /\ d.cells = c.cells /\ d.todo = c.todo /\ d.current = c.current /\ d.halt = c.halt
         /\ d.count = c.count /\ d.since = c.since
  <2>1. PICK b \in Client : b = [c EXCEPT !.job = j, !.status = "queued"]
    BY DEF Client, JobStatus
  <2>2. /\ b.exit = c.exit /\ b.i = c.i /\ b.inserted = c.inserted /\ b.job = j /\ b.status = "queued"
        /\ b.cells = c.cells /\ b.todo = c.todo /\ b.current = c.current /\ b.halt = c.halt
        /\ b.count = c.count /\ b.since = c.since
    BY <2>1 DEF Client
  <2>3. Waiting(k, b) = [b EXCEPT !.pc = "poll"]
    BY <2>2 DEF Waiting, Terminal
  <2>4. Goes(k, [b EXCEPT !.pc = IF cmd[k].wait THEN "poll" ELSE "report"])
    <3>1. Goes(k, IF cmd[k].wait THEN Waiting(k, b) ELSE [b EXCEPT !.pc = "report"])
      BY <1>1, <1>4, <2>1 DEF Runs, OwnJob
    <3>2. QED
      BY <2>3, <3>1
  <2>5. PICK d \in Client : d = [b EXCEPT !.pc = IF cmd[k].wait THEN "poll" ELSE "report"]
    BY ZenonT(30) DEF Client, Steps
  <2>6. /\ d.pc = (IF cmd[k].wait THEN "poll" ELSE "report")
        /\ d.exit = b.exit /\ d.i = b.i /\ d.inserted = b.inserted /\ d.job = b.job /\ d.status = b.status
        /\ d.cells = b.cells /\ d.todo = b.todo /\ d.current = b.current /\ d.halt = b.halt
        /\ d.count = b.count /\ d.since = b.since
    BY <2>5 DEF Client
  <2>7. QED
    BY <2>2, <2>4, <2>5, <2>6, ZenonT(30)
<1>11. cl'[k] = d /\ \A o \in Clients \ {k} : cl'[o] = cl[o]
  BY <1>10, ClientWrite DEF TypeInv, TypeOK
<1>12. (\A x : Born(x)' <=> Born(x)) /\ (\A x : InDoc(x)' <=> InDoc(x))
  <2>1. \A x : Born(x)' <=> Born(x)
    BY <1>1, <1>10, KeepsBorn DEF Goes, TypeInv, TypeOK
  <2>2. QED
    BY <1>2, <2>1 DEF InDoc
<1>13. Grows
  <2>1. kernels <= kernels' /\ (kernel' = kernel \/ kernel' = kernels + 1)
    BY <1>8 DEF EnsuresKernel, TypeInv, TypeOK
  <2>2. ASSUME NEW o \in Jobs
        PROVE  /\ job[o].status # "none" => job'[o].status # "none" /\ job'[o].cells = job[o].cells
               /\ job[o].status \in {"succeeded", "failed"} => job'[o].status = job[o].status
               /\ job[o].evicted => job'[o].evicted
               /\ job'[o].kernel = job[o].kernel \/ job'[o].kernel = kernel'
    <3>1. CASE o = j
      BY <1>5, <1>7, <1>9, <3>1
    <3>2. CASE o # j
      BY <1>9, <3>2
    <3>3. QED
      BY <3>1, <3>2
  <2>3. QED
    BY <1>2, <1>12, <2>1, <2>2 DEF Grows
<1>14. DocInv'
  BY <1>2, <1>12 DEF IInv, DocInv
<1>15. ASSUME NEW o \in Jobs PROVE JobFacts(o)'
  <2>1. CASE o = j
    <3>1. \A x \in ToSet(r.cells) : Born(x)'
      BY <1>1, <1>7, <1>12 DEF ClientInv, Follows
    <3>2. 0 <= Len(r.cells) /\ 1..0 = {}
      BY <1>7 DEF Client
    <3>3. QED
      BY <1>7, <1>9, <2>1, <3>1, <3>2 DEF JobFacts
  <2>2. CASE o # j
    BY <1>2, <1>9, <1>12, <2>2 DEF IInv, JobFacts
  <2>3. QED
    BY <2>1, <2>2
<1>16. ASSUME NEW o \in Clients \ {k} PROVE NoneStays(o)
  <2>1. \A n \in 1..MaxBatch : <<o, n>> \in Jobs \ {j}
    BY <1>4, OwnJobs
  <2>2. QED
    BY <1>9, <2>1 DEF NoneStays
<1>17. \A n \in 1..MaxBatch : n # c.i => <<k, n>> \in Jobs \ {j}
  BY <1>4, OwnJobs
<1>18. cmd[k].op \in {"ix", "exec", "run-all", "restart-run-all"}
  BY <1>1 DEF ClientInv, AtStep
<1>19. AtStep(k, d)' /\ Inserted(k, d)'
  <2>1. AtStep(k, d)
    BY <1>1, <1>10, <1>18 DEF ClientInv, AtStep
  <2>2. Inserted(k, d)
    BY <1>1, <1>10 DEF ClientInv, Inserted
  <2>3. QED
    BY <1>2, <2>1, <2>2, KeepsPlace
<1>20. Follows(k, d)'
  <2>1. c.i \in 1..c.i
    BY <1>3
  <2>2. \A x \in ToSet(d.cells) : Born(x)'
    BY <1>1, <1>10, <1>12 DEF ClientInv, Follows
  <2>3. QED
    BY <1>2, <1>3, <1>4, <1>7, <1>9, <1>10, <1>18, <2>1, <2>2 DEF Follows
<1>21. Owns(k, d)'
  <2>1. ASSUME NEW n \in 1..MaxBatch, job'[<<k, n>>].status # "none"
        PROVE  /\ d.job = <<k, n>> \/ (n < d.i /\ job'[<<k, n>>].status = "succeeded")
               /\ cmd[k].op = "ix" => job'[<<k, n>>].cells = <<<<k, n>>>>
    <3>1. CASE n = c.i
      BY <1>1, <1>4, <1>7, <1>9, <1>10, <3>1 DEF ClientInv, Follows
    <3>2. CASE n # c.i
      <4>1. job'[<<k, n>>] = job[<<k, n>>]
        BY <1>9, <1>17, <3>2
      <4>2. cmd[k].op = "ix" => job[<<k, n>>].cells = <<<<k, n>>>>
        BY <1>1, <2>1, <4>1 DEF ClientInv, Owns
      <4>3. n < c.i /\ job[<<k, n>>].status = "succeeded"
        <5>1. CASE c.job = <<k, n>>
          <6>1. c.job \in Jobs
            BY <5>1, OwnJobs
          <6>2. c.status = "succeeded" /\ job[c.job].status = "succeeded"
            BY <1>1, <1>3, <6>1 DEF ClientInv, Follows
          <6>3. \E m \in 1..c.i : c.job = <<k, m>>
            BY <1>1, <1>3, <1>18, <6>1 DEF ClientInv, Follows
          <6>4. n <= c.i
            BY <1>3, <5>1, <6>3
          <6>5. QED
            BY <1>3, <3>2, <5>1, <6>2, <6>4
        <5>2. CASE c.job # <<k, n>>
          BY <1>1, <2>1, <4>1, <5>2 DEF ClientInv, Owns
        <5>3. QED
          BY <5>1, <5>2
      <4>4. QED
        BY <1>10, <4>1, <4>2, <4>3
    <3>3. QED
      BY <3>1, <3>2
  <2>2. ASSUME cmd[k].op = "ix", NEW e \in 1..d.i - 1, cmd[k].kinds[e] = "code"
        PROVE  job'[<<k, e>>].status = "succeeded"
    <3>1. e \in 1..MaxBatch /\ e # c.i /\ e \in 1..c.i - 1
      BY <1>3, <1>10
    <3>2. job[<<k, e>>].status = "succeeded"
      BY <1>1, <2>2, <3>1 DEF ClientInv, Owns
    <3>3. QED
      BY <1>9, <1>17, <3>1, <3>2
  <2>3. QED
    BY <1>2, <2>1, <2>2 DEF Owns
<1>22. Tells(k, d)'
  <2>1. c.exit = "none" /\ c.halt = "none" /\ ~(c.count > 0) /\ c.current = {}
    BY <1>1 DEF ClientInv, AtStep, Tells
  <2>2. IsBatch(k)' => d.pc = "poll"
    BY <1>2, <1>10 DEF IsBatch, Accepted
  <2>3. QED
    BY <1>10, <2>1, <2>2 DEF Tells
<1>23. Restarted(k, d)'
  <2>1. /\ c.since \in Nat /\ kernels \in Nat /\ kernel \in 0..kernels
        /\ kernel' = (IF kernel = 0 THEN kernels + 1 ELSE kernel)
        /\ kernels' = (IF kernel = 0 THEN kernels + 1 ELSE kernels)
    BY <1>8 DEF EnsuresKernel, TypeInv, TypeOK, Client
  <2>2. cmd[k].op = "restart-run-all" =>
          d.since <= kernels' /\ (kernel' = 0 \/ kernel' > d.since)
    BY <1>1, <1>10, <2>1 DEF ClientInv, Restarted
  <2>3. ASSUME cmd[k].op = "restart-run-all", NEW n \in 1..MaxBatch, job'[<<k, n>>].kernel # 0
        PROVE  job'[<<k, n>>].kernel > d.since
    <3>1. CASE n = c.i
      BY <1>4, <1>7, <1>9, <2>3, <3>1
    <3>2. CASE n # c.i
      BY <1>1, <1>9, <1>10, <1>17, <2>3, <3>2 DEF ClientInv, Restarted
    <3>3. QED
      BY <3>1, <3>2
  <2>4. d.pc # "stop"
    BY <1>10
  <2>5. QED
    BY <1>2, <2>2, <2>3, <2>4 DEF Restarted
<1>24. ClientInv(k, cl[k])'
  BY <1>11, <1>19, <1>20, <1>21, <1>22, <1>23 DEF ClientInv
<1>25. QED
  BY <1>2, <1>11, <1>13, <1>14, <1>15, <1>16, <1>24, ClientMoves

LEMMA InvStops ==
  ASSUME TypeInv, IInv, NEW k \in Clients, Stops(k)
  PROVE  IInv'
<1>1. PICK c \in Client : c = cl[k] /\ ClientInv(k, c) /\ c.pc = "stop"
  BY DEF TypeInv, TypeOK, IInv, Stops
<1>2. TypeInv' /\ UNCHANGED <<doc, out, runs, kernels, cmd, late>> /\ kernel' = 0
  BY TypeWrites DEF Stops
<1>3. \A j \in Jobs : /\ job'[j].status = job[j].status /\ job'[j].cells = job[j].cells
                      /\ job'[j].at = job[j].at /\ job'[j].kernel = job[j].kernel
                      /\ job[j].evicted => job'[j].evicted
  <2>1. CASE kernel = 0
    BY <2>1 DEF Stops
  <2>2. CASE kernel # 0
    <3>1. job' = [j \in Jobs |-> [job[j] EXCEPT !.evicted = job[j].evicted \/ job[j].status # "none"]]
      BY <2>2 DEF Stops
    <3>2. \A j \in Jobs : job[j] \in Job
      BY DEF TypeInv, TypeOK
    <3>3. QED
      BY <3>1, <3>2 DEF Job
  <2>3. QED
    BY <2>1, <2>2
<1>4. /\ kernels \in Nat /\ c.i = 1 /\ c.job = NoJob /\ NoJob \notin Jobs
      /\ cmd[k].op \in {"stop", "restart", "restart-run-all"}
  BY <1>1, ClientAssumption DEF ClientInv, AtStep, Follows, TypeInv, TypeOK
<1>5. \A n \in 1..MaxBatch : job[<<k, n>>].kernel = 0
  <2>1. TAKE n \in 1..MaxBatch
  <2>2. <<k, n>> \in Jobs /\ ~(n < 1)
    BY OwnJobs, ClientAssumption
  <2>3. job[<<k, n>>].status = "none"
    BY <1>1, <1>4, <2>2 DEF ClientInv, Owns
  <2>4. QED
    BY <2>2, <2>3 DEF IInv, JobFacts
<1>6. PICK d \in Client :
         /\ Goes(k, d) /\ d.pc = (IF cmd[k].op = "stop" THEN "done" ELSE "open")
         /\ d.exit = (IF cmd[k].op = "stop" THEN "ok" ELSE c.exit)
         /\ d.since = (IF cmd[k].op = "stop" THEN c.since ELSE kernels)
         /\ d.i = c.i /\ d.inserted = c.inserted /\ d.job = c.job /\ d.status = c.status
         /\ d.cells = c.cells /\ d.todo = c.todo /\ d.current = c.current /\ d.halt = c.halt
         /\ d.count = c.count
  <2>1. CASE cmd[k].op = "stop"
    <3>1. PICK d \in Client : d = Exit(c, "ok")
      BY ExitTyped
    <3>2. Goes(k, d)
      BY <1>1, <2>1, <3>1 DEF Stops
    <3>3. QED
      BY <2>1, <3>1, <3>2, ExitFields
  <2>2. CASE cmd[k].op # "stop"
    <3>1. PICK d \in Client : d = [c EXCEPT !.pc = "open", !.since = kernels]
      BY <1>4 DEF Client, Steps
    <3>2. Goes(k, [At(k, "open") EXCEPT !.since = kernels])
      BY <2>2 DEF Stops
    <3>3. [At(k, "open") EXCEPT !.since = kernels] = d
      BY <1>1, <3>1 DEF At, Client
    <3>4. /\ d.pc = "open" /\ d.exit = c.exit /\ d.since = kernels
          /\ d.i = c.i /\ d.inserted = c.inserted /\ d.job = c.job /\ d.status = c.status
          /\ d.cells = c.cells /\ d.todo = c.todo /\ d.current = c.current /\ d.halt = c.halt
          /\ d.count = c.count
      BY <3>1 DEF Client
    <3>5. QED
      BY <2>2, <3>2, <3>3, <3>4
  <2>3. QED
    BY <2>1, <2>2
<1>7. cl'[k] = d /\ \A o \in Clients \ {k} : cl'[o] = cl[o]
  BY <1>6, ClientWrite DEF TypeInv, TypeOK
<1>8. (\A x : Born(x)' <=> Born(x)) /\ (\A x : InDoc(x)' <=> InDoc(x))
  <2>1. \A x : Born(x)' <=> Born(x)
    BY <1>1, <1>6, KeepsBorn DEF Goes, TypeInv, TypeOK
  <2>2. QED
    BY <1>2, <2>1 DEF InDoc
<1>9. Grows
  <2>1. kernels <= kernels' /\ kernel' = 0
    BY <1>2, <1>4
  <2>2. QED
    BY <1>2, <1>3, <1>8, <2>1 DEF Grows
<1>10. DocInv' /\ \A j \in Jobs : JobFacts(j)'
  BY <1>2, <1>3, <1>8 DEF IInv, DocInv, JobFacts
<1>11. \A o \in Clients : NoneStays(o)
  BY <1>3, OwnJobs DEF NoneStays
<1>12. ClientInv(k, cl[k])'
  <2>1. CASE cmd[k].op = "stop"
    <3>1. ClientInv(k, d)
      BY <1>1, <1>6, <2>1, EndKeeps
    <3>2. QED
      BY <1>1, <1>2, <1>6, <1>7, <1>9, <1>11, <3>1, KeepsMoved
  <2>2. CASE cmd[k].op # "stop"
    <3>1. AtStep(k, d)
      BY <1>1, <1>4, <1>6, <2>2 DEF ClientInv, AtStep
    <3>2. Inserted(k, d)
      BY <1>1, <1>4, <1>6, <2>2 DEF ClientInv, Inserted
    <3>3. Follows(k, d)
      BY <1>1, <1>4, <1>6, <2>2 DEF ClientInv, Follows
    <3>4. Owns(k, d)
      BY <1>1, <1>6 DEF ClientInv, Owns
    <3>5. Tells(k, d)
      BY <1>1, <1>6, <2>2 DEF ClientInv, Tells, Client, AtStep
    <3>6. (AtStep(k, d) /\ Inserted(k, d) /\ Follows(k, d) /\ Owns(k, d) /\ Tells(k, d))'
      BY <1>1, <1>2, <1>6, <1>9, <1>11, <3>1, <3>2, <3>3, <3>4, <3>5,
         KeepsPlace, KeepsFollows, KeepsOwns, KeepsTells
    <3>7. Restarted(k, d)'
      <4>1. \A n \in 1..MaxBatch : job'[<<k, n>>].kernel = 0
        BY <1>3, <1>5, OwnJobs
      <4>2. d.since = kernels /\ kernels' = kernels /\ kernel' = 0 /\ kernels <= kernels /\ d.pc = "open"
        BY <1>2, <1>4, <1>6, <2>2
      <4>3. QED
        BY <4>1, <4>2 DEF Restarted
    <3>8. QED
      BY <1>7, <3>6, <3>7 DEF ClientInv
  <2>3. QED
    BY <2>1, <2>2
<1>13. QED
  BY <1>2, <1>7, <1>9, <1>10, <1>11, <1>12, ClientMoves

LEMMA InvNext == TypeInv /\ IInv /\ [Next]_vars => IInv'
<1> SUFFICES ASSUME TypeInv, IInv, [Next]_vars PROVE IInv'
  OBVIOUS
<1>1. CASE UNCHANGED vars
  <2>1. /\ UNCHANGED <<doc, out, runs, job, kernel, kernels, cmd, cl, late>>
        /\ \A k \in Clients : late[k] => late'[k]
    BY <1>1 DEF vars
  <2>2. TypeInv'
    BY TypeNext
  <2>3. (\A x : Born(x)' <=> Born(x)) /\ (\A x : InDoc(x)' <=> InDoc(x))
    BY <2>1 DEF Born, InDoc
  <2>4. Grows
    BY <2>1, <2>3 DEF Grows, TypeInv, TypeOK
  <2>5. DocInv' /\ \A j \in Jobs : JobFacts(j)'
    BY <2>1, <2>3 DEF IInv, DocInv, JobFacts
  <2>6. ASSUME NEW k \in Clients PROVE ClientInv(k, cl[k])'
    <3>1. NoneStays(k) /\ cl'[k] = cl[k]
      BY <2>1 DEF NoneStays
    <3>2. QED
      BY <2>1, <2>2, <2>4, <3>1, KeepsClient DEF IInv
  <2>7. QED
    BY <2>5, <2>6 DEF IInv
<1>2. ASSUME NEW k \in Clients, ClientStep(k) PROVE IInv'
  BY <1>2, InvReads, InvInserts, InvDeletes, InvRuns, InvStops, InvOpens DEF ClientStep
<1>3. ASSUME NEW k \in Clients, DeadlinePasses(k) PROVE IInv'
  BY <1>3, InvDeadline
<1>4. ASSUME NEW j \in Jobs, JobStep(j) PROVE IInv'
  BY <1>4, InvJobStep
<1>5. QED
  BY <1>1, <1>2, <1>3, <1>4 DEF Next

LEMMA InvAlways == Spec => [](TypeInv /\ IInv)
<1>1. Init => TypeInv /\ IInv
  BY TypeInit, InvInit
<1>2. TypeInv /\ IInv /\ [Next]_vars => (TypeInv /\ IInv)'
  BY TypeNext, InvNext
<1>3. QED
  BY <1>1, <1>2, PTL DEF Spec

(* The inserted cells of a batch that has ended are as many as its place. *)
LEMMA CountInserted ==
  ASSUME NEW k \in Clients, NEW n \in Nat
  PROVE  Cardinality({<<k, m>> : m \in 1..n}) = n
<1> DEFINE f == [m \in 1..n |-> <<k, m>>]
           T == {<<k, m>> : m \in 1..n}
<1>1. IsFiniteSet(1..n) /\ Cardinality(1..n) = n
  BY FS_Interval
<1>2. f \in Bijection(1..n, T)
  <2>1. f \in [1..n -> T] /\ \A m \in 1..n : f[m] = <<k, m>>
    OBVIOUS
  <2>2. \A a, b \in 1..n : f[a] = f[b] => a = b
    BY <2>1
  <2>3. \A t \in T : \E m \in 1..n : f[m] = t
    BY <2>1
  <2> HIDE DEF f, T
  <2>4. QED
    BY <2>1, <2>2, <2>3 DEF Bijection, Injection, Surjection, IsInjective
<1>3. ExistsBijection(1..n, T)
  BY <1>2 DEF ExistsBijection
<1>4. QED
  BY <1>1, <1>3, FS_Bijection

(* A batch of ix stops where it must: see BatchStopsAtHalt. *)
THEOREM BatchStopsAtHaltAlways == Spec => []BatchStopsAtHalt
<1>1. ASSUME TypeInv, IInv PROVE BatchStopsAtHalt
  <2>1. ASSUME NEW k \in Clients, IsBatch(k)
        PROVE  /\ \A i, e \in DOMAIN cmd[k].kinds : (e < i /\ <<k, i>> \in cl[k].inserted) =>
                    /\ cmd[k].kinds[e] = "code" => job[<<k, e>>].status = "succeeded"
                    /\ \A m, n \in DOMAIN doc : (doc[m] = <<k, e>> /\ doc[n] = <<k, i>>) => m < n
               /\ cl[k].count > 0 =>
                    /\ cl[k].count = Cardinality(cl[k].inserted)
                    /\ cl[k].halt = "none" <=> cl[k].count = Len(cmd[k].kinds)
                    /\ cl[k].halt = "job_failed" => job[<<k, cl[k].count>>].status = "failed"
    <3>1. PICK c \in Client : c = cl[k] /\ ClientInv(k, c)
      BY <1>1 DEF TypeInv, TypeOK, IInv
    <3>2. /\ cmd[k].op = "ix" /\ cmd[k].kinds \in Seq({"code", "markdown"})
          /\ Len(cmd[k].kinds) <= MaxBatch /\ Len(cmd[k].kinds) \in Nat
      BY <1>1, <2>1, BatchIsIx, CommandFacts DEF TypeInv, Accepted, Command, TypeOK
    <3>3. c.i \in 1..MaxBatch /\ MaxBatch \in Nat
      BY ClientAssumption DEF Client
    <3>4. ASSUME NEW i \in DOMAIN cmd[k].kinds, NEW e \in DOMAIN cmd[k].kinds, e < i, <<k, i>> \in c.inserted
          PROVE  /\ cmd[k].kinds[e] = "code" => job[<<k, e>>].status = "succeeded"
                 /\ \A m, n \in DOMAIN doc : (doc[m] = <<k, e>> /\ doc[n] = <<k, i>>) => m < n
      <4>1. i \in 1..MaxBatch /\ e \in 1..MaxBatch
        BY <3>2, <3>3
      <4>2. PICK p \in 1..c.i : <<k, i>> = <<k, p>>
        BY <3>1, <3>4 DEF ClientInv, Inserted
      <4>3. e \in 1..c.i - 1
        BY <3>3, <3>4, <4>1, <4>2
      <4>4. cmd[k].kinds[e] = "code" => job[<<k, e>>].status = "succeeded"
        BY <3>1, <3>2, <4>3 DEF ClientInv, Owns
      <4>5. \A m, n \in DOMAIN doc : (doc[m] = <<k, e>> /\ doc[n] = <<k, i>>) => m < n
        BY <1>1, <3>4, <4>1 DEF IInv, DocInv
      <4>6. QED
        BY <4>4, <4>5
    <3>5. ASSUME c.count > 0
          PROVE  /\ c.count = Cardinality(c.inserted)
                 /\ c.halt = "none" <=> c.count = Len(cmd[k].kinds)
                 /\ c.halt = "job_failed" => job[<<k, c.count>>].status = "failed"
      <4>1. c.count = c.i /\ <<k, c.i>> \in c.inserted /\ (c.halt = "none" <=> c.i = Len(cmd[k].kinds))
        BY <3>1, <3>5 DEF ClientInv, Tells
      <4>2. c.inserted = {<<k, m>> : m \in 1..c.i}
        <5>1. c.inserted \subseteq {<<k, m>> : m \in 1..c.i}
          BY <3>1 DEF ClientInv, Inserted
        <5>2. ASSUME NEW m \in 1..c.i PROVE <<k, m>> \in c.inserted
          <6>1. m = c.i \/ m \in 1..c.i - 1
            BY <3>3
          <6>2. QED
            BY <3>1, <4>1, <6>1 DEF ClientInv, Inserted
        <5>3. QED
          BY <5>1, <5>2
      <4>3. Cardinality(c.inserted) = c.i
        BY <3>3, <4>2, CountInserted
      <4>4. c.halt = "job_failed" => job[<<k, c.i>>].status = "failed"
        BY <3>1 DEF ClientInv, Tells, Follows
      <4>5. QED
        BY <4>1, <4>3, <4>4
    <3>6. QED
      BY <3>1, <3>4, <3>5
  <2>2. QED
    BY <2>1 DEF BatchStopsAtHalt
<1>2. QED
  BY <1>1, InvAlways, PTL

(* The exit code of a command tells what became of its jobs: see            *)
(* ExitTellsOutcome.                                                        *)
THEOREM ExitTellsOutcomeAlways == Spec => []ExitTellsOutcome
<1>1. ASSUME TypeInv, IInv PROVE ExitTellsOutcome
  <2>1. ASSUME NEW k \in Clients, Done(k)
        PROVE  /\ (cl[k].exit = "ok" /\ cmd[k].wait /\ cl[k].status # "awaiting") =>
                    \A j \in JobsOf(k) : job[j].status = "succeeded"
               /\ cl[k].exit = "failed" => job[cl[k].job].status = "failed"
               /\ (cl[k].exit = "error" /\ cl[k].job \in {OwnJob(k), cmd[k].of} \ {NoJob}) =>
                    \/ cmd[k].timed /\ late[k]
                    \/ job[cl[k].job].evicted
                    \/ \E c \in cl[k].inserted \cup ToSet(cl[k].cells) : ~InDoc(c)
    <3>1. PICK c \in Client : c = cl[k] /\ ClientInv(k, c)
      BY <1>1 DEF TypeInv, TypeOK, IInv
    <3>2. ASSUME c.exit = "ok", cmd[k].wait, c.status # "awaiting", NEW j \in JobsOf(k)
          PROVE  job[j].status = "succeeded"
      <4>1. c.job # NoJob => job[c.job].status = "succeeded"
        BY <3>1, <3>2 DEF ClientInv, Tells, Follows
      <4>2. CASE j = c.job /\ j # NoJob
        BY <4>1, <4>2
      <4>3. CASE j \in Jobs /\ j[1] = k /\ job[j].status # "none" /\ j # c.job
        <5>1. PICK n \in 1..MaxBatch : j = <<k, n>>
          BY <4>3 DEF Jobs
        <5>2. QED
          BY <3>1, <4>3, <5>1 DEF ClientInv, Owns
      <4>4. CASE j \in Jobs /\ j = c.job
        BY <4>1, <4>4, ClientAssumption
      <4>5. QED
        BY <3>1, <3>2, <4>2, <4>3, <4>4 DEF JobsOf
    <3>3. c.exit = "failed" => job[c.job].status = "failed"
      BY <3>1 DEF ClientInv, Tells, Follows
    <3>4. QED
      BY <3>1, <3>2, <3>3 DEF ClientInv, Tells, OwnJob
  <2>2. QED
    BY <2>1 DEF ExitTellsOutcome
<1>2. QED
  BY <1>1, InvAlways, PTL

(* A job that succeeded has run its cells. *)
LEMMA SucceededHasRun ==
  ASSUME IInv, NEW j \in Jobs, job[j].status = "succeeded"
  PROVE  \A x \in ToSet(job[j].cells) : j \in runs[x]
BY DEF IInv, JobFacts, ToSet

(* Outputs that a result calls current are those of the command's own run,  *)
(* and restart-run-all runs in a new kernel: see ResultsAreFresh.           *)
THEOREM ResultsAreFreshAlways == Spec => []ResultsAreFresh
<1>1. ASSUME TypeInv, IInv PROVE ResultsAreFresh
  <2>1. ASSUME NEW k \in Clients
        PROVE  /\ cl[k].status \notin {"failed", "awaiting"} =>
                    \A c \in cl[k].current : IsCode(c) => \E j \in JobsOf(k) : j \in runs[c]
               /\ cmd[k].op = "restart-run-all" =>
                    \A j \in JobsOf(k) : job[j].kernel # 0 => job[j].kernel > cl[k].since
    <3>1. PICK c \in Client : c = cl[k] /\ ClientInv(k, c)
      BY <1>1 DEF TypeInv, TypeOK, IInv
    <3>2. c.i \in 1..MaxBatch /\ MaxBatch \in Nat /\ NoJob \notin Jobs
      BY ClientAssumption DEF Client
    <3>3. \A n \in 1..MaxBatch : job[<<k, n>>].status # "none" => <<k, n>> \in JobsOf(k)
      BY OwnJobs DEF JobsOf
    <3>4. ASSUME c.status \notin {"failed", "awaiting"}, NEW x \in c.current, IsCode(x)
          PROVE  \E j \in JobsOf(k) : j \in runs[x]
      <4>1. c.status = "succeeded" /\ x \in c.inserted \cup (IF IsBatch(k) THEN {} ELSE ToSet(c.cells))
        BY <3>1, <3>4 DEF ClientInv, Tells, Terminal
      <4>2. c.job \in Jobs /\ job[c.job].status = "succeeded"
        BY <3>1, <4>1 DEF ClientInv, Follows, Client
      <4>3. CASE x \in c.inserted
        <5>1. PICK n \in 1..c.i : x = <<k, n>>
          BY <3>1, <4>3 DEF ClientInv, Inserted
        <5>2. n \in 1..MaxBatch /\ x \in Jobs
          BY <3>2, <5>1, OwnJobs
        <5>3. cmd[k].op = "ix" /\ cmd[k].kinds[n] = "code"
          BY <3>1, <3>4, <4>3, <5>1, <5>2 DEF ClientInv, AtStep, IsCode
        <5>4. job[x].status = "succeeded"
          <6>1. CASE n = c.i
            BY <3>1, <3>4, <4>2, <5>1, <5>3, <6>1 DEF ClientInv, Tells
          <6>2. CASE n # c.i
            <7>1. n \in 1..c.i - 1
              BY <3>2, <6>2
            <7>2. QED
              BY <3>1, <5>1, <5>3, <7>1 DEF ClientInv, Owns
          <6>3. QED
            BY <6>1, <6>2
        <5>5. job[x].cells = <<x>>
          BY <3>1, <5>1, <5>2, <5>3, <5>4 DEF ClientInv, Owns
        <5>6. x \in runs[x]
          <6>1. x \in ToSet(<<x>>)
            BY DEF ToSet
          <6>2. QED
            BY <1>1, <5>2, <5>4, <5>5, <6>1, SucceededHasRun
        <5>7. QED
          BY <3>3, <5>1, <5>2, <5>4, <5>6
      <4>4. CASE ~IsBatch(k) /\ x \in ToSet(c.cells)
        <5>1. c.cells = job[c.job].cells /\ c.job \in JobsOf(k)
          BY <3>1, <3>2, <4>2, <4>4 DEF ClientInv, Follows, JobsOf
        <5>2. QED
          BY <1>1, <4>2, <4>4, <5>1, SucceededHasRun
      <4>5. QED
        BY <4>1, <4>3, <4>4
    <3>5. ASSUME cmd[k].op = "restart-run-all", NEW j \in JobsOf(k), job[j].kernel # 0
          PROVE  job[j].kernel > c.since
      <4>1. \E n \in 1..MaxBatch : j = <<k, n>>
        <5>1. CASE j \in Jobs /\ j[1] = k
          BY <5>1 DEF Jobs
        <5>2. CASE j = c.job /\ c.job # NoJob
          BY <3>1, <3>2, <3>5, <5>2 DEF ClientInv, Follows
        <5>3. QED
          BY <3>1, <5>1, <5>2 DEF JobsOf
      <4>2. QED
        BY <3>1, <3>5, <4>1 DEF ClientInv, Restarted
    <3>6. QED
      BY <3>1, <3>4, <3>5
  <2>2. QED
    BY <2>1 DEF ResultsAreFresh
<1>2. QED
  BY <1>1, InvAlways, PTL

-----------------------------------------------------------------------------
(* What a watch shows *)

LEMMA FlattensRest ==
  ASSUME NEW f, NEW s, Flattens(f, s), NEW n \in Nat, n # 0, n + 1 \in 1..Len(s)
  PROVE  f[n + 1] = f[n] \o s[n + 1]
<1>1. f[n + 1] = IF n = 0 THEN s[n + 1] ELSE f[n] \o s[n + 1]
  BY FlattensStep, Zenon
<1>2. QED
  BY <1>1

LEMMA Concat3 ==
  ASSUME NEW S, NEW a \in Seq(S), NEW b \in Seq(S), NEW c \in Seq(S)
  PROVE  /\ (a \o b) \o c = a \o (b \o c) /\ a \o b \in Seq(S)
         /\ a \o <<>> = a /\ <<>> \o a = a
BY ConcatAssociative, ConcatEmptySeq

(* Texts t are texts s, made longer at the end by d. *)
Split(s, t, d) ==
  /\ Len(s) <= Len(t) /\ Len(d) = Len(t)
  /\ \A i \in 1..Len(t) :
       /\ i < Len(s) => t[i] = s[i] /\ d[i] = <<>>
       /\ i = Len(s) => t[i] = s[i] \o d[i]
       /\ i > Len(s) => t[i] = d[i]

(* ... and so are the first n of them. *)
SplitAt(f, g, h, l, n) == IF n < l THEN g[n] = f[n] /\ h[n] = <<>> ELSE g[n] = f[l] \o h[n]

LEMMA SplitStep ==
  ASSUME NEW S, NEW l \in Nat, NEW m \in Nat, l <= m, NEW n \in 1..m, n + 1 \in 1..m,
         NEW f \in [1..l -> Seq(S)], NEW g \in [1..m -> Seq(S)], NEW h \in [1..m -> Seq(S)],
         NEW a \in Seq(S), NEW b \in Seq(S), NEW c \in Seq(S),
         n + 1 <= l => f[n + 1] = f[n] \o a, g[n + 1] = g[n] \o b, h[n + 1] = h[n] \o c,
         n + 1 < l => b = a /\ c = <<>>, n + 1 = l => b = a \o c, n + 1 > l => b = c,
         l # 0, SplitAt(f, g, h, l, n)
  PROVE  SplitAt(f, g, h, l, n + 1)
<1>0. \A x, y, z \in Seq(S) : (x \o y) \o z = x \o (y \o z)
  <2>1. TAKE x, y, z \in Seq(S)
  <2>2. QED
    BY ONLY ConcatAssociative, x \in Seq(S), y \in Seq(S), z \in Seq(S), SMTT(20)
<1>1. g[n] \in Seq(S) /\ h[n] \in Seq(S) /\ f[l] \in Seq(S) /\ (n < l => f[n] \in Seq(S)) /\ n \in Nat
  OBVIOUS
<1>2. CASE n + 1 < l
  <2>1. n < l /\ n + 1 <= l
    BY <1>1, <1>2
  <2>2. g[n] = f[n] /\ h[n] = <<>>
    BY <2>1 DEF SplitAt
  <2>3. g[n + 1] = f[n + 1]
    BY <1>2, <2>1, <2>2
  <2>4. h[n + 1] = <<>>
    <3>1. <<>> \o <<>> = <<>>
      OBVIOUS
    <3>2. QED
      BY <1>2, <2>2, <3>1
  <2>5. QED
    BY <1>2, <2>3, <2>4 DEF SplitAt
<1>3. CASE n + 1 = l
  <2>1. n < l /\ n + 1 <= l /\ ~(n + 1 < l)
    BY <1>1, <1>3
  <2>2. g[n] = f[n] /\ h[n] = <<>>
    BY <2>1 DEF SplitAt
  <2>3. h[n + 1] = c
    BY <2>2, Concat3
  <2>4. g[n + 1] = f[n] \o (a \o c)
    BY <1>3, <2>2
  <2>5. f[n] \in Seq(S)
    BY <1>1, <2>1
  <2>6. g[n + 1] = (f[n] \o a) \o c
    <3>1. (f[n] \o a) \o c = f[n] \o (a \o c)
      BY <1>0, <2>5, Zenon
    <3>2. QED
      BY <2>4, <3>1
  <2>7. f[l] = f[n] \o a
    BY <1>3, <2>1
  <2>8. QED
    BY <2>1, <2>3, <2>6, <2>7 DEF SplitAt
<1>4. CASE n + 1 > l
  <2>1. ~(n < l) /\ ~(n + 1 < l)
    BY <1>1, <1>4
  <2>2. g[n] = f[l] \o h[n]
    BY <2>1 DEF SplitAt
  <2>3. g[n + 1] = (f[l] \o h[n]) \o c
    BY <1>4, <2>2
  <2>4. g[n + 1] = f[l] \o (h[n] \o c)
    <3>1. (f[l] \o h[n]) \o c = f[l] \o (h[n] \o c)
      BY <1>0, <1>1, ZenonT(30)
    <3>2. QED
      BY <2>3, <3>1
  <2>5. QED
    BY <2>1, <2>4 DEF SplitAt
<1>5. n + 1 < l \/ n + 1 = l \/ n + 1 > l
  BY <1>1
<1>6. QED
  BY <1>2, <1>3, <1>4, <1>5, Zenon

LEMMA FlattenSplit ==
  ASSUME NEW S, NEW s \in Seq(Seq(S)), NEW t \in Seq(Seq(S)), NEW d \in Seq(Seq(S)), Split(s, t, d)
  PROVE  FlattenSeq(t) = FlattenSeq(s) \o FlattenSeq(d)
<1>1. PICK l \in Nat : l = Len(s)
  OBVIOUS
<1>2. PICK m \in Nat : m = Len(t)
  OBVIOUS
<1>3. /\ l <= m /\ Len(d) = m
      /\ \A i \in 1..m : /\ i < l => t[i] = s[i] /\ d[i] = <<>>
                         /\ i = l => t[i] = s[i] \o d[i]
                         /\ i > l => t[i] = d[i]
  BY <1>1, <1>2 DEF Split
<1>4. CASE l = 0
  <2>1. \A i \in 1..m : t[i] = d[i]
    BY <1>3, <1>4
  <2>2. d = t
    BY <1>2, <1>3, <2>1, SeqEqual
  <2>3. s = <<>>
    BY <1>1, <1>4, EmptySeq
  <2>4. FlattenSeq(d) \in Seq(S)
    BY FlattenTyped
  <2>5. QED
    BY <2>2, <2>3, <2>4, FlattenEmpty, ConcatEmptySeq
<1>5. CASE l # 0
  <2>1. s # <<>> /\ t # <<>> /\ d # <<>> /\ 1 \in 1..l /\ 1 \in 1..m /\ l \in 1..l
    BY <1>1, <1>2, <1>3, <1>5
  <2>2. PICK f \in [1..l -> Seq(S)] : Flattens(f, s)
    BY <1>1, FlattensExists
  <2>3. PICK g \in [1..m -> Seq(S)] : Flattens(g, t)
    BY <1>2, FlattensExists
  <2>4. PICK h \in [1..m -> Seq(S)] : Flattens(h, d)
    BY <1>3, FlattensExists
  <2>5. FlattenSeq(s) = f[l]
    BY <1>1, <2>1, <2>2, FlattenIs
  <2>6. FlattenSeq(t) = g[m]
    BY <1>2, <2>1, <2>3, FlattenIs
  <2>7. FlattenSeq(d) = h[m]
    BY <1>3, <2>1, <2>4, FlattenIs
  <2>8. SplitAt(f, g, h, l, 1)
    <3>1. g[1] = t[1]
      BY <1>2, <2>1, <2>3 DEF Flattens
    <3>2. h[1] = d[1]
      BY <1>3, <2>1, <2>4 DEF Flattens
    <3>3. f[1] = s[1]
      BY <1>1, <2>1, <2>2 DEF Flattens
    <3>4. CASE 1 < l
      BY <1>3, <2>1, <3>1, <3>2, <3>3, <3>4 DEF SplitAt
    <3>5. CASE ~(1 < l)
      <4>1. l = 1
        BY <1>5, <3>5
      <4>2. QED
        BY <1>3, <2>1, <3>1, <3>2, <3>3, <3>5, <4>1 DEF SplitAt
    <3>6. QED
      BY <3>4, <3>5
  <2>9. ASSUME NEW n \in 1..m, n + 1 \in 1..m, SplitAt(f, g, h, l, n) PROVE SplitAt(f, g, h, l, n + 1)
    <3>1. n \in Nat /\ n # 0 /\ l \in 1..m
      BY <1>3, <1>5
    <3>2. g[n + 1] = g[n] \o t[n + 1]
      BY <1>2, <2>3, <2>9, <3>1, FlattensRest
    <3>3. h[n + 1] = h[n] \o d[n + 1]
      <4>1. n + 1 \in 1..Len(d)
        BY <1>3, <2>9
      <4>2. QED
        BY <2>4, <3>1, <4>1, FlattensRest, Zenon
    <3>4. n + 1 <= l => f[n + 1] = f[n] \o s[n + 1] /\ s[n + 1] \in Seq(S)
      <4>1. SUFFICES ASSUME n + 1 <= l PROVE f[n + 1] = f[n] \o s[n + 1] /\ s[n + 1] \in Seq(S)
        OBVIOUS
      <4>2. n + 1 \in 1..l
        BY <3>1, <4>1
      <4>3. s[n + 1] \in Seq(S)
        BY <1>1, <4>2
      <4>4. QED
        BY <1>1, <2>2, <3>1, <4>2, <4>3, FlattensRest
    <3>5. t[n + 1] \in Seq(S) /\ d[n + 1] \in Seq(S)
      BY <1>2, <1>3, <2>9
    <3>6. PICK a \in Seq(S) : n + 1 <= l => a = s[n + 1]
      <4>1. CASE n + 1 <= l
        BY <3>4, <4>1
      <4>2. CASE ~(n + 1 <= l)
        BY <3>5, <4>2
      <4>3. QED
        BY <4>1, <4>2
    <3>7. /\ n + 1 < l => t[n + 1] = a /\ d[n + 1] = <<>>
          /\ n + 1 = l => t[n + 1] = a \o d[n + 1]
          /\ n + 1 > l => t[n + 1] = d[n + 1]
      <4>1. (n + 1 < l => n + 1 <= l) /\ (n + 1 = l => n + 1 <= l)
        BY <3>1
      <4>2. QED
        BY <1>3, <2>9, <3>6, <4>1
    <3>8. n + 1 <= l => f[n + 1] = f[n] \o a
      BY <3>4, <3>6
    <3>9. QED
      BY <1>3, <1>5, <2>9, <3>2, <3>3, <3>5, <3>7, <3>8, SplitStep
  <2> DEFINE T == {n \in Nat : n \in 1..m => SplitAt(f, g, h, l, n)}
  <2>10. 0 \in T
    OBVIOUS
  <2>11. ASSUME NEW n \in Nat, n \in T PROVE n + 1 \in T
    <3>1. SUFFICES ASSUME n + 1 \in 1..m PROVE SplitAt(f, g, h, l, n + 1)
      OBVIOUS
    <3>2. CASE n = 0
      BY <2>8, <3>2
    <3>3. CASE n # 0
      <4>1. n \in 1..m
        BY <3>1, <3>3
      <4>2. QED
        BY <2>9, <2>11, <3>1, <4>1
    <3>4. QED
      BY <3>2, <3>3
  <2> HIDE DEF T
  <2>12. m \in T /\ m \in 1..m /\ ~(m < l)
    <3>1. m \in 1..m /\ ~(m < l)
      BY <1>3, <2>1
    <3>2. \A n \in Nat : n \in T
      BY <2>10, <2>11, SetInduction
    <3>3. QED
      BY <3>1, <3>2
  <2>13. g[m] = f[l] \o h[m]
    BY <2>12 DEF T, SplitAt
  <2>14. QED
    BY <2>5, <2>6, <2>7, <2>13
<1>6. QED
  BY <1>4, <1>5

(* Outputs p are those that o have grown from. *)
GrownInto(p, o) == o.name # "display" /\ p.name = o.name /\ p.by = o.by /\ o.len > p.len
Earlier(p, o) ==
  /\ Len(p) <= Len(o)
  /\ \A i \in 1..Len(p) : p[i] = o[i] \/ (i = Len(p) /\ GrownInto(p[i], o[i]))

LEMMA TextTyped ==
  ASSUME NEW o \in Output
  PROVE  /\ Text(o) \in Seq(Shapes) /\ Len(Text(o)) = o.len /\ o.len \in Nat
         /\ \A i \in 1..o.len : Text(o)[i] = o.name
BY DEF Text, Output, Shapes

LEMMA OutputsAre ==
  ASSUME NEW o \in Outputs
  PROVE  /\ Len(o) \in Nat /\ DOMAIN o = 1..Len(o) /\ o \in Seq(Output)
         /\ \A i \in 1..Len(o) : o[i] \in Output
<1>1. PICK n \in 0..MaxText : o \in [1..n -> Output]
  BY DEF Outputs
<1>2. n \in Nat
  BY ClientAssumption
<1>3. Len(o) = n /\ o \in Seq(Output)
  BY <1>1, <1>2
<1>4. QED
  BY <1>1, <1>2, <1>3

LEMMA GrownText ==
  ASSUME NEW x \in Output, NEW y \in Output, GrownInto(x, y)
  PROVE  IsPrefix(Text(x), Text(y))
<1>1. /\ Text(x) \in Seq(Shapes) /\ Len(Text(x)) = x.len /\ x.len \in Nat
      /\ \A i \in 1..x.len : Text(x)[i] = x.name
  BY TextTyped
<1>2. /\ Text(y) \in Seq(Shapes) /\ Len(Text(y)) = y.len /\ y.len \in Nat
      /\ \A i \in 1..y.len : Text(y)[i] = y.name
  BY TextTyped
<1>3. x.name = y.name /\ x.len <= y.len
  BY <1>1, <1>2 DEF GrownInto
<1>4. PICK a : a = SubSeq(Text(x), 1, x.len)
  OBVIOUS
<1>5. PICK b : b = SubSeq(Text(y), 1, x.len)
  OBVIOUS
<1>6. /\ a \in Seq(Shapes) /\ Len(a) = x.len
      /\ \A i \in 1..x.len : a[i] = Text(x)[i]
  <2>1. 1 \in 1..Len(Text(x)) + 1 /\ x.len \in 0..Len(Text(x))
    BY <1>1
  <2>2. QED
    BY <1>1, <1>4, <2>1, SubSeqProperties
<1>7. /\ b \in Seq(Shapes) /\ Len(b) = x.len
      /\ \A i \in 1..x.len : b[i] = Text(y)[i]
  <2>1. 1 \in 1..Len(Text(y)) + 1 /\ x.len \in 0..Len(Text(y))
    BY <1>1, <1>2, <1>3
  <2>2. QED
    BY <1>1, <1>2, <1>5, <2>1, SubSeqProperties
<1>8. \A i \in 1..x.len : a[i] = b[i]
  <2>1. \A i \in 1..x.len : i \in 1..y.len
    BY <1>1, <1>2, <1>3
  <2>2. QED
    BY <1>1, <1>2, <1>3, <1>6, <1>7, <2>1
<1>9. a = b
  BY <1>6, <1>7, <1>8, SeqEqual
<1>10. QED
  BY <1>1, <1>2, <1>3, <1>4, <1>5, <1>9 DEF IsPrefix

LEMMA EarlierSame ==
  ASSUME NEW o \in Outputs
  PROVE  Earlier(o, o) /\ Earlier(<<>>, o) /\ Printed(<<>>) = <<>>
<1>1. Earlier(o, o) /\ Earlier(<<>>, o)
  BY OutputsAre DEF Earlier
<1>2. Printed(<<>>) = <<>>
  <2>1. [i \in DOMAIN <<>> |-> Text(<<>>[i])] = <<>>
    OBVIOUS
  <2>2. QED
    BY <2>1, FlattenEmpty DEF Printed
<1>3. QED
  BY <1>1, <1>2

LEMMA EarlierExtends ==
  ASSUME NEW p \in Outputs, NEW o \in Outputs, Earlier(p, o), NEW name \in Names, NEW j \in Jobs
  PROVE  Earlier(p, Extended(o, name, j))
<1>1. PICK n \in Nat : n = Len(o) /\ DOMAIN o = 1..n /\ o \in Seq(Output) /\ \A i \in 1..n : o[i] \in Output
  BY OutputsAre
<1>2. PICK m \in Nat : m = Len(p) /\ m <= n
  BY <1>1, OutputsAre DEF Earlier
<1>3. \A i \in 1..m : i \in 1..n /\ (p[i] = o[i] \/ (i = m /\ GrownInto(p[i], o[i])))
  BY <1>1, <1>2 DEF Earlier
<1>4. CASE n > 0 /\ name # "display" /\ o[n].name = name
  <2>1. n \in 1..n /\ o[n] \in Output
    BY <1>1, <1>4
  <2>2. PICK l : l = Longer(o[n])
    OBVIOUS
  <2>3. l.name # "display" /\ l.name = o[n].name /\ l.by = o[n].by /\ l.len = o[n].len + 1 /\ o[n].len \in Nat
    BY <1>4, <2>1, <2>2 DEF Longer, Output
  <2>4. Extended(o, name, j) = [o EXCEPT ![n] = l]
    BY <1>1, <1>4, <2>2 DEF Extended
  <2>5. Len([o EXCEPT ![n] = l]) = n /\ \A i \in 1..n : [o EXCEPT ![n] = l][i] = IF i = n THEN l ELSE o[i]
    BY <1>1
  <2>6. ASSUME NEW i \in 1..m
        PROVE  p[i] = [o EXCEPT ![n] = l][i] \/ (i = m /\ GrownInto(p[i], [o EXCEPT ![n] = l][i]))
    <3>1. CASE i = n
      <4>1. i = m /\ [o EXCEPT ![n] = l][i] = l
        BY <1>2, <1>3, <2>1, <2>5, <3>1
      <4>2. CASE p[i] = o[i]
        <5>1. GrownInto(p[i], l)
          BY <1>4, <2>3, <3>1, <4>2 DEF GrownInto
        <5>2. QED
          BY <4>1, <5>1
      <4>3. CASE GrownInto(p[i], o[i])
        <5>1. p[i].name = l.name /\ p[i].by = l.by /\ o[n].len > p[i].len /\ p[i].len \in Nat
          <6>1. p[i] \in Output
            BY <1>2, OutputsAre
          <6>2. QED
            BY <1>4, <2>3, <3>1, <4>3, <6>1 DEF GrownInto, Output
        <5>2. l.len > p[i].len
          BY <2>3, <5>1
        <5>3. GrownInto(p[i], l)
          BY <2>3, <5>1, <5>2 DEF GrownInto
        <5>4. QED
          BY <4>1, <5>3
      <4>4. QED
        BY <1>3, <4>2, <4>3
    <3>2. CASE i # n
      BY <1>3, <2>5, <3>2
    <3>3. QED
      BY <3>1, <3>2
  <2>7. QED
    BY <1>2, <2>4, <2>5, <2>6 DEF Earlier
<1>5. CASE ~(n > 0 /\ name # "display" /\ o[n].name = name)
  <2>1. PICK x : x = [name |-> name, by |-> j, len |-> 1]
    OBVIOUS
  <2>2. Extended(o, name, j) = Append(o, x)
    BY <1>1, <1>5, <2>1 DEF Extended
  <2>3. x \in Output
    BY <2>1, ClientAssumption DEF Output
  <2>4. Len(Append(o, x)) = n + 1 /\ \A i \in 1..n : Append(o, x)[i] = o[i]
    BY <1>1, <2>3, AppendProperties
  <2>5. m <= n + 1
    BY <1>2
  <2>6. QED
    BY <1>2, <1>3, <2>2, <2>4, <2>5 DEF Earlier
<1>6. QED
  BY <1>4, <1>5

(* The watch loop prints what is new, and no more. *)
LEMMA DeltasShow ==
  ASSUME NEW p \in Outputs, NEW o \in Outputs, Earlier(p, o), Strings(o)
  PROVE  Printed(p) \o Deltas(p, o) = Printed(o)
<1> DEFINE N == Shapes
           s == [i \in DOMAIN p |-> Text(p[i])]
           t == [i \in DOMAIN o |-> Text(o[i])]
           d == [i \in DOMAIN o |-> DeltaOf(p, o, i)]
<1>1. PICK n \in Nat : n = Len(o) /\ DOMAIN o = 1..n /\ \A i \in 1..n : o[i] \in Output
  BY OutputsAre
<1>2. PICK m \in Nat : m = Len(p) /\ m <= n /\ DOMAIN p = 1..m /\ \A i \in 1..m : p[i] \in Output
  BY <1>1, OutputsAre DEF Earlier
<1>3. s \in Seq(Seq(N)) /\ Len(s) = m /\ \A i \in 1..m : s[i] = Text(p[i])
  <2>1. \A i \in 1..m : Text(p[i]) \in Seq(N)
    BY <1>2, TextTyped
  <2>2. QED
    BY <1>2, <2>1
<1>4. t \in Seq(Seq(N)) /\ Len(t) = n /\ \A i \in 1..n : t[i] = Text(o[i])
  <2>1. \A i \in 1..n : Text(o[i]) \in Seq(N)
    BY <1>1, TextTyped
  <2>2. QED
    BY <1>1, <2>1
<1>5. \A i \in 1..n : Str(o[i]) = Text(o[i])
  BY <1>1, StrTyped DEF Strings
<1>6. ASSUME NEW i \in 1..n
      PROVE  /\ DeltaOf(p, o, i) \in Seq(N)
             /\ i < m => Text(o[i]) = Text(p[i]) /\ DeltaOf(p, o, i) = <<>>
             /\ i = m => Text(o[i]) = Text(p[i]) \o DeltaOf(p, o, i)
             /\ i > m => Text(o[i]) = DeltaOf(p, o, i)
  <2>1. Text(o[i]) \in Seq(N) /\ <<>> \in Seq(N) /\ DeltaOf(p, o, i) \in Seq(N)
    BY <1>1, TextTyped, DeltaTyped
  <2>2. CASE i > m
    <3>1. DeltaOf(p, o, i) = Text(o[i])
      BY <1>2, <1>5, <2>2 DEF DeltaOf
    <3>2. ~(i < m) /\ i # m
      BY <2>2
    <3>3. QED
      BY <2>1, <3>1, <3>2
  <2>3. CASE i <= m /\ p[i] = o[i]
    <3>1. DeltaOf(p, o, i) = <<>>
      BY <1>2, <2>3 DEF DeltaOf
    <3>2. Text(o[i]) \o <<>> = Text(o[i])
      BY <2>1, ConcatEmptySeq
    <3>3. ~(i > m)
      BY <2>3
    <3>4. QED
      BY <2>1, <2>3, <3>1, <3>2, <3>3
  <2>4. CASE i <= m /\ p[i] # o[i]
    <3>1. i = m /\ GrownInto(p[i], o[i]) /\ i \in 1..m
      BY <1>2, <2>4 DEF Earlier
    <3>2. p[i] \in Output /\ o[i] \in Output
      BY <1>1, <1>2, <3>1
    <3>3. IsPrefix(Text(p[i]), Text(o[i])) /\ Text(p[i]) \in Seq(N)
      BY <3>1, <3>2, GrownText, TextTyped
    <3>4. Str(p[i]) = Text(p[i]) /\ Str(o[i]) = Text(o[i])
      <4>1. o[i].name # "lines" /\ p[i].name = o[i].name
        BY <1>1, <3>1 DEF Strings, GrownInto
      <4>2. QED
        BY <3>2, <4>1, StrTyped
    <3>5. DeltaOf(p, o, i) = SubSeq(Text(o[i]), Len(Text(p[i])) + 1, Len(Text(o[i])))
      <4>1. GrownStr(p[i], o[i])
        BY <3>1, <3>3, <3>4 DEF GrownInto, GrownStr
      <4>2. ~(i > Len(p))
        BY <1>2, <2>4
      <4>3. QED
        BY <2>4, <3>4, <4>1, <4>2 DEF DeltaOf
    <3>6. Text(o[i]) = Text(p[i]) \o DeltaOf(p, o, i)
      BY <2>1, <3>3, <3>5, PrefixRest
    <3>7. ~(i < m) /\ ~(i > m)
      BY <2>4, <3>1
    <3>8. QED
      BY <2>1, <3>6, <3>7
  <2>5. i > m \/ i <= m
    OBVIOUS
  <2>6. QED
    BY <2>2, <2>3, <2>4, <2>5
<1>7. Deltas(p, o) = FlattenSeq(d)
  BY DeltasAre
<1>8. Printed(p) = FlattenSeq(s) /\ Printed(o) = FlattenSeq(t)
  BY DEF Printed
<1>9. d \in Seq(Seq(N)) /\ Len(d) = n /\ \A i \in 1..n : d[i] = DeltaOf(p, o, i)
  BY <1>1, <1>6
<1> HIDE DEF s, t, d
<1>10. Split(s, t, d)
  <2>1. \A i \in 1..n : i <= m => i \in 1..m
    OBVIOUS
  <2>2. ASSUME NEW i \in 1..n
        PROVE  /\ i < m => t[i] = s[i] /\ d[i] = <<>>
               /\ i = m => t[i] = s[i] \o d[i]
               /\ i > m => t[i] = d[i]
    <3>1. /\ t[i] = Text(o[i]) /\ d[i] = DeltaOf(p, o, i) /\ i \in Nat
          /\ (i < m \/ i = m => s[i] = Text(p[i]))
      BY <1>3, <1>4, <1>9, <2>1
    <3>2. QED
      BY <1>6, <3>1
  <2>3. QED
    BY <1>2, <1>3, <1>4, <1>9, <2>2 DEF Split
<1>11. QED
  BY <1>3, <1>4, <1>7, <1>8, <1>9, <1>10, FlattenSplit

(* Nothing is left out: every output that was read was shown whole, and the *)
(* last one last, so that what it grows by can follow.                      *)
ShownAt(shown, s) == \E a, b \in Seq(Shapes) : shown = (a \o s) \o b
ShownLast(shown, s) == \E a \in Seq(Shapes) : shown = a \o s
Whole(seen, shown) ==
  /\ \A i \in 1..Len(seen) : ShownAt(shown, Str(seen[i]))
  /\ (Len(seen) > 0) => ShownLast(shown, Str(seen[Len(seen)]))

LEMMA FlattenEmpties ==
  ASSUME NEW S, NEW e \in Seq(Seq(S)), \A i \in 1..Len(e) : e[i] = <<>>
  PROVE  FlattenSeq(e) = <<>>
<1>1. PICK u \in Seq(S) : u = FlattenSeq(e)
  BY FlattenTyped
<1>2. Split(e, e, e)
  <2>1. \A i \in 1..Len(e) : e[i] = e[i] \o e[i]
    <3>1. <<>> \o <<>> = <<>>
      OBVIOUS
    <3>2. QED
      BY <3>1
  <2>2. \A i \in 1..Len(e) : ~(i > Len(e))
    OBVIOUS
  <2>3. QED
    BY <2>1, <2>2 DEF Split
<1>3. u = u \o u
  BY <1>1, <1>2, FlattenSplit
<1>4. QED
  BY <1>1, <1>3, ConcatEqualIffEmpty

LEMMA FlattenOne ==
  ASSUME NEW S, NEW s \in Seq(Seq(S)), Len(s) = 1
  PROVE  FlattenSeq(s) = s[1]
<1>1. PICK f \in [1..Len(s) -> Seq(S)] : Flattens(f, s)
  BY FlattensExists
<1>2. s # <<>> /\ 1 \in 1..Len(s)
  <2>1. 1 \in 1..Len(s)
    OBVIOUS
  <2>2. s # <<>>
    <3>1. Len(<<>>) = 0 /\ 0 # 1
      OBVIOUS
    <3>2. QED
      BY <3>1, Zenon
  <2>3. QED
    BY <2>1, <2>2
<1>3. FlattenSeq(s) = f[1]
  BY <1>1, <1>2, FlattenIs
<1>4. QED
  BY <1>1, <1>2, <1>3, FlattensFirst, Zenon

(* The flattened sequence is what is before element i, element i, and what  *)
(* is behind it.                                                            *)
Around(d, i, a, b) ==
  /\ FlattenSeq(d) = (a \o d[i]) \o b
  /\ (\A j \in 1..i - 1 : d[j] = <<>>) => (a = <<>>)
  /\ (i = Len(d)) => (b = <<>>)

LEMMA FlattenAround ==
  ASSUME NEW S, NEW d \in Seq(Seq(S)), NEW i \in 1..Len(d)
  PROVE  \E a, b \in Seq(S) : Around(d, i, a, b)
<1> DEFINE before == [j \in 1..i - 1 |-> d[j]]
           upto == [j \in 1..i |-> d[j]]
           after == [j \in 1..Len(d) |-> IF j <= i THEN <<>> ELSE d[j]]
<1>1. /\ before \in Seq(Seq(S)) /\ Len(before) = i - 1 /\ \A j \in 1..i - 1 : before[j] = d[j]
      /\ upto \in Seq(Seq(S)) /\ Len(upto) = i /\ \A j \in 1..i : upto[j] = d[j]
      /\ after \in Seq(Seq(S)) /\ Len(after) = Len(d)
      /\ \A j \in 1..Len(d) : after[j] = IF j <= i THEN <<>> ELSE d[j]
  <2>1. \A j \in 1..Len(d) : d[j] \in Seq(S)
    OBVIOUS
  <2>2. <<>> \in Seq(S) /\ i - 1 \in Nat /\ i \in Nat /\ Len(d) \in Nat
    OBVIOUS
  <2>3. before \in Seq(Seq(S)) /\ Len(before) = i - 1
    BY <2>1, <2>2
  <2>4. upto \in Seq(Seq(S)) /\ Len(upto) = i
    BY <2>1, <2>2
  <2>5. after \in Seq(Seq(S)) /\ Len(after) = Len(d)
    BY <2>1, <2>2
  <2>6. QED
    BY <2>3, <2>4, <2>5
<1> HIDE DEF before, upto, after
<1>2. PICK a \in Seq(S) : a = FlattenSeq(before)
  BY <1>1, FlattenTyped
<1>3. PICK b \in Seq(S) : b = FlattenSeq(after)
  BY <1>1, FlattenTyped
<1>4. FlattenSeq(upto) = a \o d[i]
  <2>1. Len(upto) = Len(before) + 1 /\ \A j \in 1..Len(before) : upto[j] = before[j]
    BY <1>1
  <2>2. upto[Len(before) + 1] = d[i]
    BY <1>1
  <2>3. CASE i = 1
    <3>1. before = <<>> /\ Len(upto) = 1 /\ upto[1] = d[1] /\ d[1] \in Seq(S)
      BY <1>1, <2>3
    <3>2. a = <<>> /\ FlattenSeq(upto) = d[1]
      BY <1>1, <1>2, <3>1, FlattenEmpty, FlattenOne
    <3>3. QED
      BY <2>3, <3>1, <3>2, ConcatEmptySeq
  <2>4. CASE i # 1
    <3>1. before # <<>>
      BY <1>1, <2>4
    <3>2. QED
      BY <1>1, <1>2, <2>1, <2>2, <3>1, FlattenExtends, ZenonT(30)
  <2>5. QED
    BY <2>3, <2>4
<1>5. FlattenSeq(d) = FlattenSeq(upto) \o b
  <2>1. Split(upto, d, after)
    <3>1. ASSUME NEW j \in 1..Len(d)
          PROVE  /\ j < i => d[j] = upto[j] /\ after[j] = <<>>
                 /\ j = i => d[j] = upto[j] \o after[j]
                 /\ j > i => d[j] = after[j]
      <4>1. d[j] \in Seq(S) /\ d[j] \o <<>> = d[j]
        BY ConcatEmptySeq
      <4>2. CASE j <= i
        <5>1. j \in 1..i /\ ~(j > i)
          BY <4>2
        <5>2. upto[j] = d[j] /\ after[j] = <<>>
          BY <1>1, <4>2, <5>1
        <5>3. QED
          BY <4>1, <5>1, <5>2
      <4>3. CASE j > i
        <5>1. ~(j <= i) /\ ~(j < i) /\ j # i
          BY <4>3
        <5>2. after[j] = d[j]
          BY <1>1, <5>1
        <5>3. QED
          BY <5>1, <5>2
      <4>4. j <= i \/ j > i
        OBVIOUS
      <4>5. QED
        BY <4>2, <4>3, <4>4
    <3>2. Len(upto) = i /\ i <= Len(d) /\ Len(after) = Len(d)
      BY <1>1
    <3>3. QED
      BY <3>1, <3>2, Zenon DEF Split
  <2>2. QED
    BY <1>1, <1>3, <2>1, FlattenSplit
<1>6. ASSUME \A j \in 1..i - 1 : d[j] = <<>> PROVE a = <<>>
  <2>1. \A j \in 1..Len(before) : before[j] = <<>>
    BY <1>1, <1>6
  <2>2. QED
    BY <1>1, <1>2, <2>1, FlattenEmpties
<1>7. ASSUME i = Len(d) PROVE b = <<>>
  <2>1. \A j \in 1..Len(after) : after[j] = <<>>
    BY <1>1, <1>7
  <2>2. QED
    BY <1>1, <1>3, <2>1, FlattenEmpties
<1>8. Around(d, i, a, b)
  BY <1>4, <1>5, <1>6, <1>7, Zenon DEF Around
<1>9. QED
  BY <1>8

LEMMA ConcatFacts ==
  ASSUME NEW S, NEW x \in Seq(S), NEW y \in Seq(S), NEW z \in Seq(S)
  PROVE  /\ x \o (y \o z) = (x \o y) \o z
         /\ x \o y \in Seq(S)
         /\ x \o <<>> = x /\ <<>> \o x = x
<1>1. x \o (y \o z) = (x \o y) \o z
  BY ONLY ConcatAssociative, x \in Seq(S), y \in Seq(S), z \in Seq(S), SMTT(20)
<1>2. QED
  BY <1>1, ConcatProperties, ConcatEmptySeq

LEMMA Concat4 ==
  ASSUME NEW S, NEW u \in Seq(S), NEW a \in Seq(S), NEW s \in Seq(S), NEW b \in Seq(S)
  PROVE  /\ u \o ((a \o s) \o b) = ((u \o a) \o s) \o b
         /\ u \o a \in Seq(S)
<1>1. PICK x \in Seq(S) : x = a \o s
  BY ConcatProperties
<1>2. u \o (x \o b) = (u \o x) \o b
  BY ONLY ConcatAssociative, u \in Seq(S), x \in Seq(S), b \in Seq(S), SMTT(20)
<1>3. u \o (a \o s) = (u \o a) \o s
  BY ONLY ConcatAssociative, u \in Seq(S), a \in Seq(S), s \in Seq(S), SMTT(20)
<1>4. u \o a \in Seq(S)
  BY ConcatProperties
<1>5. QED
  BY <1>1, <1>2, <1>3, <1>4

LEMMA ShownMore ==
  ASSUME NEW shown \in Seq(Shapes), NEW more \in Seq(Shapes), NEW s \in Seq(Shapes)
  PROVE  /\ ShownAt(shown, s) => ShownAt(shown \o more, s)
         /\ ShownLast(shown, s) => ShownLast(shown \o <<>>, s)
         /\ ShownLast(shown, s) => ShownAt(shown, s)
<1>1. ASSUME ShownAt(shown, s) PROVE ShownAt(shown \o more, s)
  <2>1. PICK a, b \in Seq(Shapes) : shown = (a \o s) \o b
    BY <1>1 DEF ShownAt
  <2>2. (a \o s) \in Seq(Shapes) /\ (b \o more) \in Seq(Shapes)
    BY Concat3
  <2>3. shown \o more = (a \o s) \o (b \o more)
    BY <2>1, <2>2, Concat3, SMTT(30)
  <2>4. QED
    BY <2>2, <2>3 DEF ShownAt
<1>2. ASSUME ShownLast(shown, s) PROVE ShownLast(shown \o <<>>, s)
  BY <1>2, Concat3
<1>3. ASSUME ShownLast(shown, s) PROVE ShownAt(shown, s)
  <2>1. PICK a \in Seq(Shapes) : shown = a \o s
    BY <1>3 DEF ShownLast
  <2>2. shown = (a \o s) \o <<>> /\ <<>> \in Seq(Shapes)
    BY <2>1, Concat3
  <2>3. QED
    BY <2>2 DEF ShownAt
<1>4. QED
  BY <1>1, <1>2, <1>3

LEMMA ShownNew ==
  ASSUME NEW shown \in Seq(Shapes), NEW a \in Seq(Shapes), NEW s \in Seq(Shapes), NEW b \in Seq(Shapes)
  PROVE  /\ ShownAt(shown \o ((a \o s) \o b), s)
         /\ (b = <<>>) => ShownLast(shown \o ((a \o s) \o b), s)
<1>1. PICK u \in Seq(Shapes) : u = shown \o a
  BY ConcatProperties
<1>2. shown \o ((a \o s) \o b) = ((shown \o a) \o s) \o b
  BY ONLY Concat4, shown \in Seq(Shapes), a \in Seq(Shapes), s \in Seq(Shapes), b \in Seq(Shapes), SMTT(60)
<1>3. PICK t \in Seq(Shapes) : t = u \o s
  BY ConcatProperties
<1>4. t \o <<>> = t
  BY ConcatEmptySeq
<1>5. QED
  BY <1>1, <1>2, <1>3, <1>4 DEF ShownAt, ShownLast

LEMMA ShownGrown ==
  ASSUME NEW shown \in Seq(Shapes), NEW s \in Seq(Shapes), NEW d \in Seq(Shapes), NEW b \in Seq(Shapes),
         ShownLast(shown, s)
  PROVE  /\ ShownAt(shown \o ((<<>> \o d) \o b), s \o d)
         /\ (b = <<>>) => ShownLast(shown \o ((<<>> \o d) \o b), s \o d)
<1>1. PICK u \in Seq(Shapes) : shown = u \o s
  BY DEF ShownLast
<1>2. PICK t \in Seq(Shapes) : t = s \o d
  BY ConcatProperties
<1>3. PICK e \in Seq(Shapes) : e = d \o b
  BY ConcatProperties
<1>4. shown \o ((<<>> \o d) \o b) = (u \o t) \o b
  <2>1. (<<>> \o d) \o b = e
    BY <1>3, ConcatEmptySeq
  <2>2. (u \o s) \o e = u \o (s \o e)
    BY ONLY ConcatAssociative, u \in Seq(Shapes), s \in Seq(Shapes), e \in Seq(Shapes), SMTT(20)
  <2>3. (s \o d) \o b = s \o (d \o b)
    BY ONLY ConcatAssociative, s \in Seq(Shapes), d \in Seq(Shapes), b \in Seq(Shapes), SMTT(20)
  <2>4. u \o (t \o b) = (u \o t) \o b
    BY ONLY ConcatAssociative, u \in Seq(Shapes), t \in Seq(Shapes), b \in Seq(Shapes), SMTT(60)
  <2>5. QED
    BY <1>1, <1>2, <1>3, <2>1, <2>2, <2>3, <2>4, Zenon
<1>5. PICK v \in Seq(Shapes) : v = u \o t
  BY ConcatProperties
<1>6. v \o <<>> = v
  BY ConcatEmptySeq
<1>7. QED
  BY <1>2, <1>4, <1>5, <1>6 DEF ShownAt, ShownLast

LEMMA DeltasWhole ==
  ASSUME NEW p \in Outputs, NEW o \in Outputs, Earlier(p, o), NEW shown \in Seq(Shapes), Whole(p, shown)
  PROVE  Whole(o, shown \o Deltas(p, o))
<1> DEFINE d == [i \in DOMAIN o |-> DeltaOf(p, o, i)]
<1>1. PICK n \in Nat : n = Len(o) /\ DOMAIN o = 1..n /\ \A i \in 1..n : o[i] \in Output
  BY OutputsAre
<1>2. PICK m \in Nat : m = Len(p) /\ m <= n /\ DOMAIN p = 1..m /\ \A i \in 1..m : p[i] \in Output
  BY <1>1, OutputsAre DEF Earlier
<1>3. \A i \in 1..n : DeltaOf(p, o, i) \in Seq(Shapes)
  BY <1>1, DeltaTyped
<1>4. d \in Seq(Seq(Shapes)) /\ Len(d) = n /\ \A i \in 1..n : d[i] = DeltaOf(p, o, i)
  BY <1>1, <1>3
<1>5. Deltas(p, o) = FlattenSeq(d)
  BY DeltasAre
<1> HIDE DEF d
<1>6. PICK more \in Seq(Shapes) : more = FlattenSeq(d)
  BY <1>4, FlattenTyped
<1>7. ASSUME NEW i \in 1..m, p[i] = o[i] PROVE d[i] = <<>>
  <2>1. i \in 1..n /\ ~(i > Len(p))
    BY <1>2
  <2>2. QED
    BY <1>4, <1>7, <2>1 DEF DeltaOf
<1>8. \A j \in 1..m : j < m => d[j] = <<>>
  BY <1>2, <1>7 DEF Earlier
<1>9. ASSUME NEW i \in 1..n
      PROVE  ShownAt(shown \o more, Str(o[i])) /\ (i = n => ShownLast(shown \o more, Str(o[i])))
  <2>1. PICK a, b \in Seq(Shapes) : Around(d, i, a, b)
    BY <1>4, FlattenAround
  <2>2. more = (a \o d[i]) \o b /\ (i = n => b = <<>>)
    BY <1>4, <1>6, <2>1 DEF Around
  <2>3. o[i] \in Output /\ Str(o[i]) \in Seq(Shapes) /\ d[i] \in Seq(Shapes)
    BY <1>1, <1>3, <1>4, StrTyped
  <2>4. CASE i <= m /\ p[i] = o[i]
    <3>1. i \in 1..m
      BY <2>4
    <3>2. ShownAt(shown, Str(o[i]))
      BY <1>2, <2>4, <3>1 DEF Whole
    <3>3. ASSUME i = n PROVE ShownLast(shown \o more, Str(o[i]))
      <4>1. m = n /\ m > 0 /\ i = m
        BY <1>2, <2>4, <3>3
      <4>2. ShownLast(shown, Str(o[i]))
        BY <1>2, <2>4, <4>1 DEF Whole
      <4>3. \A j \in 1..Len(d) : d[j] = <<>>
        <5>1. d[m] = <<>>
          BY <1>7, <2>4, <3>1, <4>1
        <5>2. \A j \in 1..m : j < m \/ j = m
          OBVIOUS
        <5>3. QED
          BY <1>4, <1>8, <4>1, <5>1, <5>2
      <4>4. more = <<>>
        BY <1>4, <1>6, <4>3, FlattenEmpties
      <4>5. QED
        BY <2>3, <4>2, <4>4, ShownMore
    <3>4. QED
      BY <2>3, <3>2, <3>3, ShownMore
  <2>5. CASE i <= m /\ p[i] # o[i]
    <3>1. i \in 1..m /\ i = m /\ GrownInto(p[i], o[i]) /\ m > 0
      BY <1>2, <2>5 DEF Earlier
    <3>2. p[i] \in Output /\ Str(p[i]) \in Seq(Shapes)
      BY <1>2, <3>1, StrTyped
    <3>3. ~(i > Len(p)) /\ d[i] = DeltaOf(p, o, i)
      BY <1>2, <1>4, <2>5
    <3>4. CASE GrownStr(p[i], o[i])
      <4>1. d[i] = SubSeq(Str(o[i]), Len(Str(p[i])) + 1, Len(Str(o[i])))
        BY <2>5, <3>3, <3>4 DEF DeltaOf
      <4>2. Str(o[i]) = Str(p[i]) \o d[i]
        BY <2>3, <3>2, <3>4, <4>1, PrefixRest DEF GrownStr
      <4>3. ShownLast(shown, Str(p[i]))
        BY <1>2, <3>1 DEF Whole
      <4>4. a = <<>>
        <5>1. \A j \in 1..i - 1 : j \in 1..m /\ j < m
          BY <3>1
        <5>2. QED
          BY <1>8, <2>1, <5>1 DEF Around
      <4>5. QED
        BY <2>2, <2>3, <3>2, <4>2, <4>3, <4>4, ShownGrown
    <3>5. CASE ~GrownStr(p[i], o[i])
      <4>1. d[i] = Str(o[i])
        BY <2>5, <3>3, <3>5 DEF DeltaOf
      <4>2. QED
        BY <2>2, <2>3, <4>1, ShownNew
    <3>6. QED
      BY <3>4, <3>5
  <2>6. CASE i > m
    <3>1. d[i] = Str(o[i])
      BY <1>2, <1>4, <2>6 DEF DeltaOf
    <3>2. QED
      BY <2>2, <2>3, <3>1, ShownNew
  <2>7. i <= m \/ i > m
    OBVIOUS
  <2>8. QED
    BY <2>4, <2>5, <2>6, <2>7
<1>10. Len(o) > 0 => Len(o) \in 1..n
  BY <1>1
<1>11. QED
  BY <1>1, <1>5, <1>6, <1>9, <1>10 DEF Whole

LEMMA StringsBefore ==
  ASSUME NEW p \in Outputs, NEW o \in Outputs, Earlier(p, o), Strings(o)
  PROVE  Strings(p)
<1>1. PICK n \in Nat : n = Len(o) /\ DOMAIN o = 1..n
  BY OutputsAre
<1>2. PICK m \in Nat : m = Len(p) /\ m <= n /\ DOMAIN p = 1..m
  BY <1>1, OutputsAre DEF Earlier
<1>3. ASSUME NEW i \in 1..m PROVE p[i].name # "lines"
  <2>1. i \in 1..n /\ o[i].name # "lines"
    BY <1>1, <1>2 DEF Strings
  <2>2. p[i].name = o[i].name
    BY <1>2 DEF Earlier, GrownInto
  <2>3. QED
    BY <2>1, <2>2
<1>4. QED
  BY <1>2, <1>3 DEF Strings

(* What the loop has shown of the outputs it has read *)
ShownOf(seen, shown) == Whole(seen, shown) /\ (Strings(seen) => shown = Printed(seen))

LEMMA ShownNone == ShownOf(<<>>, <<>>)
<1>1. Printed(<<>>) = <<>>
  <2>1. [i \in DOMAIN <<>> |-> Text(<<>>[i])] = <<>>
    OBVIOUS
  <2>2. QED
    BY <2>1, FlattenEmpty DEF Printed
<1>2. QED
  BY <1>1 DEF ShownOf, Whole

LEMMA ShownOn ==
  ASSUME NEW p \in Outputs, NEW o \in Outputs, Earlier(p, o), NEW shown \in Seq(Shapes), ShownOf(p, shown)
  PROVE  ShownOf(o, shown \o Deltas(p, o))
<1>1. Whole(o, shown \o Deltas(p, o))
  BY DeltasWhole DEF ShownOf
<1>2. ASSUME Strings(o) PROVE shown \o Deltas(p, o) = Printed(o)
  <2>1. shown = Printed(p)
    BY <1>2, StringsBefore DEF ShownOf
  <2>2. QED
    BY <1>2, <2>1, DeltasShow
<1>3. QED
  BY <1>1, <1>2 DEF ShownOf

LEMMA WithinShown ==
  ASSUME NEW s \in Seq(Shapes), NEW t \in Seq(Shapes), ShownAt(t, s)
  PROVE  Within(s, t)
<1>1. PICK a, b \in Seq(Shapes) : t = (a \o s) \o b
  BY DEF ShownAt
<1>2. PICK n \in Nat : n = Len(a)
  OBVIOUS
<1>3. PICK m \in Nat : m = Len(s)
  OBVIOUS
<1>4. PICK u \in Seq(Shapes) : u = a \o s
  BY ConcatProperties
<1>5. Len(u) = n + m /\ \A i \in 1..m : u[n + i] = s[i]
  BY <1>2, <1>3, <1>4
<1>6. PICK l \in Nat : l = Len(t) /\ n + m <= l /\ \A i \in 1..n + m : t[i] = u[i]
  BY <1>1, <1>4, <1>5
<1>7. PICK x : x = SubSeq(t, n + 1, n + m)
  OBVIOUS
<1>8. x \in Seq(Shapes) /\ Len(x) = m /\ \A i \in 1..m : x[i] = t[n + i]
  <2>1. n + 1 \in 1..l + 1 /\ n + m \in n..l /\ (n + m) - (n + 1) + 1 = m
    BY <1>6
  <2>2. QED
    BY <1>6, <1>7, <2>1, SubSeqProperties
<1>9. \A i \in 1..m : x[i] = s[i]
  <2>1. \A i \in 1..m : n + i \in 1..n + m
    OBVIOUS
  <2>2. QED
    BY <1>5, <1>6, <1>8, <2>1
<1>10. x = s
  BY <1>3, <1>8, <1>9, SeqEqual
<1>11. n \in 0..(l - m)
  BY <1>6
<1>12. QED
  BY <1>3, <1>6, <1>7, <1>10, <1>11 DEF Within

(* A cell is never put back: what a command names and the document has, it  *)
(* had.                                                                     *)
LEMMA InsertsNew ==
  ASSUME TypeInv, IInv, NEW k \in Clients, cl[k].pc = "insert", NEW j \in 1..MaxBatch, j >= cl[k].i
  PROVE  ~Born(<<k, j>>) /\ ~InDoc(<<k, j>>)
<1>1. PICK c \in Client : c = cl[k] /\ ClientInv(k, c) /\ c.pc = "insert"
  BY DEF TypeInv, TypeOK, IInv
<1>2. c.i \in 1..MaxBatch /\ MaxBatch \in Nat
  BY ClientAssumption DEF Client
<1>3. <<k, j>> \notin ToSet(OldCells)
  BY OwnJobs, ClientAssumption
<1>4. <<k, j>> \notin c.inserted
  <2>1. SUFFICES ASSUME <<k, j>> \in c.inserted PROVE FALSE
    OBVIOUS
  <2>2. PICK n \in 1..c.i : <<k, j>> = <<k, n>>
    BY <1>1, <2>1 DEF ClientInv, Inserted
  <2>3. j = c.i
    BY <1>1, <1>2, <2>2
  <2>4. QED
    BY <1>1, <2>1, <2>3 DEF ClientInv, Inserted
<1>5. \A o \in Clients : o # k => <<k, j>> \notin cl[o].inserted
  BY DEF IInv, ClientInv, Inserted
<1>6. ~Born(<<k, j>>)
  BY <1>1, <1>3, <1>4, <1>5 DEF Born
<1>7. QED
  BY <1>6, DocFacts DEF IInv, DocInv

LEMMA DocAdds ==
  ASSUME TypeInv, NEW p \in 1..Len(doc) + 1, NEW x \in CellIds, doc' = InsertAt(doc, p, x)
  PROVE  \A y : InDoc(y)' => InDoc(y) \/ y = x
<1>1. doc \in Seq(CellIds) /\ Len(doc) \in Nat /\ DOMAIN doc = 1..Len(doc)
  BY DEF TypeInv, TypeOK
<1>2. /\ DOMAIN doc' = 1..Len(doc) + 1
      /\ doc'[p] = x
      /\ \A n \in 1..Len(doc) + 1 : n # p => doc'[n] = doc[IF n < p THEN n ELSE n - 1]
  BY DocInsertAt
<1>3. \A n \in 1..Len(doc) + 1 : n # p => (IF n < p THEN n ELSE n - 1) \in 1..Len(doc)
  BY <1>1
<1>4. ASSUME NEW y, InDoc(y)' PROVE InDoc(y) \/ y = x
  <2>1. PICK n \in 1..Len(doc) + 1 : doc'[n] = y
    BY <1>2, <1>4 DEF InDoc, ToSet
  <2>2. QED
    BY <1>1, <1>2, <1>3, <2>1 DEF InDoc, ToSet
<1>5. QED
  BY <1>4

LEMMA DocDrops ==
  ASSUME TypeInv, NEW p \in 1..Len(doc), doc' = RemoveAt(doc, p)
  PROVE  \A y : InDoc(y)' => InDoc(y)
<1>1. doc \in Seq(CellIds) /\ Len(doc) \in Nat /\ DOMAIN doc = 1..Len(doc)
  BY DEF TypeInv, TypeOK
<1>2. /\ DOMAIN doc' = 1..Len(doc) - 1
      /\ \A n \in 1..Len(doc) - 1 : doc'[n] = doc[IF n < p THEN n ELSE n + 1]
  <2>1. /\ RemoveAt(doc, p) \in Seq(CellIds) /\ Len(RemoveAt(doc, p)) = Len(doc) - 1
        /\ \A n \in 1..Len(doc) - 1 : RemoveAt(doc, p)[n] = IF n < p THEN doc[n] ELSE doc[n + 1]
    BY <1>1, RemoveAtProperties
  <2>2. DOMAIN RemoveAt(doc, p) = 1..Len(doc) - 1
    BY <1>1, <2>1
  <2>3. QED
    BY <2>1, <2>2
<1>3. \A n \in 1..Len(doc) - 1 : (IF n < p THEN n ELSE n + 1) \in 1..Len(doc)
  BY <1>1
<1>4. ASSUME NEW y, InDoc(y)' PROVE InDoc(y)
  <2>1. PICK n \in 1..Len(doc) - 1 : doc'[n] = y
    BY <1>2, <1>4 DEF InDoc, ToSet
  <2>2. QED
    BY <1>1, <1>2, <1>3, <2>1 DEF InDoc, ToSet
<1>5. QED
  BY <1>4

LEMMA ClientDoc ==
  ASSUME TypeInv, IInv, NEW k \in Clients, ClientStep(k)
  PROVE  \A x : Born(x) /\ InDoc(x)' => InDoc(x)
<1>1. CASE Inserts(k)
  <2>1. CASE doc' = doc
    BY <2>1 DEF InDoc
  <2>2. CASE doc' # doc
    <3>1. Place(k) \in 1..Len(doc) + 1 /\ <<k, cl[k].i>> \in CellIds /\ doc' = InsertAt(doc, Place(k), <<k, cl[k].i>>)
      BY <1>1, <2>2, InsertsWhere
    <3>2. cl[k].i \in 1..MaxBatch /\ cl[k].i >= cl[k].i /\ cl[k].pc = "insert"
      BY <1>1, ClientAssumption DEF TypeInv, TypeOK, Client, Inserts
    <3>3. ~Born(<<k, cl[k].i>>)
      BY <3>2, InsertsNew
    <3>4. QED
      BY <3>1, <3>3, DocAdds
  <2>3. QED
    BY <2>1, <2>2
<1>2. CASE Deletes(k)
  <2>1. doc' = doc \/ \E n \in 1..Len(doc) : doc' = RemoveAt(doc, n)
    BY <1>2, DeletesWhere
  <2>2. QED
    BY <2>1, DocDrops DEF InDoc
<1>3. CASE ~(Inserts(k) \/ Deletes(k))
  <2>1. doc' = doc
    BY <1>3 DEF ClientStep, Types, Checks, Lists, Runs, RunRefused, Joins, Polls, Looks, Takes, Decides,
                BatchGoes, Reports, Stops, Opens, OpenRefused, serverVars
  <2>2. QED
    BY <2>1 DEF InDoc
<1>4. QED
  BY <1>1, <1>2, <1>3

(* A job that is made is new. *)
LEMMA RunsFirst ==
  ASSUME TypeInv, IInv, NEW k \in Clients, Runs(k)
  PROVE  OwnJob(k) \in Jobs /\ job[OwnJob(k)].status = "none" /\ job[OwnJob(k)].at = 0 /\ job[OwnJob(k)].kernel = 0
<1>1. PICK c \in Client : c = cl[k] /\ ClientInv(k, c) /\ c.pc = "run"
  BY DEF TypeInv, TypeOK, IInv, Runs
<1>2. c.i \in 1..MaxBatch /\ MaxBatch \in Nat /\ NoJob \notin Jobs
  BY ClientAssumption DEF Client
<1>3. PICK j \in Jobs : j = <<k, c.i>>
  BY <1>2, OwnJobs
<1>4. c.job # j
  BY <1>1, <1>2, <1>3 DEF ClientInv, Follows
<1>5. job[j].status = "none"
  BY <1>1, <1>2, <1>3, <1>4 DEF ClientInv, Owns
<1>6. QED
  BY <1>1, <1>3, <1>5 DEF IInv, JobFacts, OwnJob

-----------------------------------------------------------------------------
(* The inductive invariant of the watch loop.  Whoever ran a cell that was  *)
(* inserted has it among the cells he has come to, and before that it has   *)
(* no outputs.                                                              *)
OutInv == \A x \in CellIds : x \notin ToSet(OldCells) /\ runs[x] = {} => out[x] = <<>>
RanInv == \A j \in Jobs : \A x \in CellIds : j \in runs[x] => \E n \in 1..job[j].at : job[j].cells[n] = x

(* Before the job is there, nothing has been shown.  Of a cell that only    *)
(* the job runs, what was shown is what was read, which the outputs have    *)
(* grown from; and once the job's end was read, what the loop has come to   *)
(* since is what there is.                                                  *)
Early == {"insert", "type", "check", "list", "run", "stop", "open", "delete", "join"}
Sees(c, x) == x \in ToSet(c.cells) \ ToSet(OldCells) /\ RunBy(x, c.job) /\ Once(x, c.cells)
Complete(k, c, x) ==
  /\ cmd[k].form = "watch" /\ c.status \in {"succeeded", "failed"} /\ c.exit # "error" /\ InDoc(x)
  /\ c.pc \in {"look", "take", "decide", "report", "done"}
  /\ c.pc \in {"look", "take"} => x \notin ToSet(c.todo)
Shows(k, c, x) ==
  /\ ShownOf(c.seen[x], c.shown[x]) /\ Earlier(c.seen[x], out[x])
  /\ Complete(k, c, x) => c.seen[x] = out[x]
WatchOf(k, c) ==
  ~IsBatch(k) =>
    /\ c.pc \in Early => c.seen = NoOutputs /\ c.shown = NoOutputs
    /\ \A x \in CellIds : Sees(c, x) => Shows(k, c, x)
WatchInv == OutInv /\ RanInv /\ \A k \in Clients : WatchOf(k, cl[k])

LEMMA ShowsNothing ==
  ASSUME NEW k \in Clients, NEW c \in Client, NEW x \in CellIds, out[x] \in Outputs,
         c.seen = NoOutputs, c.shown = NoOutputs, ~Complete(k, c, x)
  PROVE  Shows(k, c, x)
<1>1. c.seen[x] = <<>> /\ c.shown[x] = <<>>
  BY DEF NoOutputs
<1>2. ShownOf(<<>>, <<>>) /\ Earlier(<<>>, out[x])
  BY EarlierSame, ShownNone
<1>3. QED
  BY <1>1, <1>2 DEF Shows

LEMMA WatchFresh ==
  ASSUME TypeOK, NEW k \in Clients, NEW c \in Client, c.seen = NoOutputs, c.shown = NoOutputs,
         \A x \in CellIds : ~Complete(k, c, x)
  PROVE  WatchOf(k, c)
<1>1. \A x \in CellIds : out[x] \in Outputs
  BY DEF TypeOK
<1>2. \A x \in CellIds : Shows(k, c, x)
  BY <1>1, ShowsNothing
<1>3. QED
  BY <1>2 DEF WatchOf

LEMMA WatchInit == Init => WatchInv
<1> SUFFICES ASSUME Init PROVE WatchInv
  OBVIOUS
<1>1. TypeOK
  BY TypeInit DEF TypeInv
<1>2. OutInv /\ RanInv
  BY DEF Init, OutInv, RanInv
<1>3. ASSUME NEW k \in Clients PROVE WatchOf(k, cl[k])
  <2>1. PICK c \in Client : c = cl[k]
    BY <1>1 DEF TypeOK
  <2>2. c.seen = NoOutputs /\ c.shown = NoOutputs /\ c.status = "none"
    BY <2>1 DEF Init
  <2>3. \A x \in CellIds : ~Complete(k, c, x)
    BY <2>2 DEF Complete
  <2>4. QED
    BY <1>1, <2>1, <2>2, <2>3, WatchFresh
<1>4. QED
  BY <1>2, <1>3 DEF WatchInv

(* A client that shows nothing more *)
LEMMA WatchMoves ==
  ASSUME NEW k \in Clients, NEW c, NEW d, WatchOf(k, c), UNCHANGED <<out, runs, cmd>>,
         d.cells = c.cells, d.job = c.job, d.seen = c.seen, d.shown = c.shown, d.pc \in Early => c.pc \in Early,
         \A x \in CellIds : Sees(c, x) /\ Complete(k, d, x)' => Complete(k, c, x)
  PROVE  WatchOf(k, d)'
<1>1. IsBatch(k)' <=> IsBatch(k)
  BY DEF IsBatch
<1>2. ASSUME NEW x \in CellIds, Sees(d, x)', ~IsBatch(k) PROVE Shows(k, d, x)'
  <2>1. Sees(c, x)
    BY <1>2 DEF Sees, RunBy
  <2>2. Shows(k, c, x)
    BY <1>2, <2>1 DEF WatchOf
  <2>3. QED
    BY <2>1, <2>2 DEF Shows
<1>3. QED
  BY <1>1, <1>2 DEF WatchOf

(* Clients run nothing. *)
LEMMA ClientLeaves ==
  ASSUME TypeInv, NEW k \in Clients, ClientStep(k) \/ DeadlinePasses(k)
  PROVE  /\ out' = out /\ runs' = runs /\ cmd' = cmd
         /\ \A o \in Clients \ {k} : cl'[o] = cl[o]
<1>1. out' = out /\ runs' = runs /\ cmd' = cmd
  BY DEF ClientStep, DeadlinePasses, Inserts, Types, Checks, Deletes, Lists, Runs, RunRefused, Joins, Polls, Looks,
         Takes, Decides, BatchGoes, Reports, Stops, Opens, OpenRefused, serverVars
<1>2. cl' = cl \/ \E d : Goes(k, d)
  <2>1. CASE Inserts(k)
    BY <2>1 DEF Inserts, Raises
  <2>2. CASE Types(k)
    BY <2>2 DEF Types, Raises
  <2>3. CASE Checks(k)
    BY <2>3 DEF Checks, Raises
  <2>4. CASE Deletes(k)
    BY <2>4 DEF Deletes, Raises
  <2>5. CASE Lists(k)
    BY <2>5 DEF Lists, Raises
  <2>6. CASE Runs(k)
    BY <2>6 DEF Runs, Raises
  <2>7. CASE RunRefused(k)
    BY <2>7 DEF RunRefused, Raises
  <2>8. CASE Joins(k)
    BY <2>8 DEF Joins, Raises
  <2>9. CASE Polls(k)
    BY <2>9 DEF Polls, Raises
  <2>10. CASE Looks(k)
    BY <2>10 DEF Looks, Raises
  <2>11. CASE Takes(k)
    BY <2>11 DEF Takes, Raises
  <2>12. CASE Decides(k)
    BY <2>12 DEF Decides, Raises
  <2>13. CASE BatchGoes(k)
    BY <2>13 DEF BatchGoes, Raises
  <2>14. CASE Reports(k)
    BY <2>14 DEF Reports, Raises
  <2>15. CASE Stops(k)
    BY <2>15 DEF Stops, Raises
  <2>16. CASE Opens(k)
    BY <2>16 DEF Opens, Raises
  <2>17. CASE OpenRefused(k)
    BY <2>17 DEF OpenRefused, Raises
  <2>18. CASE DeadlinePasses(k)
    BY <2>18 DEF DeadlinePasses, Raises
  <2>19. QED
    BY <2>1, <2>2, <2>3, <2>4, <2>5, <2>6, <2>7, <2>8, <2>9, <2>10, <2>11, <2>12, <2>13, <2>14, <2>15, <2>16,
       <2>17, <2>18 DEF ClientStep
<1>3. \A o \in Clients \ {k} : cl'[o] = cl[o]
  BY <1>2 DEF Goes, TypeInv, TypeOK
<1>4. QED
  BY <1>1, <1>3

LEMMA RanStays ==
  ASSUME TypeInv, IInv, OutInv, RanInv, NEW k \in Clients, ClientStep(k) \/ DeadlinePasses(k)
  PROVE  OutInv' /\ RanInv'
<1>1. out' = out /\ runs' = runs
  BY ClientLeaves
<1>2. job \in [Jobs -> Job]
  BY DEF TypeInv, TypeOK
<1>3. CASE Runs(k)
  <2>1. OwnJob(k) \in Jobs /\ job[OwnJob(k)].at = 0
    BY <1>3, RunsFirst
  <2>2. \A j \in Jobs \ {OwnJob(k)} : job'[j] = job[j]
    BY <1>2, <1>3, <2>1 DEF Runs, Queues
  <2>3. \A x \in CellIds : OwnJob(k) \notin runs[x]
    BY <2>1 DEF RanInv
  <2>4. QED
    BY <1>1, <2>2, <2>3 DEF OutInv, RanInv
<1>4. CASE ~Runs(k)
  <2>1. ASSUME NEW j \in Jobs PROVE job'[j].at = job[j].at /\ job'[j].cells = job[j].cells
    <3>1. CASE Stops(k)
      BY <1>2, <3>1 DEF Stops, Job
    <3>2. CASE ~Stops(k)
      BY <1>4, <3>2 DEF ClientStep, DeadlinePasses, Inserts, Types, Checks, Deletes, Lists, RunRefused, Joins, Polls,
                        Looks, Takes, Decides, BatchGoes, Reports, Opens, OpenRefused, serverVars
    <3>3. QED
      BY <3>1, <3>2
  <2>2. QED
    BY <1>1, <2>1 DEF OutInv, RanInv
<1>5. QED
  BY <1>3, <1>4

(* Before its job is there, a client has no status. *)
LEMMA EarlyIdle ==
  ASSUME TypeInv, IInv, NEW k \in Clients, ~IsBatch(k), cl[k].pc \in Early
  PROVE  cl[k].job = NoJob /\ cl[k].status = "none"
<1>1. PICK c \in Client : c = cl[k] /\ AtStep(k, c) /\ Follows(k, c)
  BY DEF TypeInv, TypeOK, IInv, ClientInv
<1>2. c.i = 1
  <2>1. c.i \in 1..MaxBatch /\ MaxBatch \in Nat
    BY <1>1, ClientAssumption DEF Client
  <2>2. Len(cmd[k].kinds) \in Nat
    BY DEF TypeInv, TypeOK, Command
  <2>3. QED
    BY <1>1, <2>1, <2>2 DEF AtStep, IsBatch
<1>3. CASE c.pc \in {"insert", "type", "run"}
  <2>1. SUFFICES ASSUME c.job # NoJob PROVE FALSE
    BY <1>1 DEF Follows
  <2>2. c.job # <<k, 1>> /\ cmd[k].op # "await"
    BY <1>1, <1>2, <1>3, <2>1 DEF Follows, AtStep
  <2>3. \E n \in 1..1 : c.job = <<k, n>>
    BY <1>1, <1>2, <2>1, <2>2 DEF Follows
  <2>4. QED
    BY <2>2, <2>3
<1>4. CASE c.pc \notin {"insert", "type", "run"}
  BY <1>1, <1>4 DEF Follows, Early
<1>5. QED
  BY <1>1, <1>3, <1>4

(* The steps before the loop *)
LEMMA WatchBegins ==
  ASSUME TypeInv, TypeInv', IInv, NEW k \in Clients, ~IsBatch(k), cl[k].pc \in Early,
         WatchOf(k, cl[k]), ClientStep(k)
  PROVE  WatchOf(k, cl[k])'
<1>1. PICK c \in Client : c = cl[k] /\ c.pc \in Early /\ c.seen = NoOutputs /\ c.shown = NoOutputs
                          /\ c.status = "none" /\ c.job = NoJob
  BY EarlyIdle DEF TypeInv, TypeOK, WatchOf
<1>2. PICK d \in Client : d = cl'[k]
  BY DEF TypeInv, TypeOK
<1>3. cl \in [Clients -> Client] /\ cmd' = cmd
  BY ClientLeaves DEF TypeInv, TypeOK
<1>4. d.seen = c.seen /\ d.shown = c.shown /\ (d.status \in {"none", "queued"} \/ d.pc = "poll" \/ cmd[k].form # "watch")
  <2>1. \A x : Goes(k, x) => d = x
    BY <1>2, <1>3 DEF Goes
  <2>2. Raises(k) => d = Exit(c, "error")
    BY <1>1, <2>1 DEF Raises
  <2>3. \A code : d = Exit(c, code) => d.seen = c.seen /\ d.shown = c.shown /\ d.status = c.status
    BY <1>1 DEF Exit, Client
  <2>4. CASE Inserts(k)
    <3>1. \/ Raises(k)
          \/ Goes(k, [c EXCEPT !.pc = "type", !.inserted = c.inserted \cup {<<k, c.i>>}])
      BY <1>1, <2>4 DEF Inserts
    <3>2. QED
      BY <1>1, <2>1, <2>2, <2>3, <3>1 DEF Client
  <2>5. CASE Types(k)
    <3>1. \/ Raises(k)
          \/ Goes(k, Continued(k, c))
          \/ Goes(k, [c EXCEPT !.pc = "run", !.cells = <<<<k, c.i>>>>])
      BY <1>1, <2>5 DEF Types
    <3>2. QED
      BY <1>1, <2>1, <2>2, <2>3, <3>1 DEF Client, Continued
  <2>6. CASE Checks(k)
    <3>1. \/ Raises(k)
          \/ Goes(k, [[c EXCEPT !.pc = "delete"] EXCEPT !.cells = cmd[k].cells])
          \/ Goes(k, [[c EXCEPT !.pc = "run"] EXCEPT !.cells = cmd[k].cells])
      BY <1>1, <2>6 DEF Checks, At
    <3>2. QED
      BY <1>1, <2>1, <2>2, <2>3, <3>1 DEF Client
  <2>7. CASE Lists(k)
    <3>1. \/ Raises(k)
          \/ Goes(k, [[c EXCEPT !.pc = "run"] EXCEPT !.cells = CodeCells])
      BY <1>1, <2>7 DEF Lists, At, CodeCells
    <3>2. QED
      BY <1>1, <2>1, <2>2, <2>3, <3>1 DEF Client
  <2>8. CASE Deletes(k)
    <3>1. \/ Raises(k)
          \/ Goes(k, Exit(c, "ok"))
      BY <1>1, <2>8 DEF Deletes
    <3>2. QED
      BY <1>1, <2>1, <2>2, <2>3, <3>1 DEF Client
  <2>9. CASE Joins(k)
    <3> DEFINE r == job[cmd[k].of]
               w == [c EXCEPT !.job = cmd[k].of, !.status = r.status, !.cells = r.cells]
    <3>1. Raises(k) \/ Goes(k, Waiting(k, w))
      BY <1>1, <2>9 DEF Joins
    <3>2. PICK p \in {"decide", "poll"} : Waiting(k, w) = [w EXCEPT !.pc = p] /\ (cmd[k].form = "watch" => p = "poll")
      BY DEF Waiting
    <3>3. \A st, cells : [[c EXCEPT !.job = cmd[k].of, !.status = st, !.cells = cells] EXCEPT !.pc = p] =
                          [c EXCEPT !.job = cmd[k].of, !.status = st, !.cells = cells, !.pc = p]
      BY <1>1 DEF Client
    <3>4. [w EXCEPT !.pc = p] = [c EXCEPT !.job = cmd[k].of, !.status = r.status, !.cells = r.cells, !.pc = p]
      BY <3>3
    <3>5. CASE Raises(k)
      BY <1>1, <2>2, <2>3, <3>5
    <3>6. CASE Goes(k, Waiting(k, w))
      <4>1. d = [c EXCEPT !.job = cmd[k].of, !.status = r.status, !.cells = r.cells, !.pc = p]
        BY <2>1, <3>2, <3>4, <3>6
      <4> HIDE DEF r
      <4>2. d.seen = c.seen /\ d.shown = c.shown /\ d.pc = p
        BY <1>1, <4>1 DEF Client
      <4>3. QED
        BY <3>2, <4>2
    <3>7. QED
      BY <3>1, <3>5, <3>6
  <2>10. CASE Runs(k)
    <3>1. \/ Goes(k, Waiting(k, [c EXCEPT !.job = OwnJob(k), !.status = "queued"]))
          \/ Goes(k, [[c EXCEPT !.job = OwnJob(k), !.status = "queued"] EXCEPT !.pc = "report"])
      BY <1>1, <2>10 DEF Runs
    <3>2. QED
      BY <1>1, <2>1, <2>2, <2>3, <3>1, ZenonT(30) DEF Client, Waiting
  <2>11. CASE Stops(k)
    <3>1. \/ Goes(k, Exit(c, "ok"))
          \/ Goes(k, [[c EXCEPT !.pc = "open"] EXCEPT !.since = kernels])
      BY <1>1, <2>11 DEF Stops, At
    <3>2. QED
      BY <1>1, <2>1, <2>2, <2>3, <3>1 DEF Client
  <2>12. CASE Opens(k)
    <3>1. \/ Goes(k, Exit(c, "ok"))
          \/ Goes(k, [c EXCEPT !.pc = "list"])
      BY <1>1, <2>12 DEF Opens, At
    <3>2. QED
      BY <1>1, <2>1, <2>2, <2>3, <3>1 DEF Client
  <2>13. CASE RunRefused(k) \/ OpenRefused(k)
    BY <1>1, <2>2, <2>3, <2>13 DEF RunRefused, OpenRefused
  <2>14. QED
    BY <1>1, <2>4, <2>5, <2>6, <2>7, <2>8, <2>9, <2>10, <2>11, <2>12, <2>13
       DEF ClientStep, Early, Polls, Looks, Takes, Decides, BatchGoes, Reports
<1>5. \A x \in CellIds : ~Complete(k, d, x)'
  BY <1>3, <1>4 DEF Complete
<1>6. TypeOK'
  BY DEF TypeInv
<1>7. WatchOf(k, d)'
  <2>1. d.seen = NoOutputs /\ d.shown = NoOutputs
    BY <1>1, <1>4
  <2>2. \A x \in CellIds : out'[x] \in Outputs
    BY <1>6 DEF TypeOK
  <2>3. ASSUME NEW x \in CellIds PROVE Shows(k, d, x)'
    <3>1. d.seen[x] = <<>> /\ d.shown[x] = <<>>
      BY <2>1 DEF NoOutputs
    <3>2. ShownOf(<<>>, <<>>) /\ Earlier(<<>>, out'[x])
      BY ShownNone, <2>2, EarlierSame
    <3>3. QED
      BY <1>5, <3>1, <3>2 DEF Shows
  <2>4. QED
    BY <2>1, <2>3 DEF WatchOf
<1>8. QED
  BY <1>2, <1>7

LEMMA ExitSees ==
  ASSUME NEW c \in Client, NEW code
  PROVE  Exit(c, code).seen = c.seen /\ Exit(c, code).shown = c.shown
BY DEF Exit, Client

(* The end of the loop, and of the command *)
LEMMA WatchEnds ==
  ASSUME TypeInv, IInv, NEW k \in Clients, ~IsBatch(k), WatchOf(k, cl[k]),
         Decides(k) \/ Reports(k), UNCHANGED <<doc, out, runs, cmd>>
  PROVE  WatchOf(k, cl[k])'
<1>1. PICK c \in Client : c = cl[k] /\ WatchOf(k, c)
  BY DEF TypeInv, TypeOK
<1>2. cl \in [Clients -> Client]
  BY DEF TypeInv, TypeOK
<1>3. \A x : Goes(k, x) => cl'[k] = x
  BY <1>2 DEF Goes
<1>4. \/ /\ Raises(k)
      \/ \E p \in {"poll", "report"} : Goes(k, [c EXCEPT !.pc = p]) /\ c.pc = "decide"
                                       /\ (p = "poll" => c.status \notin {"succeeded", "failed"})
      \/ /\ Reports(k)
         /\ Goes(k, ExitByJob([c EXCEPT !.current = Current(k), !.count = 0]))
  <2>1. CASE Decides(k)
    BY <1>1, <2>1 DEF Decides, Ended, Terminal
  <2>2. CASE Reports(k)
    BY <1>1, <2>2 DEF Reports
  <2>3. QED
    BY <2>1, <2>2
<1>5. CASE Raises(k)
  <2>1. PICK d : d = Exit(c, "error") /\ d = cl'[k]
    BY <1>1, <1>3, <1>5 DEF Raises
  <2>2. d.pc = "done" /\ d.exit = "error" /\ d.cells = c.cells /\ d.job = c.job /\ d.seen = c.seen /\ d.shown = c.shown
    BY <2>1, ExitFields, ExitSees
  <2>3. ~(d.pc \in Early) /\ \A x \in CellIds : ~Complete(k, d, x)'
    BY <2>2 DEF Early, Complete
  <2>4. WatchOf(k, d)'
    BY <1>1, <2>2, <2>3, WatchMoves
  <2>5. QED
    BY <2>1, <2>4
<1>6. ASSUME NEW p \in {"poll", "report"}, Goes(k, [c EXCEPT !.pc = p]), c.pc = "decide",
             p = "poll" => c.status \notin {"succeeded", "failed"}
      PROVE  WatchOf(k, cl[k])'
  <2>1. PICK d : d = [c EXCEPT !.pc = p] /\ d = cl'[k]
    BY <1>3, <1>6
  <2>2. /\ d.pc = p /\ d.exit = c.exit /\ d.status = c.status /\ d.cells = c.cells /\ d.job = c.job
        /\ d.seen = c.seen /\ d.shown = c.shown
    BY <1>1, <2>1 DEF Client
  <2>3. ~(d.pc \in Early)
    BY <2>2 DEF Early
  <2>4. ASSUME NEW x \in CellIds, Complete(k, d, x)' PROVE Complete(k, c, x)
    BY <1>6, <2>2, <2>4 DEF Complete, InDoc
  <2>5. WatchOf(k, d)'
    BY <1>1, <2>2, <2>3, <2>4, WatchMoves
  <2>6. QED
    BY <2>1, <2>5
<1>7. CASE Reports(k) /\ Goes(k, ExitByJob([c EXCEPT !.current = Current(k), !.count = 0]))
  <2>1. PICK d : d = ExitByJob([c EXCEPT !.current = Current(k), !.count = 0]) /\ d = cl'[k]
    BY <1>3, <1>7
  <2>2. /\ d.pc = "done" /\ d.status = c.status /\ d.cells = c.cells /\ d.job = c.job
        /\ d.seen = c.seen /\ d.shown = c.shown
    BY <1>1, <2>1 DEF Client, ExitByJob, Exit
  <2>3. c.pc = "report" /\ ~(d.pc \in Early)
    BY <1>1, <1>7, <2>2 DEF Reports, Early
  <2>4. c.exit # "error"
    BY <1>1, <2>3 DEF IInv, ClientInv, AtStep
  <2>5. ASSUME NEW x \in CellIds, Complete(k, d, x)' PROVE Complete(k, c, x)
    BY <2>2, <2>3, <2>4, <2>5 DEF Complete, InDoc
  <2>6. WatchOf(k, d)'
    BY <1>1, <2>2, <2>3, <2>5, WatchMoves
  <2>7. QED
    BY <2>1, <2>6
<1>8. QED
  BY <1>4, <1>5, <1>6, <1>7

LEMMA TodoRest ==
  ASSUME NEW todo \in Seq(CellIds), todo # <<>>, NEW x, x \notin ToSet(Tail(todo)), x # Head(todo)
  PROVE  x \notin ToSet(todo)
<1>1. SUFFICES ASSUME NEW n \in 1..Len(todo), todo[n] = x PROVE FALSE
  BY DEF ToSet
<1>2. n # 1
  BY <1>1
<1>3. n - 1 \in 1..Len(Tail(todo)) /\ Tail(todo)[n - 1] = x
  BY <1>1, <1>2
<1>4. DOMAIN Tail(todo) = 1..Len(Tail(todo))
  OBVIOUS
<1>5. x \in ToSet(Tail(todo))
  BY <1>3, <1>4 DEF ToSet
<1>6. QED
  BY <1>5

(* A round of the loop begins, or passes over a cell. *)
LEMMA WatchLooks ==
  ASSUME TypeInv, IInv, NEW k \in Clients, ~IsBatch(k), WatchOf(k, cl[k]),
         Polls(k) \/ Looks(k), UNCHANGED <<doc, out, runs, cmd>>
  PROVE  WatchOf(k, cl[k])'
<1>1. PICK c \in Client : c = cl[k] /\ WatchOf(k, c)
  BY DEF TypeInv, TypeOK
<1>2. cl \in [Clients -> Client]
  BY DEF TypeInv, TypeOK
<1>3. \A x : Goes(k, x) => cl'[k] = x
  BY <1>2 DEF Goes
<1>4. CASE Raises(k)
  <2>1. PICK d : d = Exit(c, "error") /\ d = cl'[k]
    BY <1>1, <1>3, <1>4 DEF Raises
  <2>2. d.pc = "done" /\ d.exit = "error" /\ d.cells = c.cells /\ d.job = c.job /\ d.seen = c.seen /\ d.shown = c.shown
    BY <2>1, ExitFields, ExitSees
  <2>3. ~(d.pc \in Early) /\ \A x \in CellIds : ~Complete(k, d, x)'
    BY <2>2 DEF Early, Complete
  <2>4. WatchOf(k, d)'
    BY <1>1, <2>2, <2>3, WatchMoves
  <2>5. QED
    BY <2>1, <2>4
<1>5. CASE Polls(k) /\ ~Raises(k)
  <2>1. PICK p \in {"look", "decide"}, todo \in {c.cells, <<>>} :
          /\ Goes(k, [c EXCEPT !.status = job[c.job].status, !.pc = p, !.todo = todo])
          /\ cmd[k].form = "watch" => p = "look" /\ todo = c.cells
    <3>1. CASE cmd[k].form = "watch"
      BY <1>1, <1>5, <3>1 DEF Polls
    <3>2. CASE cmd[k].form # "watch"
      BY <1>1, <1>5, <3>2 DEF Polls
    <3>3. QED
      BY <3>1, <3>2
  <2>2. PICK d : d = [c EXCEPT !.status = job[c.job].status, !.pc = p, !.todo = todo] /\ d = cl'[k]
    BY <1>3, <2>1
  <2>3. d.pc = p /\ d.todo = todo /\ d.cells = c.cells /\ d.job = c.job /\ d.seen = c.seen /\ d.shown = c.shown
    BY <1>1, <2>2 DEF Client
  <2>4. ~(d.pc \in Early)
    BY <2>3 DEF Early
  <2>5. ASSUME NEW x \in CellIds, Sees(c, x), Complete(k, d, x)' PROVE Complete(k, c, x)
    BY <2>1, <2>3, <2>5 DEF Complete, Sees
  <2>6. WatchOf(k, d)'
    BY <1>1, <2>3, <2>4, <2>5, WatchMoves
  <2>7. QED
    BY <2>2, <2>6
<1>6. CASE Looks(k)
  <2>1. PICK p \in {"decide", "take", "look"}, todo \in {c.todo, Tail(c.todo)} :
          /\ Goes(k, [c EXCEPT !.pc = p, !.todo = todo]) /\ c.pc = "look"
          /\ p = "decide" => c.todo = <<>>
          /\ p = "take" => todo = c.todo
          /\ p = "look" => c.todo # <<>> /\ todo = Tail(c.todo) /\ ~InDoc(Head(c.todo))
    <3>1. CASE c.todo = <<>>
      <4>1. [c EXCEPT !.pc = "decide"] = [c EXCEPT !.pc = "decide", !.todo = c.todo]
        BY <1>1 DEF Client
      <4>2. Goes(k, [c EXCEPT !.pc = "decide"]) /\ c.pc = "look"
        BY <1>1, <1>6, <3>1 DEF Looks, At
      <4>3. QED
        BY <3>1, <4>1, <4>2
    <3>2. CASE c.todo # <<>> /\ InDoc(Head(c.todo))
      <4>1. [c EXCEPT !.pc = "take"] = [c EXCEPT !.pc = "take", !.todo = c.todo]
        BY <1>1 DEF Client
      <4>2. Goes(k, [c EXCEPT !.pc = "take"]) /\ c.pc = "look"
        BY <1>1, <1>6, <3>2 DEF Looks, At
      <4>3. QED
        BY <4>1, <4>2
    <3>3. CASE c.todo # <<>> /\ ~InDoc(Head(c.todo))
      <4>1. [c EXCEPT !.todo = Tail(c.todo)] = [c EXCEPT !.pc = "look", !.todo = Tail(c.todo)]
        BY <1>1, <1>6 DEF Client, Looks
      <4>2. Goes(k, [c EXCEPT !.todo = Tail(c.todo)]) /\ c.pc = "look"
        BY <1>1, <1>6, <3>3 DEF Looks
      <4>3. QED
        BY <3>3, <4>1, <4>2
    <3>4. QED
      BY <3>1, <3>2, <3>3
  <2>2. PICK d : d = [c EXCEPT !.pc = p, !.todo = todo] /\ d = cl'[k]
    BY <1>3, <2>1
  <2>3. /\ d.pc = p /\ d.todo = todo /\ d.exit = c.exit /\ d.status = c.status /\ d.cells = c.cells /\ d.job = c.job
        /\ d.seen = c.seen /\ d.shown = c.shown /\ c.todo \in Seq(CellIds)
    BY <1>1, <2>2 DEF Client
  <2>4. ~(d.pc \in Early)
    BY <2>3 DEF Early
  <2>5. ASSUME NEW x \in CellIds, Complete(k, d, x)' PROVE x \notin ToSet(c.todo)
    <3>1. CASE p = "decide"
      BY <2>1, <3>1 DEF ToSet
    <3>2. CASE p = "take"
      BY <2>1, <2>3, <2>5, <3>2 DEF Complete
    <3>3. CASE p = "look"
      <4>1. x \notin ToSet(Tail(c.todo)) /\ x # Head(c.todo)
        BY <2>1, <2>3, <2>5, <3>3 DEF Complete, InDoc
      <4>2. QED
        BY <2>1, <2>3, <3>3, <4>1, TodoRest
    <3>4. QED
      BY <3>1, <3>2, <3>3
  <2>6. ASSUME NEW x \in CellIds, Complete(k, d, x)' PROVE Complete(k, c, x)
    BY <2>1, <2>3, <2>5, <2>6 DEF Complete, InDoc
  <2>7. WatchOf(k, d)'
    BY <1>1, <2>3, <2>4, <2>6, WatchMoves
  <2>8. QED
    BY <2>2, <2>7
<1>7. QED
  BY <1>4, <1>5, <1>6

(* It reads a cell's outputs and prints what is new. *)
LEMMA WatchTakes ==
  ASSUME TypeInv, IInv, NEW k \in Clients, ~IsBatch(k), WatchOf(k, cl[k]),
         Takes(k), UNCHANGED <<doc, out, runs, cmd>>
  PROVE  WatchOf(k, cl[k])'
<1>1. PICK c \in Client : c = cl[k] /\ WatchOf(k, c) /\ c.pc = "take"
  BY DEF TypeInv, TypeOK, Takes
<1>2. cl \in [Clients -> Client] /\ out \in [CellIds -> Outputs]
  BY DEF TypeInv, TypeOK
<1>3. \A x : Goes(k, x) => cl'[k] = x
  BY <1>2 DEF Goes
<1>4. CASE Raises(k)
  <2>1. PICK d : d = Exit(c, "error") /\ d = cl'[k]
    BY <1>1, <1>3, <1>4 DEF Raises
  <2>2. d.pc = "done" /\ d.exit = "error" /\ d.cells = c.cells /\ d.job = c.job /\ d.seen = c.seen /\ d.shown = c.shown
    BY <2>1, ExitFields, ExitSees
  <2>3. ~(d.pc \in Early) /\ \A x \in CellIds : ~Complete(k, d, x)'
    BY <2>2 DEF Early, Complete
  <2>4. WatchOf(k, d)'
    BY <1>1, <2>2, <2>3, WatchMoves
  <2>5. QED
    BY <2>1, <2>4
<1>5. CASE ~Raises(k)
  <2> DEFINE cell == Head(c.todo)
             shown == [c.shown EXCEPT ![cell] = @ \o Deltas(c.seen[cell], out[cell])]
             seen == [c.seen EXCEPT ![cell] = out[cell]]
  <2>1. Goes(k, [c EXCEPT !.pc = "look", !.todo = Tail(c.todo), !.shown = shown, !.seen = seen])
    BY <1>1, <1>5 DEF Takes
  <2>2. c.todo \in Seq(CellIds) /\ c.todo # <<>>
    BY <1>1 DEF TypeInv, Typed, Client
  <2>3. cell \in CellIds
    BY <2>2
  <2>4. c.seen \in [CellIds -> Outputs] /\ DOMAIN c.shown = CellIds
    BY <1>1 DEF Client
  <2>5. /\ seen[cell] = out[cell] /\ shown[cell] = c.shown[cell] \o Deltas(c.seen[cell], out[cell])
        /\ \A x \in CellIds : x # cell => seen[x] = c.seen[x] /\ shown[x] = c.shown[x]
    BY <2>3, <2>4
  <2> HIDE DEF cell, shown, seen
  <2>6. PICK d : d = [c EXCEPT !.pc = "look", !.todo = Tail(c.todo), !.shown = shown, !.seen = seen] /\ d = cl'[k]
    BY <1>3, <2>1
  <2>7. /\ d.pc = "look" /\ d.todo = Tail(c.todo) /\ d.exit = c.exit /\ d.status = c.status /\ d.cells = c.cells
        /\ d.job = c.job /\ d.seen = seen /\ d.shown = shown
    BY <1>1, <2>6 DEF Client
  <2>8. ASSUME NEW x \in CellIds, Sees(d, x)', ~IsBatch(k) PROVE Shows(k, d, x)'
    <3>1. Sees(c, x)
      BY <2>7, <2>8 DEF Sees, RunBy
    <3>2. Shows(k, c, x)
      BY <1>1, <2>8, <3>1 DEF WatchOf
    <3>3. CASE x = cell
      <4>1. c.seen[x] \in Outputs /\ out[x] \in Outputs /\ c.shown[x] \in Seq(Shapes)
        BY <1>1, <1>2, <2>4 DEF Client
      <4>2. Earlier(c.seen[x], out[x]) /\ ShownOf(c.seen[x], c.shown[x])
        BY <3>2 DEF Shows
      <4>3. ShownOf(out[x], c.shown[x] \o Deltas(c.seen[x], out[x]))
        BY <4>1, <4>2, ShownOn
      <4>4. d.seen[x] = out'[x] /\ ShownOf(d.seen[x], d.shown[x])
        BY <2>5, <2>7, <3>3, <4>3
      <4>5. Earlier(d.seen[x], out'[x])
        BY <4>1, <4>4, EarlierSame
      <4>6. QED
        BY <4>4, <4>5 DEF Shows
    <3>4. CASE x # cell
      <4>1. d.seen[x] = c.seen[x] /\ d.shown[x] = c.shown[x]
        BY <2>5, <2>7, <3>4
      <4>2. ASSUME Complete(k, d, x)' PROVE Complete(k, c, x)
        <5>1. x \notin ToSet(c.todo)
          BY <2>2, <2>7, <3>4, <4>2, TodoRest DEF Complete, cell
        <5>2. QED
          BY <1>1, <2>7, <4>2, <5>1 DEF Complete, InDoc
      <4>3. QED
        BY <3>2, <4>1, <4>2 DEF Shows
    <3>5. QED
      BY <3>3, <3>4
  <2>9. WatchOf(k, d)'
    BY <2>7, <2>8 DEF WatchOf, Early, IsBatch
  <2>10. QED
    BY <2>6, <2>9
<1>6. QED
  BY <1>4, <1>5

(* What another does *)
LEMMA WatchStays ==
  ASSUME TypeInv, IInv, NEW k \in Clients, WatchOf(k, cl[k]), UNCHANGED <<out, runs, cmd>>, cl'[k] = cl[k],
         \A x : Born(x) /\ InDoc(x)' => InDoc(x)
  PROVE  WatchOf(k, cl[k])'
<1>1. PICK c \in Client : c = cl[k] /\ WatchOf(k, c) /\ \A x \in ToSet(c.cells) : Born(x)
  BY DEF TypeInv, TypeOK, IInv, ClientInv, Follows
<1>2. ASSUME NEW x \in CellIds, Sees(c, x), Complete(k, c, x)' PROVE Complete(k, c, x)
  BY <1>1, <1>2 DEF Sees, Complete
<1>3. WatchOf(k, c)'
  BY <1>1, <1>2, WatchMoves
<1>4. QED
  BY <1>1, <1>3

LEMMA WatchClientStep ==
  ASSUME TypeInv, TypeInv', IInv, WatchInv, NEW k \in Clients, ClientStep(k)
  PROVE  WatchInv'
<1>1. /\ out' = out /\ runs' = runs /\ cmd' = cmd
      /\ \A o \in Clients \ {k} : cl'[o] = cl[o]
  BY ClientLeaves
<1>2. OutInv' /\ RanInv'
  BY RanStays DEF WatchInv
<1>3. \A o \in Clients : WatchOf(o, cl[o])
  BY DEF WatchInv
<1>4. \A x : Born(x) /\ InDoc(x)' => InDoc(x)
  BY ClientDoc
<1>5. ASSUME NEW o \in Clients \ {k} PROVE WatchOf(o, cl[o])'
  BY <1>1, <1>3, <1>4, WatchStays
<1>6. WatchOf(k, cl[k])'
  <2>1. CASE IsBatch(k)
    BY <1>1, <2>1 DEF WatchOf, IsBatch
  <2>2. CASE ~IsBatch(k) /\ cl[k].pc \in Early
    BY <1>3, <2>2, WatchBegins
  <2>3. CASE ~IsBatch(k) /\ cl[k].pc \notin Early
    <3>1. Polls(k) \/ Looks(k) \/ Takes(k) \/ Decides(k) \/ Reports(k) \/ BatchGoes(k)
      BY <2>3 DEF ClientStep, Early, Inserts, Types, Checks, Deletes, Lists, Runs, RunRefused, Joins, Stops, Opens,
                  OpenRefused
    <3>2. ~BatchGoes(k)
      BY <2>3 DEF BatchGoes, IInv, ClientInv, AtStep
    <3>3. doc' = doc
      BY <3>1 DEF Polls, Looks, Takes, Decides, BatchGoes, Reports, serverVars
    <3>4. QED
      BY <1>1, <1>3, <2>3, <3>1, <3>2, <3>3, WatchEnds, WatchLooks, WatchTakes
  <2>4. QED
    BY <2>1, <2>2, <2>3
<1>7. \A o \in Clients : WatchOf(o, cl[o])'
  BY <1>5, <1>6
<1>8. QED
  BY <1>2, <1>7 DEF WatchInv

LEMMA WatchDeadline ==
  ASSUME TypeInv, IInv, WatchInv, NEW k \in Clients, DeadlinePasses(k)
  PROVE  WatchInv'
<1>1. doc' = doc /\ out' = out /\ runs' = runs /\ cmd' = cmd /\ cl' = cl
  BY DEF DeadlinePasses, serverVars
<1>2. OutInv' /\ RanInv'
  BY RanStays DEF WatchInv
<1>3. ASSUME NEW o \in Clients PROVE WatchOf(o, cl[o])'
  BY <1>1, WatchStays DEF WatchInv, InDoc
<1>4. QED
  BY <1>2, <1>3 DEF WatchInv

(* The server runs a cell: of those that a client sees, one that had no     *)
(* outputs.                                                                 *)
LEMMA WatchCellRuns ==
  ASSUME TypeInv, IInv, WatchInv, NEW j \in Jobs, CellRuns(j)
  PROVE  WatchInv'
<1> DEFINE x == job[j].cells[job[j].at + 1]
<1>1. /\ doc' = doc /\ cmd' = cmd /\ cl' = cl
      /\ job[j].at < Len(job[j].cells)
      /\ job \in [Jobs -> Job] /\ out \in [CellIds -> Outputs] /\ runs \in [CellIds -> SUBSET Jobs]
  BY DEF CellRuns, TypeInv, TypeOK
<1>2. job[j].at \in Nat /\ Len(job[j].cells) \in Nat /\ job[j] \in Job /\ DOMAIN job[j].cells = 1..Len(job[j].cells)
  BY <1>1 DEF Job
<1>3. CASE ~InDoc(x)
  <2>1. out' = out /\ runs' = runs /\ job' = [job EXCEPT ![j] = [job[j] EXCEPT !.status = "failed"]]
    BY <1>3 DEF CellRuns
  <2>2. \A o \in Jobs : job'[o].at = job[o].at /\ job'[o].cells = job[o].cells
    BY <1>1, <1>2, <2>1 DEF Job
  <2>3. OutInv' /\ RanInv'
    BY <2>1, <2>2 DEF WatchInv, OutInv, RanInv
  <2>4. ASSUME NEW k \in Clients PROVE WatchOf(k, cl[k])'
    BY <1>1, <2>1, WatchStays DEF WatchInv, InDoc
  <2>5. QED
    BY <2>3, <2>4 DEF WatchInv
<1>4. CASE InDoc(x)
  <2>1. /\ job' = [job EXCEPT ![j] = [job[j] EXCEPT !.at = job[j].at + 1]]
        /\ out' = [out EXCEPT ![x] = <<>>]
        /\ runs' = [runs EXCEPT ![x] = @ \cup {j}]
    BY <1>4 DEF CellRuns
  <2>2. x \in CellIds
    BY <1>4, DocFacts
  <2>3. /\ job'[j].at = job[j].at + 1 /\ job'[j].cells = job[j].cells
        /\ \A o \in Jobs : o # j => job'[o] = job[o]
    BY <1>1, <1>2, <2>1 DEF Job
  <2>4. job[j].cells[job[j].at + 1] = x /\ job[j].at + 1 \in DOMAIN job[j].cells /\ InDoc(x)
    BY <1>1, <1>2, <1>4
  <2> HIDE DEF x
  <2>5. /\ out'[x] = <<>> /\ runs'[x] = runs[x] \cup {j}
        /\ \A y \in CellIds : y # x => out'[y] = out[y] /\ runs'[y] = runs[y]
    BY <1>1, <2>1, <2>2
  <2>6. OutInv'
    BY <2>5 DEF WatchInv, OutInv
  <2>7. ASSUME NEW o \in Jobs, NEW y \in CellIds, o \in runs'[y]
        PROVE  \E n \in 1..job'[o].at : job'[o].cells[n] = y
    <3>1. CASE o \in runs[y]
      <4>1. PICK n \in 1..job[o].at : job[o].cells[n] = y
        BY <3>1 DEF WatchInv, RanInv
      <4>2. job'[o].cells = job[o].cells /\ n \in 1..job'[o].at
        BY <1>2, <2>3, <4>1
      <4>3. QED
        BY <4>1, <4>2
    <3>2. CASE o \notin runs[y]
      <4>1. o = j /\ y = x
        BY <2>5, <2>7, <3>2
      <4>2. job[j].at + 1 \in 1..job'[j].at
        BY <1>2, <2>3
      <4>3. QED
        BY <2>3, <2>4, <4>1, <4>2
    <3>3. QED
      BY <3>1, <3>2
  <2>8. ASSUME NEW k \in Clients PROVE WatchOf(k, cl[k])'
    <3>1. PICK c \in Client : c = cl[k] /\ WatchOf(k, c) /\ Follows(k, c)
      BY DEF TypeInv, TypeOK, IInv, ClientInv, WatchInv
    <3>2. ASSUME NEW y \in CellIds, Sees(c, y)', ~IsBatch(k) PROVE Shows(k, c, y)'
      <4>1. Sees(c, y) /\ out'[y] = out[y]
        <5>1. CASE y # x
          BY <2>5, <3>2, <5>1 DEF Sees, RunBy
        <5>2. CASE y = x
          <6>1. j = c.job /\ c.job # NoJob
            BY <2>5, <3>2, <5>2, ClientAssumption DEF Sees, RunBy
          <6>2. c.cells = job[j].cells
            BY <3>1, <3>2, <6>1 DEF Follows
          <6>3. j \notin runs[x]
            <7>1. SUFFICES ASSUME j \in runs[x] PROVE FALSE
              OBVIOUS
            <7>2. PICK n \in 1..job[j].at : job[j].cells[n] = x
              BY <2>2, <7>1 DEF WatchInv, RanInv
            <7>3. n \in DOMAIN c.cells /\ job[j].at + 1 \in DOMAIN c.cells
              BY <1>1, <1>2, <2>4, <6>2
            <7>4. n = job[j].at + 1
              BY <2>4, <3>2, <5>2, <6>2, <7>2, <7>3 DEF Sees, Once
            <7>5. QED
              BY <1>2, <7>4
          <6>4. runs[x] = {}
            BY <2>5, <3>2, <5>2, <6>1, <6>3 DEF Sees, RunBy
          <6>5. out[x] = <<>>
            BY <2>2, <3>2, <5>2, <6>4 DEF WatchInv, OutInv, Sees
          <6>6. QED
            BY <2>5, <3>2, <5>2, <6>4, <6>5 DEF Sees, RunBy
        <5>3. QED
          BY <5>1, <5>2
      <4>2. Shows(k, c, y)
        BY <3>1, <3>2, <4>1 DEF WatchOf
      <4>3. QED
        BY <1>1, <4>1, <4>2 DEF Shows, Complete, InDoc
    <3>3. WatchOf(k, c)'
      BY <1>1, <3>1, <3>2 DEF WatchOf, IsBatch
    <3>4. QED
      BY <1>1, <3>1, <3>3
  <2>9. QED
    BY <2>6, <2>7, <2>8 DEF WatchInv, RanInv
<1>5. QED
  BY <1>3, <1>4

(* It prints: to one that the job runs, whose end nobody has read. *)
LEMMA WatchCellPrints ==
  ASSUME TypeInv, TypeInv', IInv, WatchInv, NEW j \in Jobs, CellPrints(j)
  PROVE  WatchInv'
<1> DEFINE x == job[j].cells[job[j].at]
<1>1. /\ doc' = doc /\ cmd' = cmd /\ cl' = cl /\ runs' = runs /\ job' = job
      /\ job[j].status = "running" /\ job[j].at > 0 /\ InDoc(x)
      /\ out \in [CellIds -> Outputs] /\ out' \in [CellIds -> Outputs] /\ job[j].at \in Nat
  BY DEF CellPrints, TypeInv, TypeOK, Job
<1>2. PICK name \in Names : out' = [out EXCEPT ![x] = Extended(out[x], name, j)]
  BY DEF CellPrints
<1>3. x \in CellIds /\ j \in runs[x]
  <2>1. x \in CellIds
    BY <1>1, DocFacts
  <2>2. job[j].at \in 1..job[j].at /\ JobFacts(j)
    BY <1>1 DEF IInv
  <2>3. QED
    BY <2>1, <2>2 DEF JobFacts
<1> HIDE DEF x
<1>4. out'[x] = Extended(out[x], name, j) /\ \A y \in CellIds : y # x => out'[y] = out[y]
  BY <1>1, <1>2, <1>3
<1>5. OutInv' /\ RanInv'
  BY <1>1, <1>3, <1>4 DEF WatchInv, OutInv, RanInv
<1>6. ASSUME NEW k \in Clients PROVE WatchOf(k, cl[k])'
  <2>1. PICK c \in Client : c = cl[k] /\ WatchOf(k, c) /\ Follows(k, c)
    BY DEF TypeInv, TypeOK, IInv, ClientInv, WatchInv
  <2>2. ASSUME NEW y \in CellIds, Sees(c, y)', ~IsBatch(k) PROVE Shows(k, c, y)'
    <3>1. Sees(c, y)
      BY <1>1, <2>2 DEF Sees, RunBy
    <3>2. Shows(k, c, y)
      BY <2>1, <2>2, <3>1 DEF WatchOf
    <3>3. CASE y # x
      BY <1>1, <1>4, <3>2, <3>3 DEF Shows, Complete, InDoc
    <3>4. CASE y = x
      <4>1. j = c.job
        BY <1>3, <3>1, <3>4 DEF Sees, RunBy
      <4>2. c.status \notin {"succeeded", "failed"}
        BY <1>1, <2>1, <4>1 DEF Follows
      <4>3. ~Complete(k, c, y)'
        BY <4>2 DEF Complete
      <4>4. Earlier(c.seen[x], out'[x])
        <5>1. c.seen[x] \in Outputs /\ out[x] \in Outputs /\ out'[x] \in Outputs /\ Earlier(c.seen[x], out[x])
          BY <1>1, <1>3, <2>1, <3>2, <3>4 DEF Shows, Client
        <5>2. QED
          BY <1>4, <5>1, EarlierExtends
      <4>5. QED
        BY <3>2, <3>4, <4>3, <4>4 DEF Shows
    <3>5. QED
      BY <3>3, <3>4
  <2>3. WatchOf(k, c)'
    BY <1>1, <2>1, <2>2 DEF WatchOf, IsBatch
  <2>4. QED
    BY <1>1, <2>1, <2>3
<1>7. QED
  BY <1>5, <1>6 DEF WatchInv

LEMMA WatchJobStep ==
  ASSUME TypeInv, TypeInv', IInv, WatchInv, NEW j \in Jobs, JobStep(j)
  PROVE  WatchInv'
<1>1. CASE CellRuns(j)
  BY <1>1, WatchCellRuns
<1>2. CASE CellPrints(j)
  BY <1>2, WatchCellPrints
<1>3. CASE JobStarts(j) \/ JobEnds(j) \/ JobFails(j) \/ JobAsks(j) \/ JobIsAnswered(j)
  <2>1. doc' = doc /\ cmd' = cmd /\ cl' = cl /\ out' = out /\ runs' = runs
    BY <1>3 DEF JobStarts, JobEnds, JobFails, JobAsks, JobIsAnswered
  <2>2. \E status \in JobStatus, number \in {job[j].kernel, kernel'} :
          job' = [job EXCEPT ![j] = [job[j] EXCEPT !.status = status, !.kernel = number]]
    <3>1. CASE JobStarts(j)
      BY <3>1 DEF JobStarts, JobStatus
    <3>2. CASE ~JobStarts(j)
      <4>1. \E status \in JobStatus : job' = [job EXCEPT ![j] = [job[j] EXCEPT !.status = status]]
        BY <1>3, <3>2 DEF JobEnds, JobFails, JobAsks, JobIsAnswered, JobStatus
      <4>2. \A status : [job[j] EXCEPT !.status = status] = [job[j] EXCEPT !.status = status, !.kernel = job[j].kernel]
        BY DEF TypeInv, TypeOK, Job
      <4>3. QED
        BY <4>1, <4>2
    <3>3. QED
      BY <3>1, <3>2
  <2>3. \A o \in Jobs : job'[o].at = job[o].at /\ job'[o].cells = job[o].cells
    BY <2>2 DEF TypeInv, TypeOK, Job
  <2>4. OutInv' /\ RanInv'
    BY <2>1, <2>3 DEF WatchInv, OutInv, RanInv
  <2>5. ASSUME NEW k \in Clients PROVE WatchOf(k, cl[k])'
    BY <2>1, WatchStays DEF WatchInv, InDoc
  <2>6. QED
    BY <2>4, <2>5 DEF WatchInv
<1>4. QED
  BY <1>1, <1>2, <1>3 DEF JobStep

LEMMA WatchNext == TypeInv /\ TypeInv' /\ IInv /\ WatchInv /\ [Next]_vars => WatchInv'
<1> SUFFICES ASSUME TypeInv, TypeInv', IInv, WatchInv, [Next]_vars PROVE WatchInv'
  OBVIOUS
<1>1. CASE UNCHANGED vars
  <2>1. OutInv' /\ RanInv'
    BY <1>1 DEF vars, WatchInv, OutInv, RanInv
  <2>2. ASSUME NEW k \in Clients PROVE WatchOf(k, cl[k])'
    BY <1>1, WatchStays DEF vars, WatchInv, InDoc
  <2>3. QED
    BY <2>1, <2>2 DEF WatchInv
<1>2. ASSUME NEW k \in Clients, ClientStep(k) \/ DeadlinePasses(k) PROVE WatchInv'
  BY <1>2, WatchClientStep, WatchDeadline
<1>3. ASSUME NEW j \in Jobs, JobStep(j) PROVE WatchInv'
  BY <1>3, WatchJobStep
<1>4. QED
  BY <1>1, <1>2, <1>3 DEF Next

LEMMA PrefixOf ==
  ASSUME NEW S, NEW s \in Seq(S), NEW t \in Seq(S)
  PROVE  IsPrefix(s, s \o t)
<1>1. PICK u \in Seq(S) : u = s \o t
  <2>1. s \o t \in Seq(S)
    OBVIOUS
  <2>2. QED
    BY <2>1
<1>2. Len(u) = Len(s) + Len(t) /\ \A i \in 1..Len(s) : u[i] = s[i]
  BY <1>1
<1>3. Len(s) \in Nat /\ Len(t) \in Nat
  OBVIOUS
<1>4. /\ SubSeq(u, 1, Len(s)) \in Seq(S) /\ Len(SubSeq(u, 1, Len(s))) = Len(s)
      /\ \A i \in 1..Len(s) : SubSeq(u, 1, Len(s))[i] = u[i]
  BY <1>2, <1>3
<1>5. SubSeq(u, 1, Len(s)) = s
  BY <1>2, <1>4, SeqEqual
<1>6. SubSeq(s, 1, Len(s)) = s
  OBVIOUS
<1>7. QED
  BY <1>1, <1>2, <1>3, <1>5, <1>6 DEF IsPrefix

(* WatchShowsAll: of a cell that the job alone runs, --watch has shown      *)
(* every output whole when the command ends with the job's end; and unless  *)
(* a stream's text is a list, what it has printed is at any moment a        *)
(* beginning of what the job printed there, and all of it in the end        *)
(* (_watch_job's seen_outputs against the outputs it reads).  The loop      *)
(* reads the status before the cells.                                       *)
THEOREM WatchShowsAllAlways == Spec => []WatchShowsAll
<1>1. TypeInv /\ WatchInv => WatchShowsAll
  <2> DEFINE ended(k) == Done(k) /\ cl[k].exit # "error" /\ cl[k].status \in {"succeeded", "failed"}
  <2> SUFFICES ASSUME TypeInv, WatchInv, NEW k \in Clients, NEW x \in ToSet(cl[k].cells) \ ToSet(OldCells),
                      cmd[k].form = "watch", ~IsBatch(k), InDoc(x), RunBy(x, cl[k].job), Once(x, cl[k].cells)
               PROVE  /\ Strings(out[x]) =>
                           /\ IsPrefix(cl[k].shown[x], Printed(out[x]))
                           /\ ended(k) => cl[k].shown[x] = Printed(out[x])
                      /\ ended(k) => \A i \in DOMAIN out[x] : Within(Str(out[x][i]), cl[k].shown[x])
    BY DEF WatchShowsAll
  <2>1. x \in CellIds
    BY DocFacts
  <2>2. PICK c \in Client : c = cl[k] /\ WatchOf(k, c)
    BY DEF TypeInv, TypeOK, WatchInv
  <2>3. Sees(c, x)
    BY <2>2 DEF Sees
  <2>4. Shows(k, c, x)
    BY <2>1, <2>2, <2>3 DEF WatchOf
  <2>5. out[x] \in Outputs /\ c.seen[x] \in Outputs /\ c.shown[x] \in Seq(Shapes)
    BY <2>1, <2>2 DEF TypeInv, TypeOK, Client
  <2>6. ASSUME Strings(out[x]) PROVE IsPrefix(c.shown[x], Printed(out[x]))
    <3>1. c.shown[x] = Printed(c.seen[x])
      BY <2>4, <2>5, <2>6, StringsBefore DEF Shows, ShownOf
    <3>2. Printed(c.seen[x]) \o Deltas(c.seen[x], out[x]) = Printed(out[x])
      BY <2>4, <2>5, <2>6, DeltasShow DEF Shows
    <3>3. Printed(c.seen[x]) \in Seq(Shapes) /\ Deltas(c.seen[x], out[x]) \in Seq(Shapes)
      BY <2>5, PrintedTyped, DeltasTyped
    <3>4. QED
      BY <3>1, <3>2, <3>3, PrefixOf
  <2>7. ASSUME ended(k) PROVE ShownOf(out[x], c.shown[x])
    <3>1. Complete(k, c, x)
      BY <2>2, <2>7 DEF Complete, Done
    <3>2. QED
      BY <2>4, <3>1 DEF Shows
  <2>8. ASSUME ended(k), NEW i \in DOMAIN out[x] PROVE Within(Str(out[x][i]), c.shown[x])
    <3>1. i \in 1..Len(out[x]) /\ out[x][i] \in Output
      BY <2>5, OutputsAre
    <3>2. ShownAt(c.shown[x], Str(out[x][i]))
      BY <2>7, <2>8, <3>1 DEF ShownOf, Whole
    <3>3. QED
      BY <2>5, <3>1, <3>2, StrTyped, WithinShown
  <2> HIDE DEF ended
  <2>9. QED
    BY <2>2, <2>6, <2>7, <2>8 DEF ShownOf
<1>2. Spec => [](TypeInv /\ WatchInv)
  <2>1. TypeInv /\ [Next]_vars => TypeInv'
    BY TypeNext
  <2>2. QED
    BY <2>1, InvAlways, WatchInit, WatchNext, PTL DEF Spec
<1>3. QED
  BY <1>1, <1>2, PTL

=============================================================================
