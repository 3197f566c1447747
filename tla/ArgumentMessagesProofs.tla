------------------------ MODULE ArgumentMessagesProofs ------------------------
(***************************************************************************)
(* For every set of message types, nested as deep as they are: the message *)
(* built from the arguments of a command holds each of them in the field   *)
(* it is named for.  By induction on the nesting.                          *)
(***************************************************************************)
EXTENDS ArgumentMessages, SequenceTheorems, DataInduction

-------------------------------------------------------------------------------
\* The loop over the fields

\* It ends with its result, or as one of the steps that are not ok.
LEMMA InOrderIs ==
  ASSUME NEW n \in Nat, NEW steps, DOMAIN steps = 1 .. n, NEW result
  PROVE  \/ /\ InOrder(steps, result) = result
            /\ \A i \in 1 .. n : steps[i].outcome = "ok"
         \/ \E i \in 1 .. n : steps[i].outcome # "ok" /\ InOrder(steps, result) = steps[i]
<1>1. CASE Failed(steps) = {}
  BY <1>1 DEF InOrder, Failed
<1>2. CASE Failed(steps) # {}
  <2>1. Failed(steps) \in SUBSET Nat
    BY DEF Failed
  <2>2. \E i \in Failed(steps) : \A j \in Failed(steps) : i <= j
    BY <1>2, <2>1, LeastNat
  <2> DEFINE i == CHOOSE i \in Failed(steps) : \A j \in Failed(steps) : i <= j
  <2>3. i \in Failed(steps)
    BY <2>2
  <2>4. InOrder(steps, result) = steps[i]
    BY <1>2 DEF InOrder
  <2> HIDE DEF i
  <2> QED
    BY <2>3, <2>4 DEF Failed
<1> QED
  BY <1>1, <1>2

\* What FlattenSeq holds: the equation that defines it on the first n sequences.
Flattens(f, seqs, n) == f = [i \in 1 .. n |-> IF i = 1 THEN seqs[i] ELSE f[i - 1] \o seqs[i]]

LEMMA FlattenExists ==
  ASSUME NEW seqs
  PROVE  \A n \in Nat : \E f : Flattens(f, seqs, n)
<1> DEFINE T == {n \in Nat : \E f : Flattens(f, seqs, n)}
<1>1. 0 \in T
  <2>1. Flattens(<<>>, seqs, 0)
    BY DEF Flattens
  <2> QED
    BY <2>1
<1>2. ASSUME NEW n \in T PROVE n + 1 \in T
  <2>1. PICK f : Flattens(f, seqs, n)
    OBVIOUS
  <2> DEFINE g == [i \in 1 .. n + 1 |->
                     IF i = n + 1 THEN IF n = 0 THEN seqs[1] ELSE f[n] \o seqs[n + 1] ELSE f[i]]
  <2>2. \A i \in 1 .. n : g[i] = f[i]
    OBVIOUS
  <2>3. ASSUME NEW i \in 1 .. n + 1
        PROVE  g[i] = IF i = 1 THEN seqs[i] ELSE g[i - 1] \o seqs[i]
    <3>1. CASE i = n + 1
      <4>1. n # 0 => n \in 1 .. n /\ g[i - 1] = f[n]
        BY <2>2, <3>1
      <4>2. g[i] = IF n = 0 THEN seqs[1] ELSE f[n] \o seqs[n + 1]
        BY <3>1
      <4> HIDE DEF g
      <4> QED
        BY <3>1, <4>1, <4>2
    <3>2. CASE i \in 1 .. n
      <4>1. f[i] = IF i = 1 THEN seqs[i] ELSE f[i - 1] \o seqs[i]
        BY <2>1, <3>2 DEF Flattens
      <4>2. i # 1 => i - 1 \in 1 .. n
        BY <3>2
      <4> HIDE DEF g
      <4> QED
        BY <2>2, <3>2, <4>1, <4>2
    <3> QED
      BY <3>1, <3>2
  <2>4. Flattens(g, seqs, n + 1)
    <3>1. g = [i \in 1 .. n + 1 |-> g[i]]
      OBVIOUS
    <3> HIDE DEF g
    <3> QED
      BY <2>3, <3>1, Zenon DEF Flattens
  <2> QED
    BY <2>4
<1>3. T = Nat
  BY <1>1, <1>2, NatSetInduction
<1> QED
  BY <1>3

LEMMA RangeOfConcat ==
  ASSUME NEW S, NEW a \in Seq(S), NEW b \in Seq(S)
  PROVE  a \o b \in Seq(S) /\ Range(a \o b) = Range(a) \cup Range(b)
<1>1. /\ a \o b \in Seq(S) /\ DOMAIN (a \o b) = 1 .. Len(a) + Len(b)
      /\ \A i \in 1 .. Len(a) + Len(b) : (a \o b)[i] = IF i <= Len(a) THEN a[i] ELSE b[i - Len(a)]
      /\ Len(a) \in Nat /\ Len(b) \in Nat /\ DOMAIN a = 1 .. Len(a) /\ DOMAIN b = 1 .. Len(b)
  OBVIOUS
<1>2. ASSUME NEW i \in DOMAIN a PROVE a[i] \in Range(a \o b)
  <2>1. i \in DOMAIN (a \o b) /\ (a \o b)[i] = a[i]
    BY <1>1
  <2> QED
    BY <2>1 DEF Range
<1>3. ASSUME NEW i \in DOMAIN b PROVE b[i] \in Range(a \o b)
  <2>1. Len(a) + i \in DOMAIN (a \o b) /\ (a \o b)[Len(a) + i] = b[i]
    BY <1>1
  <2> QED
    BY <2>1 DEF Range
<1>4. ASSUME NEW i \in DOMAIN (a \o b) PROVE (a \o b)[i] \in Range(a) \cup Range(b)
  <2>1. CASE i \in 1 .. Len(a)
    BY <1>1, <2>1 DEF Range
  <2>2. CASE i \notin 1 .. Len(a)
    <3>1. i - Len(a) \in DOMAIN b /\ (a \o b)[i] = b[i - Len(a)]
      BY <1>1, <2>2
    <3> QED
      BY <3>1 DEF Range
  <2> QED
    BY <2>1, <2>2
<1> QED
  BY <1>1, <1>2, <1>3, <1>4 DEF Range

\* s is made of the elements of the first k sequences, and of no others.
Gathers(s, S, seqs, k) == s \in Seq(S) /\ Range(s) = UNION {Range(seqs[j]) : j \in 1 .. k}

LEMMA FlattenGathers ==
  ASSUME NEW S, NEW n \in Nat, NEW seqs \in [1 .. n -> Seq(S)]
  PROVE  Gathers(FlattenSeq(seqs), S, seqs, n)
<1>1. Len(seqs) = n
  OBVIOUS
<1>2. CASE n = 0
  <2>1. seqs = <<>> /\ FlattenSeq(seqs) = <<>>
    BY <1>1, <1>2 DEF FlattenSeq
  <2>2. <<>> \in Seq(S) /\ Range(<<>>) = {} /\ 1 .. n = {}
    BY <1>2 DEF Range
  <2> QED
    BY <2>1, <2>2 DEF Gathers
<1>3. CASE n # 0
  <2> DEFINE flatten == CHOOSE f : f = [i \in 1 .. n |-> IF i = 1 THEN seqs[i] ELSE f[i - 1] \o seqs[i]]
             T == {k \in Nat : k + 1 <= n => Gathers(flatten[k + 1], S, seqs, k + 1)}
  <2>1. FlattenSeq(seqs) = flatten[n]
    BY <1>1, <1>3, Zenon DEF FlattenSeq
  <2>2. flatten = [i \in 1 .. n |-> IF i = 1 THEN seqs[i] ELSE flatten[i - 1] \o seqs[i]]
    <3>1. \E f : Flattens(f, seqs, n)
      BY FlattenExists
    <3> QED
      BY <3>1, Zenon DEF Flattens
  <2> HIDE DEF flatten
  <2>3. Gathers(flatten[1], S, seqs, 1)
    <3>1. flatten[1] = seqs[1] /\ 1 \in 1 .. n
      BY <1>3, <2>2
    <3>2. UNION {Range(seqs[j]) : j \in 1 .. 1} = Range(seqs[1])
      OBVIOUS
    <3> QED
      BY <3>1, <3>2 DEF Gathers
  <2>4. ASSUME NEW k \in T, k + 1 + 1 <= n PROVE Gathers(flatten[k + 1 + 1], S, seqs, k + 1 + 1)
    <3>1. PICK m \in Nat \ {0} : m = k + 1
      OBVIOUS
    <3>2. Gathers(flatten[m], S, seqs, m) /\ m + 1 \in 1 .. n /\ m + 1 # 1 /\ m + 1 - 1 = m
      BY <2>4, <3>1
    <3>3. flatten[m + 1] = flatten[m] \o seqs[m + 1]
      <4>1. \A i \in 1 .. n : flatten[i] = IF i = 1 THEN seqs[i] ELSE flatten[i - 1] \o seqs[i]
        BY <2>2, Zenon
      <4>2. PICK i \in 1 .. n : i = m + 1
        BY <3>2
      <4>3. i # 1 /\ i - 1 = m
        BY <4>2
      <4>4. flatten[i] = flatten[i - 1] \o seqs[i]
        BY <4>1, <4>3, Zenon
      <4> QED
        BY <4>2, <4>3, <4>4
    <3>4. /\ flatten[m + 1] \in Seq(S)
          /\ Range(flatten[m + 1]) = Range(flatten[m]) \cup Range(seqs[m + 1])
      BY <3>2, <3>3, RangeOfConcat DEF Gathers
    <3>5. \A j : j \in 1 .. m + 1 <=> j \in 1 .. m \/ j = m + 1
      OBVIOUS
    <3>6. UNION {Range(seqs[j]) : j \in 1 .. m + 1}
            = (UNION {Range(seqs[j]) : j \in 1 .. m}) \cup Range(seqs[m + 1])
      BY <3>5
    <3> QED
      BY <3>1, <3>2, <3>4, <3>6 DEF Gathers
  <2>5. T = Nat
    <3>1. 0 \in T
      BY <2>3
    <3>2. \A k \in T : k + 1 \in T
      BY <2>4
    <3> HIDE DEF T
    <3>3. T \in SUBSET Nat
      BY DEF T
    <3> QED
      BY <3>1, <3>2, <3>3, NatSetInduction
  <2>6. n - 1 \in Nat /\ n - 1 + 1 = n
    BY <1>3
  <2>7. n - 1 \in T
    <3> HIDE DEF T
    <3> QED
      BY <2>5, <2>6
  <2>8. Gathers(flatten[n], S, seqs, n)
    BY <2>6, <2>7
  <2> QED
    BY <2>1, <2>8
<1> QED
  BY <1>2, <1>3
-------------------------------------------------------------------------------
\* The equations that define the two functions, up to a nesting of n: they have solutions.

ParamsUpTo(f, n) ==
  f = [d \in 0 .. n |-> [t \in Messages |-> [root \in Seq(STRING) |->
         IF d = 0 THEN NoParams ELSE MessageParams(f[d - 1], t, root)]]]

ValuesUpTo(f, data, n) ==
  f = [d \in 0 .. n |-> [t \in Messages |-> [root \in Seq(STRING) |->
         IF d = 0 THEN NoValues ELSE MessageValues(f[d - 1], data, t, root)]]]

LEMMA ParamsExists ==
  \A n \in Nat : \E f : ParamsUpTo(f, n)
<1> DEFINE T == {n \in Nat : \E f : ParamsUpTo(f, n)}
           Level(f, d) == [t \in Messages |-> [root \in Seq(STRING) |->
                             IF d = 0 THEN NoParams ELSE MessageParams(f[d - 1], t, root)]]
<1>1. 0 \in T
  <2>1. ParamsUpTo([d \in 0 .. 0 |-> [t \in Messages |-> [root \in Seq(STRING) |-> NoParams]]], 0)
    BY DEF ParamsUpTo
  <2> QED
    BY <2>1
<1>2. ASSUME NEW n \in T PROVE n + 1 \in T
  <2>1. PICK f : ParamsUpTo(f, n)
    OBVIOUS
  <2> DEFINE g == [d \in 0 .. n + 1 |-> IF d = n + 1 THEN Level(f, d) ELSE f[d]]
  <2>2. \A d \in 0 .. n : g[d] = f[d]
    OBVIOUS
  <2>3. ASSUME NEW d \in 0 .. n + 1 PROVE g[d] = Level(g, d)
    <3>1. g[d] = Level(f, d)
      <4>1. CASE d = n + 1
        BY <4>1
      <4>2. CASE d \in 0 .. n
        BY <2>1, <2>2, <4>2, Zenon DEF ParamsUpTo
      <4> QED
        BY <4>1, <4>2
    <3>2. d # 0 => d - 1 \in 0 .. n
      OBVIOUS
    <3>3. d # 0 => g[d - 1] = f[d - 1]
      BY <2>2, <3>2
    <3> HIDE DEF g
    <3>4. Level(f, d) = Level(g, d)
      BY <3>3
    <3> QED
      BY <3>1, <3>4
  <2>4. ParamsUpTo(g, n + 1)
    <3>1. g = [d \in 0 .. n + 1 |-> g[d]]
      OBVIOUS
    <3> HIDE DEF g
    <3> QED
      BY <2>3, <3>1, Zenon DEF ParamsUpTo
  <2> QED
    BY <2>4
<1>3. T = Nat
  <2> HIDE DEF T
  <2>1. T \in SUBSET Nat
    BY DEF T
  <2> QED
    BY <1>1, <1>2, <2>1, NatSetInduction
<1> QED
  BY <1>3

LEMMA ValuesExists ==
  ASSUME NEW data
  PROVE  \A n \in Nat : \E f : ValuesUpTo(f, data, n)
<1> DEFINE T == {n \in Nat : \E f : ValuesUpTo(f, data, n)}
           Level(f, d) == [t \in Messages |-> [root \in Seq(STRING) |->
                             IF d = 0 THEN NoValues ELSE MessageValues(f[d - 1], data, t, root)]]
<1>1. 0 \in T
  <2>1. ValuesUpTo([d \in 0 .. 0 |-> [t \in Messages |-> [root \in Seq(STRING) |-> NoValues]]], data, 0)
    BY DEF ValuesUpTo
  <2> QED
    BY <2>1
<1>2. ASSUME NEW n \in T PROVE n + 1 \in T
  <2>1. PICK f : ValuesUpTo(f, data, n)
    OBVIOUS
  <2> DEFINE g == [d \in 0 .. n + 1 |-> IF d = n + 1 THEN Level(f, d) ELSE f[d]]
  <2>2. \A d \in 0 .. n : g[d] = f[d]
    OBVIOUS
  <2>3. ASSUME NEW d \in 0 .. n + 1 PROVE g[d] = Level(g, d)
    <3>1. g[d] = Level(f, d)
      <4>1. CASE d = n + 1
        BY <4>1
      <4>2. CASE d \in 0 .. n
        BY <2>1, <2>2, <4>2, Zenon DEF ValuesUpTo
      <4> QED
        BY <4>1, <4>2
    <3>2. d # 0 => d - 1 \in 0 .. n
      OBVIOUS
    <3>3. d # 0 => g[d - 1] = f[d - 1]
      BY <2>2, <3>2
    <3> HIDE DEF g
    <3>4. Level(f, d) = Level(g, d)
      BY <3>3
    <3> QED
      BY <3>1, <3>4
  <2>4. ValuesUpTo(g, data, n + 1)
    <3>1. g = [d \in 0 .. n + 1 |-> g[d]]
      OBVIOUS
    <3> HIDE DEF g
    <3> QED
      BY <2>3, <3>1, Zenon DEF ValuesUpTo
  <2> QED
    BY <2>4
<1>3. T = Nat
  <2> HIDE DEF T
  <2>1. T \in SUBSET Nat
    BY DEF T
  <2> QED
    BY <1>1, <1>2, <2>1, NatSetInduction
<1> QED
  BY <1>3

LEMMA ParamsDef ==
  ASSUME NEW t \in Messages, NEW root \in Seq(STRING)
  PROVE  /\ parseABIFields[0][t][root] = NoParams
         /\ \A d \in 1 .. MaxDepth :
              parseABIFields[d][t][root] = MessageParams(parseABIFields[d - 1], t, root)
<1> DEFINE f == parseABIFields
<1>1. MaxDepth \in Nat
  BY ArgumentConstants
<1>2. \E g : ParamsUpTo(g, MaxDepth)
  BY <1>1, ParamsExists
<1>3. f = [d \in 0 .. MaxDepth |-> [u \in Messages |-> [r \in Seq(STRING) |->
             IF d = 0 THEN NoParams ELSE MessageParams(f[d - 1], u, r)]]]
  BY <1>2, Zenon DEF parseABIFields, ParamsUpTo
<1> HIDE DEF f
<1>4. ASSUME NEW d \in 0 .. MaxDepth
      PROVE  f[d][t][root] = IF d = 0 THEN NoParams ELSE MessageParams(f[d - 1], t, root)
  <2>1. f[d] = [u \in Messages |-> [r \in Seq(STRING) |->
                  IF d = 0 THEN NoParams ELSE MessageParams(f[d - 1], u, r)]]
    BY <1>3, Zenon
  <2>2. f[d][t] = [r \in Seq(STRING) |-> IF d = 0 THEN NoParams ELSE MessageParams(f[d - 1], t, r)]
    BY <2>1, Zenon
  <2> QED
    BY <2>2, Zenon
<1>5. 0 \in 0 .. MaxDepth /\ \A d \in 1 .. MaxDepth : d \in 0 .. MaxDepth /\ d # 0
  BY <1>1
<1> QED
  BY <1>4, <1>5, Zenon DEF f

LEMMA ValuesDef ==
  ASSUME NEW data, NEW t \in Messages, NEW root \in Seq(STRING)
  PROVE  /\ dataToMessage(data)[0][t][root] = NoValues
         /\ \A d \in 1 .. MaxDepth :
              dataToMessage(data)[d][t][root] = MessageValues(dataToMessage(data)[d - 1], data, t, root)
<1> DEFINE f == dataToMessage(data)
<1>1. MaxDepth \in Nat
  BY ArgumentConstants
<1>2. \E g : ValuesUpTo(g, data, MaxDepth)
  BY <1>1, ValuesExists
<1>3. f = [d \in 0 .. MaxDepth |-> [u \in Messages |-> [r \in Seq(STRING) |->
             IF d = 0 THEN NoValues ELSE MessageValues(f[d - 1], data, u, r)]]]
  BY <1>2, Zenon DEF dataToMessage, ValuesUpTo
<1> HIDE DEF f
<1>4. ASSUME NEW d \in 0 .. MaxDepth
      PROVE  f[d][t][root] = IF d = 0 THEN NoValues ELSE MessageValues(f[d - 1], data, t, root)
  <2>1. f[d] = [u \in Messages |-> [r \in Seq(STRING) |->
                  IF d = 0 THEN NoValues ELSE MessageValues(f[d - 1], data, u, r)]]
    BY <1>3, Zenon
  <2>2. f[d][t] = [r \in Seq(STRING) |-> IF d = 0 THEN NoValues ELSE MessageValues(f[d - 1], data, t, r)]
    BY <2>1, Zenon
  <2> QED
    BY <2>2, Zenon
<1>5. 0 \in 0 .. MaxDepth /\ \A d \in 1 .. MaxDepth : d \in 0 .. MaxDepth /\ d # 0
  BY <1>1
<1> QED
  BY <1>4, <1>5, Zenon DEF f
-------------------------------------------------------------------------------
\* Chains of fields, of a length of d at most

ChainsTo(d, t) == {c \in UNION {[1 .. n -> Nodes] : n \in 1 .. d} : IsChain(t, c)}
LeavesTo(d, t) == {c \in ChainsTo(d, t) : IsLeaf(c)}
EndOf(c)       == At(c[Len(c)])

\* The chain that begins with the node q and goes on as c.
Grow(q, c) == <<q>> \o c

LEMMA FieldType ==
  ASSUME NEW t \in Messages, NEW i \in 1 .. Len(Fields[t])
  PROVE  /\ Len(Fields[t]) \in Nat /\ Fields[t][i] \in Field /\ Fields[t][i].name \in STRING
         /\ Fields[t][i].kind = "message" => Fields[t][i].of \in Messages
         /\ <<t, i>> \in Nodes /\ At(<<t, i>>) = Fields[t][i]
<1>1. Fields[t] \in Seq(Field)
  BY ArgumentConstants
<1>2. Fields[t][i] \in Field /\ Len(Fields[t]) \in Nat
  BY <1>1
<1>3. Fields[t][i].name \in STRING
  BY <1>2 DEF Field
<1>4. Fields[t][i].kind = "message" => Fields[t][i].of \in Messages
  BY ArgumentConstants
<1> QED
  BY <1>2, <1>3, <1>4 DEF Nodes, At

LEMMA NodeType ==
  ASSUME NEW q \in Nodes
  PROVE  q = <<q[1], q[2]>> /\ q[1] \in Messages /\ q[2] \in 1 .. Len(Fields[q[1]])
BY DEF Nodes

LEMMA ChainType ==
  ASSUME NEW d \in Nat, NEW t, NEW c
  PROVE  c \in ChainsTo(d, t) <=> /\ c \in Seq(Nodes) /\ Len(c) \in 1 .. d /\ IsChain(t, c)
<1>1. ASSUME NEW n \in 1 .. d, c \in [1 .. n -> Nodes] PROVE c \in Seq(Nodes) /\ Len(c) \in 1 .. d
  BY <1>1
<1>2. ASSUME c \in Seq(Nodes), Len(c) \in 1 .. d PROVE c \in [1 .. Len(c) -> Nodes]
  BY <1>2
<1> QED
  BY <1>1, <1>2 DEF ChainsTo

LEMMA GrowType ==
  ASSUME NEW q \in Nodes, NEW c \in Seq(Nodes)
  PROVE  /\ Grow(q, c) \in Seq(Nodes) /\ Len(Grow(q, c)) = Len(c) + 1 /\ Len(c) \in Nat
         /\ Grow(q, c)[1] = q /\ \A k \in 1 .. Len(c) : Grow(q, c)[k + 1] = c[k]
BY DEF Grow

\* A chain of one field.
LEMMA OneField ==
  ASSUME NEW t \in Messages, NEW i \in 1 .. Len(Fields[t]), NEW d \in Nat \ {0}
  PROVE  LET c == <<<<t, i>>>> IN
         /\ c \in ChainsTo(d, t) /\ EndOf(c) = Fields[t][i]
         /\ NameOf(c) = <<Fields[t][i].name>>
         /\ Overridden(c) <=> Cleared(Fields[t], i)
<1> DEFINE c == <<<<t, i>>>>
<1>1. <<t, i>> \in Nodes /\ At(<<t, i>>) = Fields[t][i] /\ Len(Fields[t]) \in Nat
  BY FieldType
<1>2. c \in Seq(Nodes) /\ Len(c) = 1 /\ c[1] = <<t, i>> /\ DOMAIN c = {1}
  BY <1>1
<1>3. c \in ChainsTo(d, t)
  <2> HIDE DEF c
  <2>1. IsChain(t, c)
    BY <1>2 DEF IsChain
  <2>2. Len(c) \in 1 .. d
    BY <1>2
  <2> QED
    BY <1>2, <2>1, <2>2, ChainType
<1>4. NameOf(c) = <<Fields[t][i].name>>
  BY <1>1, <1>2 DEF NameOf
<1>5. Overridden(c) <=> \E q \in Nodes : /\ q[1] = t /\ q[2] > i
                                         /\ At(q).oneof = Fields[t][i].oneof /\ At(q).oneof # "none"
  BY <1>1, <1>2 DEF Overridden
<1>6. (\E q \in Nodes : q[1] = t /\ q[2] > i /\ At(q).oneof = Fields[t][i].oneof /\ At(q).oneof # "none")
      <=> Cleared(Fields[t], i)
  <2>1. ASSUME NEW q \in Nodes, q[1] = t, q[2] > i, At(q).oneof = Fields[t][i].oneof, At(q).oneof # "none"
        PROVE  Cleared(Fields[t], i)
    <3>1. q[2] \in i + 1 .. Len(Fields[t]) /\ At(q) = Fields[t][q[2]]
      BY <1>1, <2>1, NodeType DEF At
    <3> QED
      BY <2>1, <3>1 DEF Cleared
  <2>2. ASSUME NEW j \in i + 1 .. Len(Fields[t]), Fields[t][j].oneof = Fields[t][i].oneof,
               Fields[t][i].oneof # "none"
        PROVE  \E q \in Nodes : q[1] = t /\ q[2] > i /\ At(q).oneof = Fields[t][i].oneof /\ At(q).oneof # "none"
    <3>1. j \in 1 .. Len(Fields[t])
      BY <1>1
    <3>2. <<t, j>> \in Nodes /\ At(<<t, j>>) = Fields[t][j]
      BY <3>1, FieldType
    <3> QED
      BY <2>2, <3>2
  <2> QED
    BY <2>1, <2>2 DEF Cleared
<1> QED
  BY <1>1, <1>2, <1>3, <1>4, <1>5, <1>6 DEF EndOf
\* A chain of one field more.
LEMMA GrowChain ==
  ASSUME NEW t \in Messages, NEW i \in 1 .. Len(Fields[t]), Fields[t][i].kind = "message",
         NEW d \in Nat, NEW c \in ChainsTo(d, Fields[t][i].of)
  PROVE  LET g == Grow(<<t, i>>, c) IN
         /\ g \in ChainsTo(d + 1, t) /\ EndOf(g) = EndOf(c) /\ (IsLeaf(g) <=> IsLeaf(c))
         /\ NameOf(c) \in Seq(STRING) /\ NameOf(g) = <<Fields[t][i].name>> \o NameOf(c)
         /\ Overridden(g) <=> Cleared(Fields[t], i) \/ Overridden(c)
<1> DEFINE q == <<t, i>>
           g == Grow(q, c)
           n == Len(c)
<1>1. /\ c \in Seq(Nodes) /\ n \in 1 .. d /\ n \in Nat \ {0} /\ IsChain(Fields[t][i].of, c)
      /\ q \in Nodes /\ At(q) = Fields[t][i] /\ At(q).name \in STRING
  BY ChainType, FieldType
<1>2. /\ g \in Seq(Nodes) /\ Len(g) = n + 1 /\ g[1] = q /\ \A k \in 1 .. n : g[k + 1] = c[k]
  BY <1>1, GrowType
<1>3. g[1][1] = t /\ DOMAIN c = 1 .. n /\ DOMAIN g = 1 .. n + 1
  <2>1. q[1] = t
    OBVIOUS
  <2> HIDE DEF g, q
  <2> QED
    BY <1>1, <1>2, <2>1
<1>4. \A k \in 1 .. n + 1 : k = 1 \/ (k - 1 \in 1 .. n /\ g[k] = c[k - 1])
  <2> SUFFICES ASSUME NEW k \in 1 .. n + 1, k # 1 PROVE k - 1 \in 1 .. n /\ g[k] = c[k - 1]
    OBVIOUS
  <2>1. k - 1 \in 1 .. n /\ k - 1 + 1 = k
    BY <1>1
  <2> QED
    BY <1>2, <2>1
<1> HIDE DEF g, q, n
<1>5. IsChain(t, g)
  <2>1. ASSUME NEW k \in 1 .. Len(g) - 1
        PROVE  At(g[k]).kind = "message" /\ g[k + 1][1] = At(g[k]).of
    <3>1. k \in 1 .. n /\ g[k + 1] = c[k]
      BY <1>1, <1>2
    <3>2. CASE k = 1
      BY <1>1, <1>2, <3>1, <3>2 DEF IsChain
    <3>3. CASE k # 1
      <4>1. k - 1 \in 1 .. n - 1 /\ g[k] = c[k - 1] /\ k - 1 + 1 = k
        BY <1>1, <1>4, <3>1, <3>3
      <4> QED
        BY <1>1, <3>1, <4>1 DEF IsChain, n
    <3> QED
      BY <3>2, <3>3
  <2> QED
    BY <1>3, <2>1 DEF IsChain
<1>6. g \in ChainsTo(d + 1, t)
  <2>1. Len(g) \in 1 .. d + 1 /\ d + 1 \in Nat
    BY <1>1, <1>2
  <2> QED
    BY <1>2, <1>5, <2>1, ChainType
<1>7. EndOf(g) = EndOf(c)
  <2>1. n \in 1 .. n
    BY <1>1
  <2> QED
    BY <1>2, <2>1 DEF EndOf, n
<1>8. IsLeaf(g) <=> IsLeaf(c)
  BY <1>7 DEF IsLeaf, EndOf
<1>9. NameOf(c) \in Seq(STRING) /\ Len(NameOf(c)) = n /\ \A k \in 1 .. n : NameOf(c)[k] = At(c[k]).name
  <2>1. \A k \in 1 .. n : At(c[k]).name \in STRING
    <3> SUFFICES ASSUME NEW k \in 1 .. n PROVE At(c[k]).name \in STRING
      OBVIOUS
    <3>1. c[k] \in Nodes
      BY <1>1, <1>3
    <3>2. c[k] = <<c[k][1], c[k][2]>> /\ c[k][1] \in Messages /\ c[k][2] \in 1 .. Len(Fields[c[k][1]])
      BY <3>1, NodeType
    <3> QED
      BY <3>2, FieldType DEF At
  <2>2. NameOf(c) = [k \in 1 .. n |-> At(c[k]).name]
    BY <1>3 DEF NameOf
  <2> QED
    BY <1>1, <2>1, <2>2
<1>10. NameOf(g) = <<At(q).name>> \o NameOf(c)
  <2> DEFINE name == <<At(q).name>> \o NameOf(c)
  <2>1. NameOf(g) = [k \in 1 .. n + 1 |-> At(g[k]).name]
    BY <1>3 DEF NameOf
  <2>2. \A k \in 1 .. n + 1 : name[k] = IF k = 1 THEN At(q).name ELSE NameOf(c)[k - 1]
    BY <1>1, <1>9
  <2>3. name \in Seq(STRING) /\ Len(name) = n + 1
    BY <1>1, <1>9
  <2> HIDE DEF name
  <2>4. name = [k \in 1 .. n + 1 |-> name[k]]
    BY <1>1, <2>3
  <2>5. \A k \in 1 .. n + 1 : At(g[k]).name = IF k = 1 THEN At(q).name ELSE NameOf(c)[k - 1]
    BY <1>2, <1>4, <1>9
  <2>6. NameOf(g) = name
    BY <2>1, <2>2, <2>4, <2>5
  <2> QED
    BY <2>6 DEF name
<1>11. Overridden(g) <=> Cleared(Fields[t], i) \/ Overridden(c)
  <2> DEFINE Over(r) == \E x \in Nodes : x[1] = r[1] /\ x[2] > r[2] /\ At(x).oneof = At(r).oneof /\ At(x).oneof # "none"
  <2>1. Over(q) <=> Cleared(Fields[t], i)
    <3>1. Overridden(<<<<t, i>>>>) <=> Cleared(Fields[t], i)
      <4>1. 1 \in Nat \ {0}
        OBVIOUS
      <4> QED
        BY <4>1, OneField
    <3>2. Overridden(<<q>>) <=> Over(q)
      BY DEF Overridden
    <3> QED
      BY <3>1, <3>2 DEF q
  <2>2. Overridden(g) <=> \E k \in 1 .. n + 1 : Over(g[k])
    BY <1>3 DEF Overridden
  <2>3. Overridden(c) <=> \E k \in 1 .. n : Over(c[k])
    BY <1>3 DEF Overridden
  <2> HIDE DEF Over
  <2>4. 1 \in 1 .. n + 1 /\ \A k \in 1 .. n : k + 1 \in 1 .. n + 1
    BY <1>1
  <2>5. (\E k \in 1 .. n + 1 : Over(g[k])) <=> Over(q) \/ \E k \in 1 .. n : Over(c[k])
    BY <1>2, <1>4, <2>4
  <2> QED
    BY <2>1, <2>2, <2>3, <2>5
<1> QED
  BY <1>1, <1>6, <1>7, <1>8, <1>9, <1>10, <1>11 DEF g, q
\* A chain is one field, or one field more than a chain of its type.
LEMMA SplitChain ==
  ASSUME NEW t \in Messages, NEW d \in Nat, NEW c \in ChainsTo(d + 1, t)
  PROVE  \E i \in 1 .. Len(Fields[t]) :
           \/ c = <<<<t, i>>>>
           \/ /\ Fields[t][i].kind = "message"
              /\ \E r \in ChainsTo(d, Fields[t][i].of) : c = Grow(<<t, i>>, r)
<1>1. c \in Seq(Nodes) /\ Len(c) \in 1 .. d + 1 /\ IsChain(t, c) /\ DOMAIN c = 1 .. Len(c)
  <2>1. d + 1 \in Nat
    OBVIOUS
  <2> QED
    BY <2>1, ChainType
<1>2. c[1] \in Nodes /\ c[1][1] = t
  BY <1>1 DEF IsChain
<1>3. PICK i \in 1 .. Len(Fields[t]) : c[1] = <<t, i>>
  BY <1>2, NodeType
<1>4. At(c[1]) = Fields[t][i] /\ <<t, i>> \in Nodes
  BY <1>3, FieldType
<1>5. CASE Len(c) = 1
  <2>1. c = <<c[1]>>
    BY <1>1, <1>5
  <2> QED
    BY <1>3, <2>1
<1>6. CASE Len(c) # 1
  <2> DEFINE r == Tail(c)
             n == Len(c) - 1
             g == Grow(<<t, i>>, r)
  <2>1. /\ r \in Seq(Nodes) /\ Len(r) = n /\ n \in 1 .. d /\ n + 1 = Len(c) /\ DOMAIN r = 1 .. n
        /\ \A k \in 1 .. n : r[k] = c[k + 1]
    BY <1>1, <1>6
  <2>2. At(c[1]).kind = "message" /\ c[1 + 1][1] = At(c[1]).of
    <3>1. 1 \in 1 .. Len(c) - 1
      BY <2>1
    <3> QED
      BY <1>1, <3>1 DEF IsChain
  <2> HIDE DEF r, n
  <2>3. IsChain(Fields[t][i].of, r)
    <3>1. 1 \in 1 .. n
      BY <2>1
    <3>2. r[1][1] = Fields[t][i].of
      BY <1>4, <2>1, <2>2, <3>1
    <3>3. ASSUME NEW k \in 1 .. Len(r) - 1
          PROVE  At(r[k]).kind = "message" /\ r[k + 1][1] = At(r[k]).of
      <4>1. k \in 1 .. n /\ k + 1 \in 1 .. n /\ k + 1 \in 1 .. Len(c) - 1
        BY <2>1
      <4>2. At(c[k + 1]).kind = "message" /\ c[k + 1 + 1][1] = At(c[k + 1]).of
        BY <1>1, <4>1 DEF IsChain
      <4> QED
        BY <2>1, <4>1, <4>2
    <3> QED
      BY <3>2, <3>3 DEF IsChain
  <2>4. r \in ChainsTo(d, Fields[t][i].of)
    BY <2>1, <2>3, ChainType
  <2>5. g \in Seq(Nodes) /\ Len(g) = n + 1 /\ g[1] = c[1] /\ \A k \in 1 .. n : g[k + 1] = c[k + 1]
    BY <1>3, <1>4, <2>1, GrowType
  <2> HIDE DEF g
  <2>6. \A k \in 1 .. n + 1 : g[k] = c[k]
    <3> SUFFICES ASSUME NEW k \in 1 .. n + 1, k # 1 PROVE g[k] = c[k]
      BY <2>5
    <3>1. k - 1 \in 1 .. n /\ k - 1 + 1 = k
      BY <2>1
    <3> QED
      BY <2>5, <3>1
  <2>7. c = g
    <3>1. g = [k \in 1 .. n + 1 |-> g[k]] /\ c = [k \in 1 .. n + 1 |-> c[k]]
      BY <1>1, <2>1, <2>5
    <3> QED
      BY <2>6, <3>1
  <2> QED
    BY <1>4, <2>2, <2>4, <2>7 DEF g
<1> QED
  BY <1>5, <1>6

\* The leaves of a type, field by field.
FieldLeaves(d, t, i) ==
  IF Fields[t][i].kind = "message" THEN {Grow(<<t, i>>, c) : c \in LeavesTo(d, Fields[t][i].of)}
  ELSE {<<<<t, i>>>>}

LEMMA LeavesSplit ==
  ASSUME NEW t \in Messages, NEW d \in Nat
  PROVE  LeavesTo(d + 1, t) = UNION {FieldLeaves(d, t, i) : i \in 1 .. Len(Fields[t])}
<1>1. ASSUME NEW i \in 1 .. Len(Fields[t]), NEW c \in FieldLeaves(d, t, i) PROVE c \in LeavesTo(d + 1, t)
  <2>1. CASE Fields[t][i].kind = "message"
    <3>1. PICK r \in LeavesTo(d, Fields[t][i].of) : c = Grow(<<t, i>>, r)
      BY <2>1 DEF FieldLeaves
    <3>2. r \in ChainsTo(d, Fields[t][i].of) /\ IsLeaf(r)
      BY DEF LeavesTo
    <3> QED
      BY <2>1, <3>1, <3>2, GrowChain DEF LeavesTo
  <2>2. CASE Fields[t][i].kind # "message"
    <3>1. c = <<<<t, i>>>> /\ d + 1 \in Nat \ {0}
      BY <2>2 DEF FieldLeaves
    <3>2. c \in ChainsTo(d + 1, t) /\ EndOf(c) = Fields[t][i]
      BY <3>1, OneField
    <3> QED
      BY <2>2, <3>2 DEF LeavesTo, IsLeaf, EndOf
  <2> QED
    BY <2>1, <2>2
<1>2. ASSUME NEW c \in LeavesTo(d + 1, t) PROVE \E i \in 1 .. Len(Fields[t]) : c \in FieldLeaves(d, t, i)
  <2>1. c \in ChainsTo(d + 1, t) /\ IsLeaf(c)
    BY DEF LeavesTo
  <2>2. PICK i \in 1 .. Len(Fields[t]) :
          \/ c = <<<<t, i>>>>
          \/ /\ Fields[t][i].kind = "message"
             /\ \E r \in ChainsTo(d, Fields[t][i].of) : c = Grow(<<t, i>>, r)
    BY <2>1, SplitChain
  <2>3. CASE c = <<<<t, i>>>>
    <3>1. d + 1 \in Nat \ {0}
      OBVIOUS
    <3>2. EndOf(c) = Fields[t][i]
      BY <2>3, <3>1, OneField
    <3>3. Fields[t][i].kind # "message"
      BY <2>1, <3>2 DEF IsLeaf, EndOf
    <3> QED
      BY <2>3, <3>3 DEF FieldLeaves
  <2>4. CASE /\ Fields[t][i].kind = "message"
             /\ \E r \in ChainsTo(d, Fields[t][i].of) : c = Grow(<<t, i>>, r)
    <3>1. PICK r \in ChainsTo(d, Fields[t][i].of) : c = Grow(<<t, i>>, r)
      BY <2>4
    <3>2. IsLeaf(r)
      BY <2>1, <2>4, <3>1, GrowChain
    <3>3. r \in LeavesTo(d, Fields[t][i].of)
      BY <3>2 DEF LeavesTo
    <3> QED
      BY <2>4, <3>1, <3>3 DEF FieldLeaves
  <2> QED
    BY <2>2, <2>3, <2>4
<1> QED
  BY <1>1, <1>2

\* The names of a leaf of a field, below its own name, are those below the type's.
LEMMA NameBelow ==
  ASSUME NEW S, NEW root \in Seq(S), NEW n \in S, NEW x \in Seq(S)
  PROVE  /\ root \o (<<n>> \o x) = Append(root, n) \o x
         /\ root \o <<n>> = Append(root, n)
         /\ Append(root, n) \in Seq(S)
<1>1. <<n>> \in Seq(S)
  OBVIOUS
<1>2. Append(root, n) = root \o <<n>> /\ Append(root, n) \in Seq(S)
  BY AppendIsConcat, AppendProperties
<1>3. (root \o <<n>>) \o x = root \o (<<n>> \o x)
  BY <1>1, ConcatAssociative
<1> QED
  BY <1>2, <1>3
-------------------------------------------------------------------------------
\* The arguments of a type are its leaves.

Param            == [name : Seq(STRING), kind : ScalarKinds]
ParamOf(root, c) == [name |-> root \o NameOf(c), kind |-> KindOf(c)]
Below(t, i, root) == Append(root, Fields[t][i].name)

\* What the loop of parseABIFields finds for the field i of t.
FieldStep(d, t, i, root) ==
  FieldParams(Fields[t][i], Below(t, i, root), parseABIFields[d][Fields[t][i].of][Below(t, i, root)])

\* The loop ends with "ok" when every field does.
LEMMA EveryFieldParsed ==
  ASSUME NEW d \in Nat, d + 1 \in 1 .. MaxDepth, NEW t \in Messages, NEW root \in Seq(STRING),
         parseABIFields[d + 1][t][root].outcome = "ok"
  PROVE  /\ \A i \in 1 .. Len(Fields[t]) : FieldStep(d, t, i, root).outcome = "ok"
         /\ parseABIFields[d + 1][t][root].params
              = FlattenSeq([i \in 1 .. Len(Fields[t]) |-> FieldStep(d, t, i, root).params])
<1> DEFINE n == Len(Fields[t])
           step == [i \in 1 .. n |-> FieldStep(d, t, i, root)]
           result == [outcome |-> "ok", params |-> FlattenSeq([i \in 1 .. n |-> step[i].params])]
<1>1. n \in Nat
  BY ArgumentConstants
<1>2. parseABIFields[d + 1][t][root] = InOrder(step, result)
  <2>1. PICK e \in 1 .. MaxDepth : e = d + 1
    OBVIOUS
  <2>2. parseABIFields[e][t][root] = MessageParams(parseABIFields[e - 1], t, root) /\ e - 1 = d
    BY <2>1, ParamsDef
  <2>3. parseABIFields[e][t][root] = MessageParams(parseABIFields[d], t, root)
    BY <2>2
  <2>4. MessageParams(parseABIFields[d], t, root) = InOrder(step, result)
    BY Zenon DEF MessageParams, FieldStep, Below
  <2> QED
    BY <2>1, <2>3, <2>4
<1>3. DOMAIN step = 1 .. n
  OBVIOUS
<1>4. \A i \in 1 .. n : step[i] = FieldStep(d, t, i, root)
  OBVIOUS
<1>5. result.params = FlattenSeq([i \in 1 .. n |-> FieldStep(d, t, i, root).params])
  <2>1. [i \in 1 .. n |-> step[i].params] = [i \in 1 .. n |-> FieldStep(d, t, i, root).params]
    BY <1>4
  <2> QED
    BY <2>1
<1> HIDE DEF step, result, n
<1>6. InOrder(step, result) = result /\ \A i \in 1 .. n : step[i].outcome = "ok"
  BY <1>1, <1>2, <1>3, InOrderIs
<1> QED
  BY <1>2, <1>4, <1>5, <1>6 DEF n

LEMMA FieldBelow ==
  ASSUME NEW t \in Messages, NEW i \in 1 .. Len(Fields[t]), NEW root \in Seq(STRING)
  PROVE  /\ Below(t, i, root) \in Seq(STRING) /\ root \o <<Fields[t][i].name>> = Below(t, i, root)
         /\ \A x \in Seq(STRING) : root \o (<<Fields[t][i].name>> \o x) = Below(t, i, root) \o x
<1> DEFINE f == Fields[t][i]
           name == Below(t, i, root)
<1>1. name = Append(root, f.name)
  BY DEF Below
<1>2. PICK m \in STRING : m = f.name
  BY FieldType
<1>3. ASSUME NEW x \in Seq(STRING)
      PROVE  /\ root \o (<<m>> \o x) = Append(root, m) \o x
             /\ root \o <<m>> = Append(root, m) /\ Append(root, m) \in Seq(STRING)
  BY NameBelow, Zenon
<1>4. <<>> \in Seq(STRING)
  OBVIOUS
<1> HIDE DEF f, name
<1>5. name \in Seq(STRING) /\ root \o <<f.name>> = name
      /\ \A x \in Seq(STRING) : root \o (<<f.name>> \o x) = name \o x
  BY <1>1, <1>2, <1>3, <1>4
<1> QED
  BY <1>5 DEF f, name

\* What is listed at a nesting of d, for every type and every name above it.
ListsLeaves(d) ==
  \A t \in Messages, root \in Seq(STRING) :
    parseABIFields[d][t][root].outcome = "ok" =>
      /\ parseABIFields[d][t][root].params \in Seq(Param)
      /\ Range(parseABIFields[d][t][root].params) = {ParamOf(root, c) : c \in LeavesTo(d, t)}

LEMMA FieldListed ==
  ASSUME NEW d \in Nat, ListsLeaves(d), NEW t \in Messages, NEW i \in 1 .. Len(Fields[t]),
         NEW root \in Seq(STRING), FieldStep(d, t, i, root).outcome = "ok"
  PROVE  /\ FieldStep(d, t, i, root).params \in Seq(Param)
         /\ Range(FieldStep(d, t, i, root).params) = {ParamOf(root, c) : c \in FieldLeaves(d, t, i)}
<1> DEFINE f == Fields[t][i]
           name == Below(t, i, root)
           q == <<t, i>>
<1>1. f.name \in STRING /\ (f.kind = "message" => f.of \in Messages)
  BY FieldType
<1>2. name \in Seq(STRING) /\ root \o <<f.name>> = name
      /\ \A x \in Seq(STRING) : root \o (<<f.name>> \o x) = name \o x
  BY <1>1, FieldBelow
<1>3. CASE f.kind = "message"
  <2>1. FieldStep(d, t, i, root) = parseABIFields[d][f.of][name]
    BY <1>3 DEF FieldStep, FieldParams
  <2>2. /\ parseABIFields[d][f.of][name].params \in Seq(Param)
        /\ Range(parseABIFields[d][f.of][name].params) = {ParamOf(name, c) : c \in LeavesTo(d, f.of)}
    BY <1>1, <1>2, <1>3, <2>1 DEF ListsLeaves
  <2>3. \A c \in LeavesTo(d, f.of) : ParamOf(name, c) = ParamOf(root, Grow(q, c))
    <3> SUFFICES ASSUME NEW c \in LeavesTo(d, f.of) PROVE ParamOf(name, c) = ParamOf(root, Grow(q, c))
      OBVIOUS
    <3>1. c \in ChainsTo(d, f.of)
      BY DEF LeavesTo
    <3>2. EndOf(Grow(q, c)) = EndOf(c) /\ NameOf(c) \in Seq(STRING)
          /\ NameOf(Grow(q, c)) = <<f.name>> \o NameOf(c)
      BY <1>3, <3>1, GrowChain
    <3>3. root \o NameOf(Grow(q, c)) = name \o NameOf(c)
      BY <1>2, <3>2
    <3> HIDE DEF name, q, f
    <3> QED
      BY <3>2, <3>3 DEF ParamOf, KindOf, EndOf
  <2>4. FieldLeaves(d, t, i) = {Grow(q, c) : c \in LeavesTo(d, f.of)}
    BY <1>3 DEF FieldLeaves
  <2> HIDE DEF f, name, q
  <2>5. {ParamOf(root, c) : c \in FieldLeaves(d, t, i)} = {ParamOf(name, c) : c \in LeavesTo(d, f.of)}
    BY <2>3, <2>4
  <2> QED
    BY <2>1, <2>2, <2>5
<1>4. CASE f.kind \in ScalarKinds /\ f.kind # "message"
  <2> DEFINE p == [name |-> name, kind |-> f.kind]
             c == <<q>>
  <2>1. FieldStep(d, t, i, root).params = <<p>>
    BY <1>4 DEF FieldStep, FieldParams
  <2>2. <<p>> \in Seq(Param) /\ Range(<<p>>) = {p}
    <3>1. p \in Param
      BY <1>2, <1>4 DEF Param
    <3> HIDE DEF p
    <3> QED
      BY <3>1 DEF Range
  <2>3. ParamOf(root, c) = p
    <3>1. 1 \in Nat \ {0}
      OBVIOUS
    <3>2. EndOf(c) = f /\ NameOf(c) = <<f.name>>
      BY <3>1, OneField
    <3> QED
      BY <1>2, <3>2 DEF ParamOf, KindOf, EndOf
  <2>4. FieldLeaves(d, t, i) = {c}
    BY <1>4 DEF FieldLeaves
  <2> HIDE DEF p, c
  <2> QED
    BY <2>1, <2>2, <2>3, <2>4
<1>5. CASE f.kind \notin ScalarKinds /\ f.kind # "message"
  BY <1>5 DEF FieldStep, FieldParams
<1> QED
  BY <1>3, <1>4, <1>5

LEMMA AllListLeaves ==
  \A d \in Nat : d <= MaxDepth => ListsLeaves(d)
<1> DEFINE T == {d \in Nat : d <= MaxDepth => ListsLeaves(d)}
<1>1. MaxDepth \in Nat
  BY ArgumentConstants
<1>2. 0 \in T
  BY ParamsDef DEF ListsLeaves, NoParams
<1>3. ASSUME NEW d \in T, d + 1 <= MaxDepth PROVE ListsLeaves(d + 1)
  <2>1. ListsLeaves(d) /\ d + 1 \in 1 .. MaxDepth /\ d \in Nat
    BY <1>1, <1>3
  <2> SUFFICES ASSUME NEW t \in Messages, NEW root \in Seq(STRING),
                      parseABIFields[d + 1][t][root].outcome = "ok"
               PROVE  /\ parseABIFields[d + 1][t][root].params \in Seq(Param)
                      /\ Range(parseABIFields[d + 1][t][root].params)
                           = {ParamOf(root, c) : c \in LeavesTo(d + 1, t)}
    BY DEF ListsLeaves
  <2> DEFINE n == Len(Fields[t])
             seqs == [i \in 1 .. n |-> FieldStep(d, t, i, root).params]
  <2>2. n \in Nat
    BY ArgumentConstants
  <2>3. \A i \in 1 .. n : FieldStep(d, t, i, root).outcome = "ok"
    BY <2>1, EveryFieldParsed
  <2>4. parseABIFields[d + 1][t][root].params = FlattenSeq(seqs)
    BY <2>1, EveryFieldParsed
  <2>5. \A i \in 1 .. n : seqs[i] \in Seq(Param)
                          /\ Range(seqs[i]) = {ParamOf(root, c) : c \in FieldLeaves(d, t, i)}
    BY <2>1, <2>3, FieldListed
  <2>6. seqs \in [1 .. n -> Seq(Param)]
    BY <2>5
  <2>7. LeavesTo(d + 1, t) = UNION {FieldLeaves(d, t, i) : i \in 1 .. n}
    BY <2>1, LeavesSplit
  <2> HIDE DEF n, seqs
  <2>8. FlattenSeq(seqs) \in Seq(Param) /\ Range(FlattenSeq(seqs)) = UNION {Range(seqs[j]) : j \in 1 .. n}
    <3>1. Gathers(FlattenSeq(seqs), Param, seqs, n)
      BY <2>2, <2>6, FlattenGathers, Zenon
    <3> QED
      BY <3>1 DEF Gathers
  <2>9. UNION {Range(seqs[j]) : j \in 1 .. n} = {ParamOf(root, c) : c \in LeavesTo(d + 1, t)}
    <3>1. ASSUME NEW j \in 1 .. n, NEW x \in Range(seqs[j])
          PROVE  \E c \in LeavesTo(d + 1, t) : x = ParamOf(root, c)
      <4>1. PICK c \in FieldLeaves(d, t, j) : x = ParamOf(root, c)
        BY <2>5, <3>1
      <4> QED
        BY <2>7, <4>1
    <3>2. ASSUME NEW c \in LeavesTo(d + 1, t)
          PROVE  \E j \in 1 .. n : ParamOf(root, c) \in Range(seqs[j])
      <4>1. PICK j \in 1 .. n : c \in FieldLeaves(d, t, j)
        BY <2>7
      <4> QED
        BY <2>5, <4>1
    <3> QED
      BY <3>1, <3>2
  <2> QED
    BY <2>4, <2>8, <2>9
<1>4. T = Nat
  <2>1. \A d \in T : d + 1 \in T
    BY <1>3
  <2> HIDE DEF T
  <2>2. T \in SUBSET Nat
    BY DEF T
  <2> QED
    BY <1>2, <2>1, <2>2, NatSetInduction
<1> QED
  BY <1>4
-------------------------------------------------------------------------------
\* What is set for the data: the leaves that no later member of a oneof replaces.

KeptTo(d, t)           == {c \in LeavesTo(d, t) : ~Overridden(c)}
FieldKept(d, t, i)     == IF Fields[t][i].kind = "message"
                          THEN {Grow(<<t, i>>, c) : c \in KeptTo(d, Fields[t][i].of)}
                          ELSE {<<<<t, i>>>>}
TextOf(data, root, c)  == data[root \o NameOf(c)]
SetOf(data, root, c)   == <<root \o NameOf(c), Converted(KindOf(c), TextOf(data, root, c))>>
Refused(data, root, c) == Refuses(KindOf(c), TextOf(data, root, c))

\* What dataToMessage does for the field i of t.
ValueStep(data, d, t, i, root) ==
  FieldValue(Fields[t][i], Below(t, i, root), dataToMessage(data)[d][Fields[t][i].of][Below(t, i, root)], data)

LEMMA KeptSplit ==
  ASSUME NEW t \in Messages, NEW d \in Nat
  PROVE  KeptTo(d + 1, t) = UNION {FieldKept(d, t, i) : i \in {k \in 1 .. Len(Fields[t]) : ~Cleared(Fields[t], k)}}
<1>1. ASSUME NEW i \in 1 .. Len(Fields[t]), NEW c \in FieldLeaves(d, t, i)
      PROVE  Overridden(c) <=> Cleared(Fields[t], i) \/ c \notin FieldKept(d, t, i)
  <2>1. CASE Fields[t][i].kind = "message"
    <3>1. PICK r \in LeavesTo(d, Fields[t][i].of) : c = Grow(<<t, i>>, r)
      BY <2>1 DEF FieldLeaves
    <3>2. \A x \in LeavesTo(d, Fields[t][i].of) :
            Overridden(Grow(<<t, i>>, x)) <=> Cleared(Fields[t], i) \/ Overridden(x)
      BY <2>1, GrowChain DEF LeavesTo
    <3>3. FieldKept(d, t, i) = {Grow(<<t, i>>, x) : x \in KeptTo(d, Fields[t][i].of)}
      BY <2>1 DEF FieldKept
    <3>4. ~Overridden(r) => c \in FieldKept(d, t, i)
      BY <3>1, <3>3 DEF KeptTo
    <3>5. ASSUME c \in FieldKept(d, t, i), ~Cleared(Fields[t], i) PROVE ~Overridden(c)
      <4>1. PICK x \in KeptTo(d, Fields[t][i].of) : c = Grow(<<t, i>>, x)
        BY <3>3, <3>5
      <4>2. x \in LeavesTo(d, Fields[t][i].of) /\ ~Overridden(x)
        BY DEF KeptTo
      <4> QED
        BY <3>2, <3>5, <4>1, <4>2
    <3> QED
      BY <3>1, <3>2, <3>4, <3>5
  <2>2. CASE Fields[t][i].kind # "message"
    <3>1. c = <<<<t, i>>>> /\ c \in FieldKept(d, t, i) /\ 1 \in Nat \ {0}
      BY <2>2 DEF FieldLeaves, FieldKept
    <3> QED
      BY <3>1, OneField
  <2> QED
    BY <2>1, <2>2
<1>2. \A i \in 1 .. Len(Fields[t]) : FieldKept(d, t, i) \subseteq FieldLeaves(d, t, i)
  BY DEF FieldKept, FieldLeaves, KeptTo
<1>3. LeavesTo(d + 1, t) = UNION {FieldLeaves(d, t, i) : i \in 1 .. Len(Fields[t])}
  BY LeavesSplit
<1>4. ASSUME NEW c \in KeptTo(d + 1, t)
      PROVE  \E i \in 1 .. Len(Fields[t]) : ~Cleared(Fields[t], i) /\ c \in FieldKept(d, t, i)
  <2>1. c \in LeavesTo(d + 1, t) /\ ~Overridden(c)
    BY DEF KeptTo
  <2>2. PICK i \in 1 .. Len(Fields[t]) : c \in FieldLeaves(d, t, i)
    BY <1>3, <2>1
  <2> QED
    BY <1>1, <2>1, <2>2
<1>5. ASSUME NEW i \in 1 .. Len(Fields[t]), ~Cleared(Fields[t], i), NEW c \in FieldKept(d, t, i)
      PROVE  c \in KeptTo(d + 1, t)
  BY <1>1, <1>2, <1>3, <1>5 DEF KeptTo
<1> QED
  BY <1>4, <1>5

\* It ends with all that is set, or as one of the fields that are not ok.
LEMMA FieldsSet ==
  ASSUME NEW data, NEW d \in Nat, d + 1 \in 1 .. MaxDepth, NEW t \in Messages, NEW root \in Seq(STRING)
  PROVE  \/ /\ \A i \in 1 .. Len(Fields[t]) : ValueStep(data, d, t, i, root).outcome = "ok"
            /\ dataToMessage(data)[d + 1][t][root].outcome = "ok"
            /\ dataToMessage(data)[d + 1][t][root].set
                 = UNION {ValueStep(data, d, t, i, root).set : i \in {k \in 1 .. Len(Fields[t]) : ~Cleared(Fields[t], k)}}
         \/ \E i \in 1 .. Len(Fields[t]) : /\ ValueStep(data, d, t, i, root).outcome # "ok"
                                           /\ dataToMessage(data)[d + 1][t][root] = ValueStep(data, d, t, i, root)
<1> DEFINE n == Len(Fields[t])
           step == [i \in 1 .. n |-> ValueStep(data, d, t, i, root)]
           result == [outcome |-> "ok", set |-> UNION {step[i].set : i \in {k \in 1 .. n : ~Cleared(Fields[t], k)}}]
<1>1. n \in Nat
  BY ArgumentConstants
<1>2. dataToMessage(data)[d + 1][t][root] = InOrder(step, result)
  <2>1. PICK e \in 1 .. MaxDepth : e = d + 1
    OBVIOUS
  <2>2. /\ dataToMessage(data)[e][t][root] = MessageValues(dataToMessage(data)[e - 1], data, t, root)
        /\ e - 1 = d
    <3>1. \A k \in 1 .. MaxDepth :
            dataToMessage(data)[k][t][root] = MessageValues(dataToMessage(data)[k - 1], data, t, root)
      BY ValuesDef, Zenon
    <3>2. e - 1 = d
      BY <2>1
    <3> QED
      BY <3>1, <3>2, Zenon
  <2>3. dataToMessage(data)[e][t][root] = MessageValues(dataToMessage(data)[d], data, t, root)
    BY <2>2
  <2>4. MessageValues(dataToMessage(data)[d], data, t, root) = InOrder(step, result)
    BY Zenon DEF MessageValues, ValueStep, Below
  <2> QED
    BY <2>1, <2>3, <2>4
<1>3. DOMAIN step = 1 .. n
  OBVIOUS
<1>4. \A i \in 1 .. n : step[i] = ValueStep(data, d, t, i, root)
  OBVIOUS
<1>5. /\ result.outcome = "ok"
      /\ result.set = UNION {ValueStep(data, d, t, i, root).set : i \in {k \in 1 .. n : ~Cleared(Fields[t], k)}}
  <2>1. \A i \in {k \in 1 .. n : ~Cleared(Fields[t], k)} : step[i] = ValueStep(data, d, t, i, root)
    BY <1>4
  <2> HIDE DEF step
  <2>2. result.outcome = "ok" /\ result.set = UNION {step[i].set : i \in {k \in 1 .. n : ~Cleared(Fields[t], k)}}
    OBVIOUS
  <2> HIDE DEF result
  <2> QED
    BY <2>1, <2>2
<1> HIDE DEF step, result, n
<1>6. \/ /\ InOrder(step, result) = result
         /\ \A i \in 1 .. n : step[i].outcome = "ok"
      \/ \E i \in 1 .. n : step[i].outcome # "ok" /\ InOrder(step, result) = step[i]
  BY <1>1, <1>3, InOrderIs
<1> QED
  BY <1>2, <1>4, <1>5, <1>6 DEF n

\* How building ends, told by the leaves: all of kept is set, or something is
\* repeated among the chains, or one of the leaves is refused.
Answers(r, kept, leaves, chains, data, root) ==
  \/ /\ r.outcome = "ok" /\ r.set = {SetOf(data, root, c) : c \in kept}
     /\ \A c \in leaves : ~Refused(data, root, c)
  \/ r.outcome = "set" /\ \E c \in chains : EndOf(c).repeated
  \/ r.outcome = "error" /\ \E c \in leaves : Refused(data, root, c)

\* The data has an argument for each of the leaves.
Given(data, leaves, root) == \A c \in leaves : root \o NameOf(c) \in DOMAIN data

AnswersAt(data, d) ==
  \A t \in Messages, root \in Seq(STRING) :
    parseABIFields[d][t][root].outcome = "ok" /\ Given(data, LeavesTo(d, t), root) =>
      Answers(dataToMessage(data)[d][t][root], KeptTo(d, t), LeavesTo(d, t), ChainsTo(d, t), data, root)

LEMMA FieldAnswers ==
  ASSUME NEW data, NEW d \in Nat, AnswersAt(data, d), NEW t \in Messages, NEW i \in 1 .. Len(Fields[t]),
         NEW root \in Seq(STRING), FieldStep(d, t, i, root).outcome = "ok",
         Given(data, FieldLeaves(d, t, i), root)
  PROVE  Answers(ValueStep(data, d, t, i, root), FieldKept(d, t, i), FieldLeaves(d, t, i),
                 ChainsTo(d + 1, t), data, root)
<1> DEFINE f == Fields[t][i]
           name == Below(t, i, root)
           q == <<t, i>>
           r == ValueStep(data, d, t, i, root)
<1>1. f.name \in STRING /\ (f.kind = "message" => f.of \in Messages)
  BY FieldType
<1>2. name \in Seq(STRING) /\ root \o <<f.name>> = name
      /\ \A x \in Seq(STRING) : root \o (<<f.name>> \o x) = name \o x
  BY <1>1, FieldBelow
<1>0. d + 1 \in Nat \ {0}
  OBVIOUS
<1>c. <<q>> \in ChainsTo(d + 1, t) /\ EndOf(<<q>>) = f /\ NameOf(<<q>>) = <<f.name>>
  BY <1>0, OneField
<1>3. CASE f.kind = "message"
  <2> DEFINE m == dataToMessage(data)[d][f.of][name]
  <2>1. r = IF m.outcome = "ok" /\ f.repeated THEN [outcome |-> "set", set |-> {}] ELSE m
    BY <1>3 DEF ValueStep, FieldValue
  <2>2. parseABIFields[d][f.of][name].outcome = "ok"
    BY <1>3 DEF FieldStep, FieldParams
  <2>3. /\ FieldLeaves(d, t, i) = {Grow(q, c) : c \in LeavesTo(d, f.of)}
        /\ FieldKept(d, t, i) = {Grow(q, c) : c \in KeptTo(d, f.of)}
    BY <1>3 DEF FieldLeaves, FieldKept
  <2>4. ASSUME NEW c \in ChainsTo(d, f.of)
        PROVE  /\ Grow(q, c) \in ChainsTo(d + 1, t) /\ EndOf(Grow(q, c)) = EndOf(c)
               /\ root \o NameOf(Grow(q, c)) = name \o NameOf(c)
    <3>1. /\ Grow(q, c) \in ChainsTo(d + 1, t) /\ EndOf(Grow(q, c)) = EndOf(c)
          /\ NameOf(c) \in Seq(STRING) /\ NameOf(Grow(q, c)) = <<f.name>> \o NameOf(c)
      BY <1>3, GrowChain
    <3> HIDE DEF name, q, f
    <3> QED
      BY <1>2, <3>1
  <2>5. KeptTo(d, f.of) \subseteq LeavesTo(d, f.of) /\ LeavesTo(d, f.of) \subseteq ChainsTo(d, f.of)
    BY DEF KeptTo, LeavesTo
  <2> HIDE DEF f, name, q, r, m
  <2>6. \A c \in LeavesTo(d, f.of) : SetOf(data, name, c) = SetOf(data, root, Grow(q, c))
                                     /\ (Refused(data, name, c) <=> Refused(data, root, Grow(q, c)))
    BY <2>4, <2>5 DEF SetOf, Refused, TextOf, KindOf, EndOf
  <2>7. Given(data, LeavesTo(d, f.of), name)
    <3> SUFFICES ASSUME NEW c \in LeavesTo(d, f.of) PROVE name \o NameOf(c) \in DOMAIN data
      BY DEF Given
    <3>1. root \o NameOf(Grow(q, c)) \in DOMAIN data
      BY <2>3 DEF Given
    <3> QED
      BY <2>4, <2>5, <3>1
  <2>8. Answers(m, KeptTo(d, f.of), LeavesTo(d, f.of), ChainsTo(d, f.of), data, name)
    BY <1>1, <1>2, <1>3, <2>2, <2>7, Zenon DEF AnswersAt, m
  <2>9. CASE /\ m.outcome = "ok" /\ m.set = {SetOf(data, name, c) : c \in KeptTo(d, f.of)}
             /\ \A c \in LeavesTo(d, f.of) : ~Refused(data, name, c)
    <3>1. CASE f.repeated
      <4>1. r.outcome = "set"
        BY <2>1, <2>9, <3>1
      <4> QED
        BY <1>c, <3>1, <4>1 DEF Answers, r
    <3>2. CASE ~f.repeated
      <4>1. r = m
        BY <2>1, <3>2
      <4>2. m.set = {SetOf(data, root, c) : c \in FieldKept(d, t, i)}
        BY <2>3, <2>5, <2>6, <2>9
      <4>3. \A c \in FieldLeaves(d, t, i) : ~Refused(data, root, c)
        BY <2>3, <2>6, <2>9
      <4> QED
        BY <2>9, <4>1, <4>2, <4>3 DEF Answers, r
    <3> QED
      BY <3>1, <3>2
  <2>10. CASE m.outcome = "set" /\ \E c \in ChainsTo(d, f.of) : EndOf(c).repeated
    <3>1. PICK c \in ChainsTo(d, f.of) : EndOf(c).repeated
      BY <2>10
    <3>2. r = m /\ Grow(q, c) \in ChainsTo(d + 1, t) /\ EndOf(Grow(q, c)).repeated
      BY <2>1, <2>4, <2>10, <3>1
    <3> QED
      BY <2>10, <3>2 DEF Answers, r
  <2>11. CASE m.outcome = "error" /\ \E c \in LeavesTo(d, f.of) : Refused(data, name, c)
    <3>1. PICK c \in LeavesTo(d, f.of) : Refused(data, name, c)
      BY <2>11
    <3>2. r = m /\ Grow(q, c) \in FieldLeaves(d, t, i) /\ Refused(data, root, Grow(q, c))
      BY <2>1, <2>3, <2>6, <2>11, <3>1
    <3> QED
      BY <2>11, <3>2 DEF Answers, r
  <2> QED
    BY <2>8, <2>9, <2>10, <2>11 DEF Answers
<1>4. CASE f.kind # "message"
  <2> DEFINE c == <<q>>
  <2>1. FieldLeaves(d, t, i) = {c} /\ FieldKept(d, t, i) = {c}
    BY <1>4 DEF FieldLeaves, FieldKept
  <2>2. root \o NameOf(c) = name /\ KindOf(c) = f.kind
    BY <1>2, <1>c DEF KindOf, EndOf
  <2>3. name \in DOMAIN data
    BY <2>1, <2>2 DEF Given
  <2>4. r = IF Refuses(f.kind, data[name]) THEN [outcome |-> "error", set |-> {}]
            ELSE IF f.repeated THEN [outcome |-> "set", set |-> {}]
            ELSE [outcome |-> "ok", set |-> {<<name, Converted(f.kind, data[name])>>}]
    BY <1>4, <2>3 DEF ValueStep, FieldValue
  <2>5. SetOf(data, root, c) = <<name, Converted(f.kind, data[name])>>
        /\ (Refused(data, root, c) <=> Refuses(f.kind, data[name]))
    BY <2>2 DEF SetOf, Refused, TextOf
  <2>6. c \in ChainsTo(d + 1, t) /\ EndOf(c) = f
    BY <1>c
  <2> HIDE DEF c, f, name, r, q
  <2>7. Answers(r, {c}, {c}, ChainsTo(d + 1, t), data, root)
    <3>1. CASE Refuses(f.kind, data[name])
      BY <2>4, <2>5, <3>1 DEF Answers
    <3>2. CASE ~Refuses(f.kind, data[name]) /\ f.repeated
      BY <2>4, <2>6, <3>2 DEF Answers
    <3>3. CASE ~Refuses(f.kind, data[name]) /\ ~f.repeated
      <4>1. r.outcome = "ok" /\ r.set = {SetOf(data, root, c)} /\ ~Refused(data, root, c)
        BY <2>4, <2>5, <3>3
      <4>2. {SetOf(data, root, x) : x \in {c}} = {SetOf(data, root, c)}
        OBVIOUS
      <4> QED
        BY <4>1, <4>2 DEF Answers
    <3> QED
      BY <3>1, <3>2, <3>3
  <2> QED
    BY <2>1, <2>7 DEF r
<1> QED
  BY <1>3, <1>4

LEMMA AllAnswered ==
  ASSUME NEW data
  PROVE  \A d \in Nat : d <= MaxDepth => AnswersAt(data, d)
<1> DEFINE T == {d \in Nat : d <= MaxDepth => AnswersAt(data, d)}
<1>1. MaxDepth \in Nat
  BY ArgumentConstants
<1>2. 0 \in T
  BY ParamsDef DEF AnswersAt, NoParams
<1>3. ASSUME NEW d \in T, d + 1 <= MaxDepth PROVE AnswersAt(data, d + 1)
  <2>1. AnswersAt(data, d) /\ d + 1 \in 1 .. MaxDepth /\ d \in Nat
    BY <1>1, <1>3
  <2> DEFINE e == d + 1
  <2> SUFFICES ASSUME NEW t \in Messages, NEW root \in Seq(STRING),
                      parseABIFields[e][t][root].outcome = "ok", Given(data, LeavesTo(e, t), root)
               PROVE  Answers(dataToMessage(data)[e][t][root], KeptTo(e, t), LeavesTo(e, t),
                              ChainsTo(e, t), data, root)
    BY DEF AnswersAt
  <2> DEFINE n == Len(Fields[t])
             r == dataToMessage(data)[e][t][root]
             val(i) == ValueStep(data, d, t, i, root)
             free == {k \in 1 .. n : ~Cleared(Fields[t], k)}
  <2>2. \A i \in 1 .. n : FieldStep(d, t, i, root).outcome = "ok"
    BY <2>1, EveryFieldParsed
  <2>3. LeavesTo(e, t) = UNION {FieldLeaves(d, t, i) : i \in 1 .. n}
    BY <2>1, LeavesSplit
  <2>4. KeptTo(e, t) = UNION {FieldKept(d, t, i) : i \in free}
    BY <2>1, KeptSplit
  <2>5. ASSUME NEW i \in 1 .. n
        PROVE  Answers(val(i), FieldKept(d, t, i), FieldLeaves(d, t, i), ChainsTo(e, t), data, root)
    <3>1. Given(data, FieldLeaves(d, t, i), root)
      BY <2>3 DEF Given
    <3> QED
      BY <2>1, <2>2, <3>1, FieldAnswers
  <2>6. \/ /\ \A i \in 1 .. n : val(i).outcome = "ok"
           /\ r.outcome = "ok" /\ r.set = UNION {val(i).set : i \in free}
        \/ \E i \in 1 .. n : val(i).outcome # "ok" /\ r = val(i)
    BY <2>1, FieldsSet
  <2>7. free \subseteq 1 .. n
    OBVIOUS
  <2> HIDE DEF e, n, r, val, free
  <2>8. CASE /\ \A i \in 1 .. n : val(i).outcome = "ok"
             /\ r.outcome = "ok" /\ r.set = UNION {val(i).set : i \in free}
    <3>1. \A i \in 1 .. n : /\ val(i).set = {SetOf(data, root, c) : c \in FieldKept(d, t, i)}
                            /\ \A c \in FieldLeaves(d, t, i) : ~Refused(data, root, c)
      BY <2>5, <2>8 DEF Answers
    <3>2. \A c \in LeavesTo(e, t) : ~Refused(data, root, c)
      BY <2>3, <3>1
    <3>3. ASSUME NEW x \in r.set PROVE \E c \in KeptTo(e, t) : x = SetOf(data, root, c)
      <4>1. PICK i \in free : x \in val(i).set
        BY <2>8, <3>3
      <4>2. PICK c \in FieldKept(d, t, i) : x = SetOf(data, root, c)
        BY <2>7, <3>1, <4>1
      <4> QED
        BY <2>4, <4>2
    <3>4. ASSUME NEW c \in KeptTo(e, t) PROVE SetOf(data, root, c) \in r.set
      <4>1. PICK i \in free : c \in FieldKept(d, t, i)
        BY <2>4
      <4>2. SetOf(data, root, c) \in val(i).set
        BY <2>7, <3>1, <4>1
      <4> QED
        BY <2>8, <4>2
    <3>5. r.set = {SetOf(data, root, c) : c \in KeptTo(e, t)}
      BY <3>3, <3>4
    <3> QED
      BY <2>8, <3>2, <3>5 DEF Answers, r
  <2>9. CASE \E i \in 1 .. n : val(i).outcome # "ok" /\ r = val(i)
    <3>1. PICK i \in 1 .. n : val(i).outcome # "ok" /\ r = val(i)
      BY <2>9
    <3>2. \/ r.outcome = "set" /\ \E c \in ChainsTo(e, t) : EndOf(c).repeated
          \/ r.outcome = "error" /\ \E c \in FieldLeaves(d, t, i) : Refused(data, root, c)
      BY <2>5, <3>1 DEF Answers
    <3>3. FieldLeaves(d, t, i) \subseteq LeavesTo(e, t)
      BY <2>3
    <3> QED
      BY <3>2, <3>3 DEF Answers, r
  <2> QED
    BY <2>6, <2>8, <2>9 DEF r, e
<1>4. T = Nat
  <2>1. \A d \in T : d + 1 \in T
    BY <1>3
  <2> HIDE DEF T
  <2>2. T \in SUBSET Nat
    BY DEF T
  <2> QED
    BY <1>2, <2>1, <2>2, NatSetInduction
<1> QED
  BY <1>4
-------------------------------------------------------------------------------
\* Conversion

LEMMA ModFits ==
  ASSUME NEW m \in Nat \ {0}, NEW x \in Int
  PROVE  x % m \in 0 .. m - 1 /\ ((x % m) - x) % m = 0
<1>1. x = m * (x \div m) + (x % m)
  BY SMTT(60)
<1>2. PICK k \in Int, r \in Int : k = x \div m /\ r = x % m
  OBVIOUS
<1>3. r - x = m * (0 - k) /\ 0 - k \in Int
  <2>1. x = m * k + r
    BY <1>1, <1>2
  <2> QED
    BY <2>1
<1>4. (m * (0 - k)) % m = 0
  <2>1. PICK j \in Int : j = 0 - k
    OBVIOUS
  <2>2. (m * j) % m = 0
    OBVIOUS
  <2> QED
    BY <2>1, <2>2
<1>5. x % m \in 0 .. m - 1
  OBVIOUS
<1> QED
  BY <1>2, <1>3, <1>4, <1>5

\* What strconv.Atoi does not refuse fits the field, up to the width of the field:
\* for every integer, of 64 bits without a sign for one that is not negative.
LEMMA ConversionFits ==
  ASSUME NEW kind, NEW text \in Int, ~Refuses(kind, text), kind = "uint64" => text >= 0
  PROVE  Carries(kind, Converted(kind, text), text)
<1>1. Half32 \in Nat \ {0} /\ Half64 \in Nat \ {0}
  BY ArgumentConstants
<1>2. 2 * Half32 \in Nat \ {0} /\ 2 * Half64 \in Nat \ {0}
  BY <1>1
<1>3. CASE kind = "int32"
  <2>1. PICK m \in Nat \ {0}, x \in Int : m = 2 * Half32 /\ x = text + Half32
    BY <1>1, <1>2
  <2>2. PICK r \in Int : r = x % m
    OBVIOUS
  <2>3. r \in 0 .. m - 1 /\ (r - x) % m = 0
    BY <2>2, ModFits
  <2>4. Converted(kind, text) = r - Half32
    BY <1>3, <2>1, <2>2 DEF Converted
  <2>5. r - Half32 - text = r - x /\ r - Half32 \in -Half32 .. Half32 - 1
    BY <1>1, <2>1, <2>3
  <2> QED
    BY <1>3, <2>1, <2>3, <2>4, <2>5 DEF Carries
<1>4. CASE kind = "uint32"
  <2>1. PICK m \in Nat \ {0} : m = 2 * Half32
    BY <1>2
  <2>2. text % m \in 0 .. m - 1 /\ ((text % m) - text) % m = 0
    BY ModFits
  <2>3. Converted(kind, text) = text % m
    BY <1>4, <2>1 DEF Converted
  <2> QED
    BY <1>4, <2>1, <2>2, <2>3 DEF Carries
<1>5. CASE kind = "uint64"
  <2>1. text \in 0 .. Half64 - 1
    BY <1>1, <1>5 DEF Refuses, IntKinds
  <2>2. PICK m \in Nat \ {0} : m = 2 * Half64
    BY <1>2
  <2>3. text \in 0 .. m - 1
    BY <1>1, <2>1, <2>2
  <2>4. text % m = text
    BY <2>3
  <2>5. Converted(kind, text) = text
    BY <1>5, <2>2, <2>4 DEF Converted
  <2> QED
    BY <1>5, <2>5 DEF Carries
<1>6. CASE kind \notin {"int32", "uint32", "uint64"}
  BY <1>6 DEF Converted, Carries
<1> QED
  BY <1>3, <1>4, <1>5, <1>6

LEMMA TextsType ==
  ASSUME NEW kind, NEW text \in Texts(kind)
  PROVE  text \in Int /\ (kind = "uint64" => text >= 0)
BY ArgumentConstants DEF Texts, BadText

-------------------------------------------------------------------------------
\* Names

LEMMA ChainName ==
  ASSUME NEW d \in Nat, NEW t, NEW c \in ChainsTo(d, t)
  PROVE  NameOf(c) \in Seq(STRING) /\ Len(NameOf(c)) = Len(c) /\ Len(c) \in Nat \ {0}
<1>1. c \in Seq(Nodes) /\ Len(c) \in 1 .. d /\ DOMAIN c = 1 .. Len(c)
  BY ChainType
<1>2. ASSUME NEW k \in 1 .. Len(c) PROVE At(c[k]).name \in STRING
  <2>1. c[k] \in Nodes
    BY <1>1
  <2>2. c[k] = <<c[k][1], c[k][2]>> /\ c[k][1] \in Messages /\ c[k][2] \in 1 .. Len(Fields[c[k][1]])
    BY <2>1, NodeType
  <2> QED
    BY <2>2, FieldType DEF At
<1>3. NameOf(c) = [k \in 1 .. Len(c) |-> At(c[k]).name]
  BY <1>1 DEF NameOf
<1> QED
  BY <1>1, <1>2, <1>3

\* Two chains of a type have the same name only if they are the same.
LEMMA NamesIdentify ==
  ASSUME NEW d \in Nat, NEW t, NEW b \in ChainsTo(d, t), NEW c \in ChainsTo(d, t), NameOf(b) = NameOf(c)
  PROVE  b = c
<1> DEFINE n == Len(b)
<1>1. /\ b \in Seq(Nodes) /\ IsChain(t, b) /\ DOMAIN b = 1 .. n
      /\ c \in Seq(Nodes) /\ IsChain(t, c) /\ DOMAIN c = 1 .. Len(c)
  BY ChainType
<1>2. Len(c) = n /\ n \in Nat \ {0}
  BY ChainName
<1> HIDE DEF n
<1>3. ASSUME NEW k \in 1 .. n, b[k][1] = c[k][1] PROVE b[k] = c[k]
  <2>1. At(b[k]).name = At(c[k]).name
    <3>1. NameOf(b)[k] = At(b[k]).name /\ NameOf(c)[k] = At(c[k]).name
      BY <1>1, <1>2 DEF NameOf
    <3> QED
      BY <3>1
  <2>2. b[k] \in Nodes /\ c[k] \in Nodes
    BY <1>1, <1>2
  <2>3. PICK q \in Nodes, r \in Nodes : q = b[k] /\ r = c[k]
    BY <2>2
  <2>4. /\ q = <<q[1], q[2]>> /\ q[1] \in Messages /\ q[2] \in 1 .. Len(Fields[q[1]])
        /\ r = <<r[1], r[2]>> /\ r[2] \in 1 .. Len(Fields[r[1]])
    BY NodeType
  <2>5. q[1] = r[1] /\ Fields[q[1]][q[2]].name = Fields[q[1]][r[2]].name
    BY <1>3, <2>1, <2>3 DEF At
  <2>6. q[2] = r[2]
    BY <2>4, <2>5, ArgumentConstants
  <2> QED
    BY <2>3, <2>4, <2>5, <2>6
<1> DEFINE T == {k \in Nat : k + 1 <= n => b[k + 1] = c[k + 1]}
<1>4. 0 \in T
  <2>1. 1 \in 1 .. n
    BY <1>2
  <2>2. b[1][1] = c[1][1]
    BY <1>1 DEF IsChain
  <2> QED
    BY <1>3, <2>1, <2>2
<1>5. ASSUME NEW k \in T PROVE k + 1 \in T
  <2> SUFFICES ASSUME k + 1 + 1 <= n PROVE b[k + 1 + 1] = c[k + 1 + 1]
    OBVIOUS
  <2>1. PICK m \in Nat : m = k + 1
    OBVIOUS
  <2>2. m \in 1 .. n - 1 /\ m + 1 \in 1 .. n /\ b[m] = c[m]
    BY <1>2, <2>1
  <2>3. b[m + 1][1] = At(b[m]).of /\ c[m + 1][1] = At(c[m]).of
    BY <1>1, <1>2, <2>2 DEF IsChain, n
  <2>4. PICK j \in 1 .. n : j = m + 1
    BY <2>2
  <2>5. b[j] = c[j]
    BY <1>3, <2>2, <2>3, <2>4
  <2> QED
    BY <2>1, <2>4, <2>5
<1>6. T = Nat
  <2>1. \A k \in T : k + 1 \in T
    BY <1>5
  <2> HIDE DEF T
  <2>2. T \in SUBSET Nat
    BY DEF T
  <2> QED
    BY <1>4, <2>1, <2>2, NatSetInduction
<1>7. ASSUME NEW k \in 1 .. n PROVE b[k] = c[k]
  <2>1. k - 1 \in Nat /\ k - 1 + 1 = k /\ k <= n
    BY <1>2
  <2>2. k - 1 \in T
    <3> HIDE DEF T
    <3> QED
      BY <1>6, <2>1
  <2> QED
    BY <2>1, <2>2
<1>8. b = [k \in 1 .. n |-> b[k]] /\ c = [k \in 1 .. n |-> c[k]]
  BY <1>1, <1>2
<1> QED
  BY <1>7, <1>8
-------------------------------------------------------------------------------
\* The two functions meet

LEMMA TypeOfData ==
  ASSUME NEW t \in Messages, ParseABIFields[t].outcome = "ok", NEW data \in Arguments[t],
         NEW c \in LeavesTo(MaxDepth, t)
  PROVE  NameOf(c) \in DOMAIN data /\ data[NameOf(c)] \in Texts(KindOf(c)) /\ <<>> \o NameOf(c) = NameOf(c)
<1> DEFINE P == ParseABIFields[t].params
           names == {P[i].name : i \in DOMAIN P}
           index(n) == CHOOSE i \in DOMAIN P : P[i].name = n
           kind == [n \in names |-> P[index(n)].kind]
           leaves == LeavesTo(MaxDepth, t)
<1>1. MaxDepth \in Nat /\ <<>> \in Seq(STRING)
  BY ArgumentConstants
<1>2. ParseABIFields[t] = parseABIFields[MaxDepth][t][<<>>]
  BY DEF ParseABIFields
<1>3. Range(P) = {ParamOf(<<>>, b) : b \in leaves}
  <2>1. ListsLeaves(MaxDepth)
    BY <1>1, AllListLeaves
  <2> QED
    BY <1>1, <1>2, <2>1 DEF ListsLeaves
<1>4. ASSUME NEW b \in leaves
      PROVE  /\ NameOf(b) \in Seq(STRING) /\ <<>> \o NameOf(b) = NameOf(b)
             /\ ParamOf(<<>>, b).name = NameOf(b) /\ ParamOf(<<>>, b).kind = KindOf(b)
  <2>1. b \in ChainsTo(MaxDepth, t)
    BY DEF LeavesTo
  <2>2. NameOf(b) \in Seq(STRING)
    BY <1>1, <2>1, ChainName
  <2>3. <<>> \o NameOf(b) = NameOf(b)
    BY <2>2
  <2> QED
    BY <2>2, <2>3 DEF ParamOf
<1>5. data \in [names -> UNION {Texts(kind[n]) : n \in names}] /\ \A n \in names : data[n] \in Texts(kind[n])
  BY DEF Arguments
<1>6. PICK j \in DOMAIN P : P[j] = ParamOf(<<>>, c)
  BY <1>3 DEF Range
<1>7. NameOf(c) \in names
  BY <1>4, <1>6
<1> DEFINE i == index(NameOf(c))
<1>8. i \in DOMAIN P /\ P[i].name = NameOf(c)
  BY <1>7
<1>9. PICK b \in leaves : P[i] = ParamOf(<<>>, b)
  <2> HIDE DEF i, P
  <2>1. P[i] \in Range(P)
    BY <1>8 DEF Range
  <2> QED
    BY <1>3, <2>1
<1>10. b = c
  <2> HIDE DEF i, P
  <2>1. NameOf(b) = NameOf(c)
    BY <1>4, <1>8, <1>9
  <2>2. b \in ChainsTo(MaxDepth, t) /\ c \in ChainsTo(MaxDepth, t)
    BY DEF LeavesTo
  <2> QED
    BY <1>1, <2>1, <2>2, NamesIdentify
<1>11. kind[NameOf(c)] = KindOf(c)
  <2>1. kind[NameOf(c)] = P[i].kind
    BY <1>7
  <2> HIDE DEF i, P, kind
  <2> QED
    BY <1>4, <1>9, <1>10, <2>1
<1> HIDE DEF P, names, kind, i
<1> QED
  BY <1>4, <1>5, <1>7, <1>11

\* What MessageCarriesArguments says of one message.
Conveys(r, data, t) ==
  /\ r.outcome \in {"ok", "set", "error"}
  /\ r.outcome = "ok" => CarriesAll(r.set, data, t)
  /\ r.outcome = "set" => \E c \in Chains[t] : At(c[Len(c)]).repeated
  /\ r.outcome = "error" => \E c \in LeafChains[t] : Refuses(KindOf(c), data[NameOf(c)])

\* The message built from the arguments of a type that has been accepted.
LEMMA ArgumentsConveyed ==
  ASSUME NEW t \in Messages, ParseABIFields[t].outcome = "ok", NEW data \in Arguments[t]
  PROVE  Conveys(DataToMessage(data, t), data, t)
<1> DEFINE r == DataToMessage(data, t)
           leaves == LeavesTo(MaxDepth, t)
           kept == KeptTo(MaxDepth, t)
           value(c) == Converted(KindOf(c), data[NameOf(c)])
<1>1. MaxDepth \in Nat /\ <<>> \in Seq(STRING)
  BY ArgumentConstants
<1>2. Chains[t] = ChainsTo(MaxDepth, t) /\ LeafChains[t] = leaves /\ KeptChains[t] = kept
  BY DEF Chains, LeafChains, KeptChains, ChainsTo, LeavesTo, KeptTo
<1>3. kept \subseteq leaves /\ leaves \subseteq ChainsTo(MaxDepth, t)
  BY DEF KeptTo, LeavesTo
<1>4. \A c \in leaves : /\ NameOf(c) \in DOMAIN data /\ data[NameOf(c)] \in Texts(KindOf(c))
                        /\ <<>> \o NameOf(c) = NameOf(c)
  BY TypeOfData
<1>5. \A c \in leaves : /\ SetOf(data, <<>>, c) = <<NameOf(c), value(c)>>
                        /\ Refused(data, <<>>, c) <=> Refuses(KindOf(c), data[NameOf(c)])
  BY <1>4 DEF SetOf, Refused, TextOf
<1>6. Answers(r, kept, leaves, ChainsTo(MaxDepth, t), data, <<>>)
  <2>1. AnswersAt(data, MaxDepth)
    BY <1>1, AllAnswered
  <2>2. parseABIFields[MaxDepth][t][<<>>].outcome = "ok"
    BY DEF ParseABIFields
  <2>3. Given(data, leaves, <<>>)
    BY <1>4 DEF Given
  <2>4. r = dataToMessage(data)[MaxDepth][t][<<>>]
    BY Zenon DEF DataToMessage
  <2> HIDE DEF r
  <2> QED
    BY <1>1, <2>1, <2>2, <2>3, <2>4, Zenon DEF AnswersAt
<1> HIDE DEF r, leaves, kept
<1>7. CASE r.outcome = "ok" /\ r.set = {SetOf(data, <<>>, c) : c \in kept} /\ \A c \in leaves : ~Refused(data, <<>>, c)
  <2>1. r.set = {<<NameOf(c), value(c)>> : c \in kept}
    BY <1>3, <1>5, <1>7
  <2>2. ASSUME NEW c \in kept PROVE Carries(KindOf(c), value(c), data[NameOf(c)])
    <3>1. c \in leaves /\ ~Refuses(KindOf(c), data[NameOf(c)])
      BY <1>3, <1>5, <1>7
    <3>2. data[NameOf(c)] \in Int /\ (KindOf(c) = "uint64" => data[NameOf(c)] >= 0)
      BY <1>4, <3>1, TextsType
    <3> QED
      BY <3>1, <3>2, ConversionFits
  <2> HIDE DEF value
  <2>3. {s[1] : s \in r.set} = {NameOf(c) : c \in kept}
    <3>1. ASSUME NEW s \in r.set PROVE \E c \in kept : s[1] = NameOf(c)
      BY <2>1
    <3>2. ASSUME NEW c \in kept PROVE \E s \in r.set : s[1] = NameOf(c)
      <4>1. PICK s \in r.set : s = <<NameOf(c), value(c)>>
        BY <2>1
      <4> QED
        BY <4>1
    <3> QED
      BY <3>1, <3>2
  <2>4. \A s \in r.set : \E c \in kept : s[1] = NameOf(c) /\ Carries(KindOf(c), s[2], data[NameOf(c)])
    BY <2>1, <2>2
  <2>5. \A s, x \in r.set : s[1] = x[1] => s = x
    <3> SUFFICES ASSUME NEW s \in r.set, NEW x \in r.set, s[1] = x[1] PROVE s = x
      OBVIOUS
    <3>1. PICK b \in kept : s = <<NameOf(b), value(b)>>
      BY <2>1
    <3>2. PICK c \in kept : x = <<NameOf(c), value(c)>>
      BY <2>1
    <3>3. b = c
      BY <1>1, <1>3, <3>1, <3>2, NamesIdentify
    <3> QED
      BY <3>1, <3>2, <3>3
  <2>6. CarriesAll(r.set, data, t)
    BY <1>2, <2>3, <2>4, <2>5 DEF CarriesAll
  <2> QED
    BY <1>7, <2>6 DEF Conveys, r
<1>8. CASE r.outcome = "set" /\ \E c \in ChainsTo(MaxDepth, t) : EndOf(c).repeated
  BY <1>2, <1>8 DEF Conveys, r, EndOf
<1>9. CASE r.outcome = "error" /\ \E c \in leaves : Refused(data, <<>>, c)
  BY <1>2, <1>5, <1>9 DEF Conveys, r
<1> QED
  BY <1>6, <1>7, <1>8, <1>9 DEF Answers
===============================================================================
