--------------------------- MODULE ArgumentMessages ---------------------------
(***************************************************************************)
(* What an ABI's message types become: the arguments of a generated        *)
(* command (ParseABIFields), and the message built from what was typed for *)
(* them (DataToMessage), both in internal/cli/abi.go.                      *)
(*                                                                         *)
(* The two functions walk the same type apart from each other and meet     *)
(* only in the dotted names of the arguments.  A dotted name is the        *)
(* sequence of its parts.                                                  *)
(***************************************************************************)
EXTENDS Integers, Sequences, SequencesExt

CONSTANTS Messages,  \* names of the message types a registry can find
          Fields,    \* [Messages -> Seq(field)], in the order of the descriptor
          Half32,    \* 2^31, scaled down
          Half64,    \* 2^63, scaled down
          MaxDepth   \* bound: nesting after which the stack is full

IntKinds    == {"int32", "uint32", "int64", "uint64"}
CodedKinds  == {"bytes", "enum"}
ScalarKinds == IntKinds \cup CodedKinds \cup {"string", "bool"}

\* What is typed for an argument is a number: the value of an integer, 0 or 1 for a
\* boolean, which text for the other kinds, of which BadText is one that is no
\* value of the enumeration, or no encoding of bytes.
BadText == 1

\* A field: `of' is the type of a nested message, `oneof' the group it belongs to.
Field == [name : STRING, kind : ScalarKinds \cup {"message", "double"},
          of : Messages \cup {"none"}, repeated : BOOLEAN, oneof : STRING]

ASSUME ArgumentConstants ==
  /\ Fields \in [Messages -> Seq(Field)]
  /\ \A t \in Messages : \A i, j \in 1 .. Len(Fields[t]) :
       /\ Fields[t][i].kind = "message" => Fields[t][i].of \in Messages
       /\ i # j => Fields[t][i].name # Fields[t][j].name
  /\ Half32 \in Nat \ {0} /\ Half64 \in Nat \ {0} /\ MaxDepth \in Nat

-------------------------------------------------------------------------------
\* The loop over the fields of a message: it returns at the first that is not ok.
Failed(steps) == {i \in DOMAIN steps : steps[i].outcome # "ok"}
InOrder(steps, result) ==
  IF Failed(steps) = {} THEN result ELSE steps[CHOOSE i \in Failed(steps) : \A j \in Failed(steps) : i <= j]

\* The argument a field becomes: for a nested message, those of its own type.
FieldParams(f, name, nested) ==
  IF f.kind = "message" THEN nested
  ELSE IF f.kind \in ScalarKinds
  THEN [outcome |-> "ok", params |-> <<[name |-> name, kind |-> f.kind]>>]
  ELSE [outcome |-> "error", params |-> <<>>]

\* The arguments of a type below the name `root', from those of the types nested in it.
MessageParams(nested, t, root) ==
  LET F    == Fields[t]
      step == [i \in 1 .. Len(F) |->
                 LET name == Append(root, F[i].name)
                 IN  FieldParams(F[i], name, nested[F[i].of][name])]
  IN InOrder(step, [outcome |-> "ok", params |-> FlattenSeq([i \in 1 .. Len(F) |-> step[i].params])])

\* A type that contains itself never ends: the stack is full.
NoParams == [outcome |-> "overflow", params |-> <<>>]

\* parseABIFields, with the stack left.
parseABIFields[d \in 0 .. MaxDepth] ==
  [t \in Messages |-> [root \in Seq(STRING) |->
     IF d = 0 THEN NoParams ELSE MessageParams(parseABIFields[d - 1], t, root)]]

ParseABIFields == [t \in Messages |-> parseABIFields[MaxDepth][t][<<>>]]

-------------------------------------------------------------------------------
\* strconv.Atoi takes 64 bits with a sign for every kind of integer.
Refuses(kind, text) ==
  \/ kind \in IntKinds /\ text \notin -Half64 .. Half64 - 1
  \/ kind \in CodedKinds /\ text = BadText

\* Mutant of Converted: every 32-bit integer is converted as a signed one.
ConvertedSigned(kind, text) ==
  IF kind \in {"int32", "uint32"} THEN ((text + Half32) % (2 * Half32)) - Half32 ELSE text

\* int32(iv), uint32(iv), int64(iv), uint64(iv), and the texts as they are.
Converted(kind, text) ==
  CASE kind = "int32"  -> ((text + Half32) % (2 * Half32)) - Half32
    [] kind = "uint32" -> text % (2 * Half32)
    [] kind = "uint64" -> text % (2 * Half64)
    [] OTHER           -> text

\* Setting a later member of a oneof clears the earlier one.
Cleared(F, i) == F[i].oneof # "none" /\ \E j \in i + 1 .. Len(F) : F[j].oneof = F[i].oneof

\* What is set for a field, or how that ends: "nil" is *data[name] of a missing name,
\* "set" is Set on a repeated field.
FieldValue(f, name, nested, data) ==
  IF f.kind = "message"
  THEN IF nested.outcome = "ok" /\ f.repeated THEN [outcome |-> "set", set |-> {}] ELSE nested
  ELSE IF name \notin DOMAIN data THEN [outcome |-> "nil", set |-> {}]
  ELSE IF Refuses(f.kind, data[name]) THEN [outcome |-> "error", set |-> {}]
  ELSE IF f.repeated THEN [outcome |-> "set", set |-> {}]
  ELSE [outcome |-> "ok", set |-> {<<name, Converted(f.kind, data[name])>>}]

\* The leaves of a message that are set, from those of the messages nested in it.
MessageValues(nested, data, t, root) ==
  LET F    == Fields[t]
      step == [i \in 1 .. Len(F) |->
                 LET name == Append(root, F[i].name)
                 IN  FieldValue(F[i], name, nested[F[i].of][name], data)]
  IN InOrder(step, [outcome |-> "ok",
                    set |-> UNION {step[i].set : i \in {k \in 1 .. Len(F) : ~Cleared(F, k)}}])

NoValues == [outcome |-> "overflow", set |-> {}]

\* dataToMessage, with the stack left.
dataToMessage(data) ==
  LET build[d \in 0 .. MaxDepth] ==
        [t \in Messages |-> [root \in Seq(STRING) |->
           IF d = 0 THEN NoValues ELSE MessageValues(build[d - 1], data, t, root)]]
  IN build

DataToMessage(data, t) == dataToMessage(data)[MaxDepth][t][<<>>]

-------------------------------------------------------------------------------
\* Reference: a chain of fields, each a <<type, index>>, from a type down; a leaf of
\* the type is one that ends in a scalar.
Nodes   == UNION {{<<t, i>> : i \in 1 .. Len(Fields[t])} : t \in Messages}
At(q)   == Fields[q[1]][q[2]]
IsChain(t, c) ==
  /\ c[1][1] = t
  /\ \A k \in 1 .. Len(c) - 1 : At(c[k]).kind = "message" /\ c[k + 1][1] = At(c[k]).of
IsLeaf(c)  == At(c[Len(c)]).kind # "message"
Chains     == [t \in Messages |-> {c \in UNION {[1 .. n -> Nodes] : n \in 1 .. MaxDepth} : IsChain(t, c)}]
LeafChains == [t \in Messages |-> {c \in Chains[t] : IsLeaf(c)}]

NameOf(c) == [k \in DOMAIN c |-> At(c[k]).name]
KindOf(c) == At(c[Len(c)]).kind

\* A later member of a oneof of the same message takes the place of this one.
Overridden(c) ==
  \E k \in DOMAIN c, q \in Nodes :
    q[1] = c[k][1] /\ q[2] > c[k][2] /\ At(q).oneof = At(c[k]).oneof /\ At(q).oneof # "none"

\* The value a field of this kind has room for, equal to the text up to its width.
Carries(kind, value, text) ==
  CASE kind = "int32"  -> value \in -Half32 .. Half32 - 1 /\ (value - text) % (2 * Half32) = 0
    [] kind = "uint32" -> value \in 0 .. 2 * Half32 - 1 /\ (value - text) % (2 * Half32) = 0
    [] OTHER           -> value = text

KeptChains == [t \in Messages |-> {c \in LeafChains[t] : ~Overridden(c)}]

\* Every argument is in the field it is named for, and nothing else is set.
CarriesAll(set, data, t) ==
  LET kept == KeptChains[t] IN
  /\ {s[1] : s \in set} = {NameOf(c) : c \in kept}
  /\ \A s \in set : \E c \in kept : s[1] = NameOf(c) /\ Carries(KindOf(c), s[2], data[NameOf(c)])
  /\ \A s, r \in set : s[1] = r[1] => s = r

\* The data typed for the arguments of t; the parser has matched each with its type.
Texts(kind) ==
  CASE kind \in {"int32", "int64"}   -> {-Half64 - 1, -Half32 - 1, Half32}
    [] kind \in {"uint32", "uint64"} -> {Half32, 2 * Half32, Half64}
    [] OTHER                         -> {0, BadText}
Arguments == [t \in Messages |->
  LET P     == ParseABIFields[t].params
      names == {P[i].name : i \in DOMAIN P}
      kind  == [n \in names |-> P[CHOOSE i \in DOMAIN P : P[i].name = n].kind]
  IN {data \in [names -> UNION {Texts(kind[n]) : n \in names}] :
        \A n \in names : data[n] \in Texts(kind[n])}]
===============================================================================
