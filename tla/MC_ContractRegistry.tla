-------------------------- MODULE MC_ContractRegistry --------------------------
(***************************************************************************)
(* Instances of ContractRegistry for TLC: message types that are nested,   *)
(* have a oneof, repeated fields, a kind without translation or contain    *)
(* themselves; ABIs with names of one and two parts, blank, unknown and    *)
(* unsupported types and an entry point under another key.                 *)
(***************************************************************************)
EXTENDS ContractRegistry

Scalar(name, kind, oneof) ==
  [name |-> name, kind |-> kind, of |-> "none", repeated |-> FALSE, oneof |-> oneof]
Nested(name, of, oneof) ==
  [name |-> name, kind |-> "message", of |-> of, repeated |-> FALSE, oneof |-> oneof]
Repeated(f) == [f EXCEPT !.repeated = TRUE]

MCFields == [
  nop_arguments |-> <<>>,
  nop_result    |-> <<>>,
  inner  |-> <<Scalar("value", "int32", "none"), Scalar("flag", "bool", "none")>>,
  nested |-> <<Scalar("value", "uint32", "none"), Nested("data", "inner", "none")>>,
  choice |-> <<Scalar("id", "uint64", "which"), Nested("data", "inner", "which"), Scalar("name", "enum", "none")>>,
  list   |-> <<Repeated(Scalar("items", "int64", "none")), Scalar("key", "bytes", "none")>>,
  marks  |-> <<Repeated(Nested("mark", "nop_result", "none"))>>,
  loop   |-> <<Nested("next", "loop", "none")>>,
  real   |-> <<Scalar("x", "double", "none")>>]
MCMessages == DOMAIN MCFields

Meth(argument, return, entryPoint, readOnly) ==
  [argument |-> argument, return |-> return, entryPoint |-> entryPoint, readOnly |-> readOnly]
MCABIs == {
  (<<"get">> :> Meth("nested", "inner", "hex", TRUE)) @@ (<<"put">> :> Meth("", "", "hex", FALSE)),
  (<<"put">> :> Meth("choice", "", "hex", FALSE)) @@ (<<"a", "b">> :> Meth("", "", "other", TRUE)),
  (<<"get">> :> Meth("", "inner", "short", TRUE)),
  (<<"put">> :> Meth("list", "", "hex", FALSE)) @@ (<<"get">> :> Meth("marks", "", "hex", TRUE)),
  (<<"get">> :> Meth("loop", "", "hex", TRUE)) @@ (<<"put">> :> Meth("real", "", "hex", FALSE)),
  (<<"put">> :> Meth("inner", "absent", "hex", FALSE))}
MCBuiltIns == {"register", "register_token", "list", "exit"}
===============================================================================
