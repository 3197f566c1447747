--------------------------- MODULE MC_CommandParser ---------------------------
(***************************************************************************)
(* The command set for TLC: one command without arguments (address), one   *)
(* with an optional argument (nonce), one with a required one (connect)    *)
(* and one with both (open).                                               *)
(***************************************************************************)
EXTENDS CommandParser

MCCommands == {"address", "nonce", "connect", "open"}
MCOptional == [c \in MCCommands |-> CASE c = "address" -> <<>>
                                      [] c = "nonce"   -> <<TRUE>>
                                      [] c = "connect" -> <<FALSE>>
                                      [] c = "open"    -> <<FALSE, TRUE>>]
===============================================================================
