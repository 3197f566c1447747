--------------------------- MODULE OperationOutbox ---------------------------
(***************************************************************************)
(* What the CLI promises about the operations a user issues.  An operation *)
(* is either staged in the open session or submitted alone.  A session     *)
(* leaves whole and in the order it was filled: delivered to a network, or *)
(* exported as a signed transaction.  It is emptied by the step that       *)
(* learns of the delivery, by the export, by the user, or by the end of    *)
(* the process, and never by a failure.  Delivery is at least once: when   *)
(* the receipt is lost the session stays.                                  *)
(***************************************************************************)
EXTENDS Naturals, Sequences

CONSTANTS Authors,  \* who may issue operations
          Nobody    \* no author is at the CLI

VARIABLES
  author,      \* who is at the CLI
  open,        \* a session is open
  staged,      \* its operations
  submitting,  \* a submission is in flight
  hand,        \* the operation it submits alone, <<>> if it submits the session
  issued,      \* number of operations issued
  delivered,   \* [ops, confirmed], in the order of delivery
  exported     \* the operations of the transactions signed for later delivery

outboxVars == <<author, open, staged, submitting, hand, issued, delivered, exported>>

OutboxInit ==
  /\ author = Nobody /\ open = FALSE /\ staged = <<>>
  /\ submitting = FALSE /\ hand = <<>>
  /\ issued = 0 /\ delivered = <<>> /\ exported = {}

NewOp == [id |-> issued, author |-> author]

ChangeAuthor ==
  /\ ~submitting
  /\ author' \in Authors \cup {Nobody}
  /\ UNCHANGED <<open, staged, submitting, hand, issued, delivered, exported>>

Open ==
  /\ ~submitting /\ ~open
  /\ open' = TRUE
  /\ UNCHANGED <<author, staged, submitting, hand, issued, delivered, exported>>

Stage ==
  /\ ~submitting /\ open /\ author \in Authors
  /\ staged' = Append(staged, NewOp)
  /\ issued' = issued + 1
  /\ UNCHANGED <<author, open, submitting, hand, delivered, exported>>

SubmitAlone ==
  /\ ~submitting /\ ~open /\ author \in Authors
  /\ submitting' = TRUE /\ hand' = <<NewOp>>
  /\ issued' = issued + 1
  /\ UNCHANGED <<author, open, staged, delivered, exported>>

SubmitSession ==
  /\ ~submitting /\ open /\ staged # <<>>
  /\ submitting' = TRUE
  /\ UNCHANGED <<author, open, staged, hand, issued, delivered, exported>>

\* The submission ends, with or without a delivery.
Fail ==
  /\ submitting
  /\ submitting' = FALSE /\ hand' = <<>>
  /\ UNCHANGED <<author, open, staged, issued, delivered, exported>>

Deliver(confirmed) ==
  /\ submitting
  /\ submitting' = FALSE /\ hand' = <<>>
  /\ delivered' = Append(delivered, [ops |-> IF hand # <<>> THEN hand ELSE staged,
                                     confirmed |-> confirmed])
  /\ IF hand = <<>> /\ confirmed THEN open' = FALSE /\ staged' = <<>>
                                 ELSE UNCHANGED <<open, staged>>
  /\ UNCHANGED <<author, issued, exported>>

Discard ==
  /\ ~submitting /\ open
  /\ open' = FALSE /\ staged' = <<>>
  /\ UNCHANGED <<author, submitting, hand, issued, delivered, exported>>

Export ==
  /\ ~submitting /\ open /\ staged # <<>>
  /\ exported' = exported \cup {staged}
  /\ open' = FALSE /\ staged' = <<>>
  /\ UNCHANGED <<author, submitting, hand, issued, delivered>>

DeliverExported ==
  /\ ~submitting
  /\ \E ops \in exported, confirmed \in BOOLEAN :
       delivered' = Append(delivered, [ops |-> ops, confirmed |-> confirmed])
  /\ UNCHANGED <<author, open, staged, submitting, hand, issued, exported>>

\* The process ends: only what has left it remains.
Crash ==
  /\ author' = Nobody /\ open' = FALSE /\ staged' = <<>>
  /\ submitting' = FALSE /\ hand' = <<>>
  /\ UNCHANGED <<issued, delivered, exported>>

OutboxNext ==
  \/ ChangeAuthor \/ Open \/ Stage \/ SubmitAlone \/ SubmitSession
  \/ Fail \/ \E confirmed \in BOOLEAN : Deliver(confirmed)
  \/ Discard \/ Export \/ DeliverExported \/ Crash

OutboxSpec == OutboxInit /\ [][OutboxNext]_outboxVars
===============================================================================
