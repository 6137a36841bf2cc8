----------------------------- MODULE ChainForks -----------------------------
(***************************************************************************)
(* Chain implements ForkChoice: the chain that a reader of the node sees is*)
(* the one that the running handler started from, until it is done.        *)
(***************************************************************************)
EXTENDS Chain

Seen == IF handler = Idle THEN blocks ELSE handler.was

Busy == IF handler = Idle THEN "no"
        ELSE IF handler.kind = "batch" THEN "batch" ELSE "switch"

Choice == INSTANCE ForkChoice WITH view <- Seen, busy <- Busy

\* Every handler, whatever it went through (rollbacks, refused blocks, failed
\* writes, batches cut short), leaves a chain that ForkChoice allows.
ChoosesForks == Choice!Spec

=============================================================================
