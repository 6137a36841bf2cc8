----------------------------- MODULE ForkChoice -----------------------------
(***************************************************************************)
(* What the node promises of its choice between chains, without saying how *)
(* it gets there: `view` is the chain as seen by whoever takes the lock of *)
(* the node, `busy` whether a handler is at work on it.                    *)
(*                                                                         *)
(*  - outside a switch and a batch the chain only grows, a block at a time;*)
(*  - a switch ends with one block in the place of a suffix, heavier than  *)
(*    the first block of that suffix, or with the suffix just cut off;     *)
(*  - a batch ends with some of its blocks appended to the chain, or with  *)
(*    some of them appended to genesis and everything else gone.           *)
(***************************************************************************)
EXTENDS Integers, Sequences, Functions

CONSTANTS Blocks, Genesis, Parent, Work, Batches

VARIABLES view, busy

vars == <<view, busy>>

Linked(s) == \A i \in 2 .. Len(s) : Parent[s[i]] = s[i - 1]

\* s is base and, after it, blocks of S.
Extended(s, base, S) ==
    /\ Len(base) <= Len(s)
    /\ \A i \in DOMAIN s : IF i <= Len(base) THEN s[i] = base[i] ELSE s[i] \in S

Init == view = <<Genesis>> /\ busy = "no"

\* A block of a peer, or one of our own.
Grow ==
    /\ busy = "no" /\ UNCHANGED busy
    /\ \E b \in Blocks : Parent[b] = view[Len(view)] /\ view' = Append(view, b)

Begin ==
    /\ busy = "no" /\ busy' \in {"switch", "batch"}
    /\ UNCHANGED view

EndSwitch ==
    /\ busy = "switch" /\ busy' = "no"
    /\ \E h \in 1 .. Len(view) - 1 :
         \/ view' = SubSeq(view, 1, h)
         \/ \E b \in Blocks :
              /\ Parent[b] = view[h] /\ Work[b] > Work[view[h + 1]]
              /\ view' = Append(SubSeq(view, 1, h), b)

EndBatch ==
    /\ busy = "batch" /\ busy' = "no"
    /\ Linked(view')
    /\ \E q \in Batches, base \in {view, <<Genesis>>} : Extended(view', base, Range(q))

Next == Grow \/ Begin \/ EndSwitch \/ EndBatch

Spec == Init /\ [][Next]_vars

=============================================================================
