------------------------------ MODULE DurableLog ------------------------------
(***************************************************************************)
(* What the sync server promises about the account's operation log         *)
(* (docs/protocol.md sections 4.1, 4.3 and 5), with no mention of batches, *)
(* verdicts, snapshots or pruning: one gap-free sequence of operations     *)
(* that only grows at its end, and in which each device's operations       *)
(* appear once, in the order of their device sequences.                    *)
(***************************************************************************)
EXTENDS Naturals, Sequences

CONSTANT Operations

VARIABLE committed

\* Every operation of device d already in the log has a smaller sequence.
After(op) ==
  \A c \in 1 .. Len(committed) : committed[c].dev = op.dev => committed[c].seq < op.seq

Init == committed = << >>

\* A run of one device's new operations is appended at once.
AppendRun ==
  \E d \in {op.dev : op \in Operations} :
    /\ committed' \in Seq(Operations)
    /\ Len(committed) < Len(committed')
    /\ \A c \in 1 .. Len(committed) : committed'[c] = committed[c]
    /\ \A c \in (Len(committed) + 1) .. Len(committed') :
         /\ committed'[c].dev = d
         /\ After(committed'[c])
         /\ \A e \in (Len(committed) + 1) .. (c - 1) :
              committed'[e].seq < committed'[c].seq

Next == AppendRun

Spec == Init /\ [][Next]_committed
===============================================================================
