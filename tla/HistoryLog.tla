----------------------------- MODULE HistoryLog -----------------------------
(***************************************************************************)
(* What pkg/endpoint promises of the history of a dialog, without saying   *)
(* how it buffers: messages are stored one by one, in the order they were  *)
(* saved; only a refused write loses any, the oldest of those that wait.   *)
(* DialogBatch implements it.                                              *)
(***************************************************************************)
EXTENDS Naturals, Sequences

CONSTANTS
  Threads,   \* dialogs
  MayLose    \* may the store refuse a write?

VARIABLES
  saved,     \* messages saved for each dialog so far
  pending,   \* those that are neither stored nor lost
  stored,    \* those the store holds
  losses     \* refused writes

vars == <<saved, pending, stored, losses>>

Init ==
  /\ saved = [t \in Threads |-> 0]
  /\ pending = [t \in Threads |-> <<>>] /\ stored = [t \in Threads |-> <<>>]
  /\ losses = 0

Save(t) ==
  /\ saved' = [saved EXCEPT ![t] = @ + 1]
  /\ pending' = [pending EXCEPT ![t] = Append(@, saved[t] + 1)]
  /\ UNCHANGED <<stored, losses>>

Store(t) ==
  /\ pending[t] # <<>>
  /\ stored' = [stored EXCEPT ![t] = Append(@, Head(pending[t]))]
  /\ pending' = [pending EXCEPT ![t] = Tail(@)]
  /\ UNCHANGED <<saved, losses>>

Lose(t) ==
  /\ MayLose
  /\ \E n \in 1 .. Len(pending[t]) :
       pending' = [pending EXCEPT ![t] = SubSeq(@, n + 1, Len(@))]
  /\ losses' = losses + 1
  /\ UNCHANGED <<saved, stored>>

Next == \E t \in Threads : Save(t) \/ Store(t) \/ Lose(t)

Spec == Init /\ [][Next]_vars
=============================================================================
