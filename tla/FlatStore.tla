----------------------------- MODULE FlatStore -----------------------------
(***************************************************************************)
(* What FileManager::write promises: the files behave as one flat array of *)
(* bytes.  A call lays down its data from the front; it returns when all   *)
(* of the data is in place, or gives up with what it has laid down so far. *)
(* The byte of write w that belongs at offset o is <<w, o>>.               *)
(***************************************************************************)
EXTENDS Integers

CONSTANTS Writes, Blank

VARIABLES
  size,  \* the number of bytes in the array
  disk,  \* the array
  call,  \* the write in progress, or Blank
  next,  \* offset of the first byte not laid down yet
  stop   \* offset behind the last byte

vars == <<size, disk, call, next, stop>>

Init ==
  /\ size \in Nat
  /\ disk = [o \in 0 .. size - 1 |-> Blank]
  /\ call = Blank
  /\ next = 0 /\ stop = 0

Call(w, from, to) ==
  /\ call = Blank
  /\ 0 <= from /\ from < to /\ to <= size
  /\ call' = w /\ next' = from /\ stop' = to
  /\ UNCHANGED <<size, disk>>

\* The data up to offset k is laid down.
LayDown(k) ==
  /\ call # Blank
  /\ next <= k /\ k <= stop
  /\ disk' = [o \in 0 .. size - 1 |->
                IF next <= o /\ o < k THEN <<call, o>> ELSE disk[o]]
  /\ next' = k

Continue(k) ==
  /\ LayDown(k)
  /\ UNCHANGED <<size, call, stop>>

\* The last of the data is laid down and the call returns.
Return ==
  /\ LayDown(stop)
  /\ call' = Blank
  /\ UNCHANGED <<size, stop>>

\* The call throws with the data up to offset k laid down.
Throw(k) ==
  /\ LayDown(k)
  /\ call' = Blank
  /\ UNCHANGED <<size, stop>>

Next ==
  \/ \E w \in Writes, from, to \in 0 .. size : Call(w, from, to)
  \/ \E k \in 0 .. size : Continue(k) \/ Throw(k)
  \/ Return

Spec == Init /\ [][Next]_vars
=============================================================================
