----------------------------- MODULE RecordLife -----------------------------
(***************************************************************************)
(* What the encrypted stores promise about one record, whatever commands,  *)
(* purges, crashes and further instances of the program do: a record is    *)
(* created once, edited only while it is active, keeps its content on the  *)
(* way to Recently Deleted and back, leaves the store only from there, and *)
(* never comes back.                                                       *)
(***************************************************************************)
CONSTANTS Items, Texts

VARIABLES phase, text

Phases == {"none", "active", "deleted", "gone"}

Init == /\ phase = [i \in Items |-> "none"]
        /\ text \in [Items -> Texts]

Moves(i, from, to) ==
    /\ phase[i] = from
    /\ phase' = [phase EXCEPT ![i] = to]

Create(i, t) == Moves(i, "none", "active") /\ text' = [text EXCEPT ![i] = t]

Edit(i, t) == /\ phase[i] = "active"
              /\ text' = [text EXCEPT ![i] = t]
              /\ UNCHANGED phase

Discard(i) == Moves(i, "active", "deleted") /\ UNCHANGED text

Recover(i) == Moves(i, "deleted", "active") /\ UNCHANGED text

Remove(i) == Moves(i, "deleted", "gone") /\ UNCHANGED text

Next == \E i \in Items :
            \/ \E t \in Texts : Create(i, t) \/ Edit(i, t)
            \/ Discard(i) \/ Recover(i) \/ Remove(i)

Spec == Init /\ [][Next]_<<phase, text>>
=============================================================================
