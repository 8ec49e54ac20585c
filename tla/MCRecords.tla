------------------------------ MODULE MCRecords ------------------------------
(***************************************************************************)
(* Records for TLC: one instance of the program with records of both       *)
(* stores, or two instances that contend for the same record.  What holds  *)
(* only while one instance runs is stated for the first case.              *)
(***************************************************************************)
EXTENDS Records

CONSTANTS First,       \* the instance that runs alone
          Contested,   \* bound: the records that two instances work on
          FirstText    \* bound: what these records say

ASSUME MCRecordsAssumption == First \in Processes

VARIABLE alone

allVars == <<vars, alone>>

InBounds == alone \/ \A i \in Items : /\ rows[i].text = FirstText
                                      /\ rows[i].phase # "none" => i \in Contested

OneOrTwoInit == Init /\ alone \in BOOLEAN /\ InBounds

OneOrTwoNext ==
    /\ \/ Tick
       \/ \E i \in Items : RowIsDamaged(i)
       \/ \E p \in Processes : (alone => p = First) /\ Process(p)
    /\ UNCHANGED alone
    /\ InBounds'

OneOrTwo == OneOrTwoInit /\ [][OneOrTwoNext]_allVars

\* While one instance runs: emptying Recently Deleted leaves nothing in either store, a
\* listing shows nothing overdue, only what is overdue is purged, and what is deleted
\* stays in its folder (Records).
OneInstanceIsExact ==
    /\ [](alone => TypeOK /\ DeletedItemsKeepTheirFolder)
    /\ [][alone => EmptiesAll /\ ShowsRecent /\ PurgesOverdue]_allVars
=============================================================================
