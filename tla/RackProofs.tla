------------------------------ MODULE RackProofs ------------------------------
(***************************************************************************)
(* Proofs, for any number of racks, sessions, leases and claims, that the  *)
(* rack hub keeps its types, gives an attempt no outcome but its own,      *)
(* implements what module Delegation promises, and tells everyone who      *)
(* waits for a lease how it ended.                                         *)
(***************************************************************************)
EXTENDS Rack, TLAPS

-----------------------------------------------------------------------------
(* Every step keeps the types                                              *)

Records == [state: {"none", "running", "decided", "interrupted", "cancelled"}, by: {0} \union Attempts]

LEMMA InitType == Init => TypeOK
BY RackAssumption
   DEF RackAssumption, Init, TypeOK, Shaped, LeaseRecords, Subscriptions, Transitions, Mutations, Free, Quiet

LEMMA RecordedType ==
  ASSUME TypeOK, NEW a \in Attempts, NEW by \in {0} \union Attempts,
         NEW state \in {"running", "decided", "interrupted", "cancelled"}
  PROVE  Recorded(a, state, by) \in [Attempts -> Records]
<1>1. [state |-> state, by |-> by] \in Records
  BY DEF Records
<1>2. rec \in [Attempts -> Records]
  BY DEF TypeOK, Records
<1> QED BY <1>1, <1>2 DEF Recorded

LEMMA StoppedType ==
  ASSUME TypeOK, NEW l \in Leases, NEW state \in {"interrupted", "cancelled"},
         StoppedAs(l, lease[l].attempt, state)
  PROVE  rec' \in [Attempts -> Records]
<1>1. rec \in [Attempts -> Records] /\ lease[l].attempt \in {0} \union Attempts
  BY DEF TypeOK, Records, LeaseRecords
<1>2. CASE UNCHANGED rec
  BY <1>1, <1>2
<1>3. CASE lease[l].attempt # 0 /\ rec' = Recorded(lease[l].attempt, state, 0)
  BY <1>1, <1>3, RecordedType
<1> QED BY <1>2, <1>3 DEF StoppedAs

LEMMA PublishedType ==
  ASSUME TypeOK, NEW l \in Leases, NEW kind \in {"completed", "lost", "cancelled"}
  PROVE  Published(l, kind) \in [Sessions -> [Leases -> {"none", "completed", "lost", "cancelled"}]]
BY DEF TypeOK, Published

LEMMA ResumedType == mutation \in Mutations => Resumed \in Mutations
BY DEF Mutations, Resumed, Quiet

LEMMA NextType == TypeOK /\ [Next]_vars => TypeOK'
<1> SUFFICES ASSUME TypeOK, [Next]_vars PROVE TypeOK'
  OBVIOUS
<1>a. lease \in [Leases -> LeaseRecords] /\ \A l \in Leases : lease[l] \in LeaseRecords /\ Shaped(l)
  BY DEF TypeOK
<1>b. sub \in [Leases -> Subscriptions] /\ \A l \in Leases : sub[l] \in Subscriptions
  BY DEF TypeOK
<1>c. fence \in [Leases -> Transitions] /\ \A l \in Leases : fence[l] \in Transitions
  BY DEF TypeOK
<1>d. mutation \in Mutations
  BY DEF TypeOK
<1>e. rec \in [Attempts -> Records]
  BY DEF TypeOK, Records
<1>f. dedupe \in Leases \union {NoLease}
  BY DEF TypeOK
<1>1. ASSUME NEW r \in Racks, NEW l \in Leases, ClaimCheck(r, l) PROVE TypeOK'
  <2>1. fence' \in [Leases -> Transitions]
    BY <1>1, <1>c
    DEF ClaimCheck, Transitions, Free
  <2>2. \A m \in Leases : Shaped(m)'
    BY <1>1, <1>a, <1>c, RackAssumption
    DEF ClaimCheck, Shaped, Free, RackAssumption, Ends
  <2> QED BY <2>1, <2>2, <1>1 DEF ClaimCheck, TypeOK, Records
<1>2. ASSUME NEW l \in Leases, ClaimTake(l) PROVE TypeOK'
  <2>1. minted + 1 \in Attempts /\ fence[l].rack \in Racks
    BY <1>2, <1>a, <1>c, RackAssumption DEF TypeOK, ClaimTake, Attempts, RackAssumption, Transitions, Shaped
  <2>2. lease' \in [Leases -> LeaseRecords]
    <3>1. [status |-> "claimed", claimedBy |-> fence[l].rack, attempt |-> minted + 1, age |-> 0] \in LeaseRecords
      BY <2>1 DEF LeaseRecords
    <3> QED BY <3>1, <1>2, <1>a DEF ClaimTake
  <2>3. \A m \in Leases : Shaped(m)'
    BY <1>2, <1>a, <1>c, <2>1, RackAssumption DEF ClaimTake, Shaped, Attempts, RackAssumption, Transitions
  <2>4. rec' \in [Attempts -> Records]
    BY <1>2, <1>e, StoppedType DEF ClaimTake
  <2>5. fence' \in [Leases -> Transitions]
    BY <1>2, <1>c
    DEF ClaimTake, Transitions, Free
  <2> QED BY <2>1, <2>2, <2>3, <2>4, <2>5, <1>2 DEF ClaimTake, TypeOK, Records, Attempts
<1>3. ASSUME NEW l \in Leases, ClaimGrant(l) PROVE TypeOK'
  <2>1. fence[l].rack \in Racks /\ lease[l].attempt \in Attempts
    BY <1>3, <1>a, <1>c DEF ClaimGrant, Transitions, Shaped, LeaseRecords
  <2>2. sub' \in [Leases -> Subscriptions]
    BY <1>3, <1>b, <2>1 DEF ClaimGrant, Subscriptions
  <2>3. rec' \in [Attempts -> Records]
    BY <1>3, <2>1, RecordedType DEF ClaimGrant
  <2>4. granted' \subseteq Grants
    BY <1>3, <2>1 DEF ClaimGrant, Grants, TypeOK
  <2>5. fence' \in [Leases -> Transitions]
    BY <1>3, <1>c
    DEF ClaimGrant, Transitions, Free
  <2>6. \A m \in Leases : Shaped(m)'
    BY <1>3, <1>a, <1>c, RackAssumption
    DEF ClaimGrant, Shaped, Free, RackAssumption, Ends
  <2> QED BY <2>1, <2>2, <2>3, <2>4, <2>5, <2>6, <1>3 DEF ClaimGrant, TypeOK, Records
<1>4. ASSUME NEW l \in Leases, ClaimFail(l) PROVE TypeOK'
  <2>1. fence' \in [Leases -> Transitions]
    BY <1>4, <1>c
    DEF ClaimFail, Transitions, Free
  <2>2. \A m \in Leases : Shaped(m)'
    BY <1>4, <1>a, <1>c, RackAssumption
    DEF ClaimFail, Shaped, Free, RackAssumption, Ends
  <2> QED BY <2>1, <2>2, <1>4 DEF ClaimFail, TypeOK, Records
<1>5. ASSUME NEW r \in Racks, NEW l \in Leases, Extend(r, l) PROVE TypeOK'
  <2>1. lease' \in [Leases -> LeaseRecords]
    BY <1>5, <1>a
    DEF Extend, LeaseRecords, Ends
  <2>2. \A m \in Leases : Shaped(m)'
    BY <1>5, <1>a, <1>c, RackAssumption
    DEF Extend, Shaped, Free, RackAssumption, Ends
  <2> QED BY <2>1, <2>2, <1>5 DEF Extend, TypeOK, Records
<1>6. ASSUME NEW g \in granted, CompleteRecord(g) PROVE TypeOK'
  <2>1. g.rack \in Racks /\ g.attempt \in Attempts /\ g.lease \in Leases
    BY DEF TypeOK, Grants
  <2>2. lease[g.lease].attempt \in Attempts
    BY <1>6, <2>1, <1>a DEF CompleteRecord, Held, Shaped, LeaseRecords
  <2>3. fence' \in [Leases -> Transitions]
    BY <1>6, <1>c, <2>1
    DEF CompleteRecord, Transitions, Free
  <2>4. rec' \in [Attempts -> Records]
    BY <1>6, <2>1, <2>2, RecordedType DEF CompleteRecord
  <2>5. \A m \in Leases : Shaped(m)'
    BY <1>6, <2>1, <1>a, <1>c, RackAssumption DEF CompleteRecord, Shaped, RackAssumption
  <2> QED BY <2>1, <2>2, <2>3, <2>4, <2>5, <1>6 DEF CompleteRecord, TypeOK, Records
<1>7. ASSUME NEW l \in Leases, CompleteSettle(l) PROVE TypeOK'
  <2>1. lease' \in [Leases -> LeaseRecords]
    BY <1>7, <1>a
    DEF CompleteSettle, LeaseRecords, Ends
  <2>2. \A m \in Leases : Shaped(m)'
    BY <1>7, <1>a, <1>c, RackAssumption
    DEF CompleteSettle, Held, Shaped, Free, RackAssumption, Ends
  <2>3. fence' \in [Leases -> Transitions]
    BY <1>7, <1>c
    DEF CompleteSettle, Transitions, Free
  <2> QED BY <2>1, <2>2, <2>3, <1>7 DEF CompleteSettle, TypeOK, Records
<1>8. ASSUME NEW l \in Leases, CompleteFinish(l) PROVE TypeOK'
  <2>1. sub' \in [Leases -> Subscriptions]
    BY <1>8, <1>b
    DEF CompleteFinish, Subscriptions
  <2>2. fence' \in [Leases -> Transitions]
    BY <1>8, <1>c
    DEF CompleteFinish, Transitions, Free
  <2>3. dedupe' \in Leases \union {NoLease}
    BY <1>8, <1>f
    DEF CompleteFinish, Undeduped
  <2>4. \A m \in Leases : Shaped(m)'
    BY <1>8, <1>a, <1>c, RackAssumption
    DEF CompleteFinish, Shaped, Free, RackAssumption, Ends
  <2> QED BY <2>1, <2>2, <2>3, <2>4, <1>8 DEF CompleteFinish, TypeOK, Records
<1>9. ASSUME NEW l \in Leases, CompletePublish(l) PROVE TypeOK'
  <2>1. told' \in [Sessions -> [Leases -> {"none", "completed", "lost", "cancelled"}]]
    BY <1>9, PublishedType
    DEF CompletePublish
  <2>2. fence' \in [Leases -> Transitions]
    BY <1>9, <1>c
    DEF CompletePublish, Transitions, Free
  <2>3. \A m \in Leases : Shaped(m)'
    BY <1>9, <1>a, <1>c, RackAssumption
    DEF CompletePublish, Shaped, Free, RackAssumption, Ends
  <2> QED BY <2>1, <2>2, <2>3, <1>9 DEF CompletePublish, TypeOK, Records
<1>10. ASSUME NEW l \in Leases, Pass(l) PROVE TypeOK'
  <2>1. lease' \in [Leases -> LeaseRecords]
    BY <1>10, <1>a
    DEF Pass, LeaseRecords, Ends
  <2>2. \A m \in Leases : Shaped(m)'
    BY <1>10, <1>a, <1>c, RackAssumption
    DEF Pass, Shaped, Free, RackAssumption, Ends
  <2> QED BY <2>1, <2>2, <1>10 DEF Pass, TypeOK, Records
<1>11. ASSUME NEW s \in Sessions, SessionDies(s) PROVE TypeOK'
  <2> QED BY <1>11 DEF SessionDies, TypeOK, Records, Shaped
<1>12. ASSUME NEW s \in Sessions, Submit(s) PROVE TypeOK'
  <2>1. /\ lease' \in [Leases -> LeaseRecords] /\ \A m \in Leases : Shaped(m)'
       /\ sub' \in [Leases -> Subscriptions] /\ dedupe' \in Leases \union {NoLease}
    <3>1. CASE dedupe # NoLease /\ Nonterminal(dedupe)
      <4>1. sub' \in [Leases -> Subscriptions]
        BY <1>12, <3>1, <1>b, <1>f DEF Submit, Subscriptions
      <4> QED BY <1>12, <3>1, <4>1, <1>a, <1>f DEF Submit, Shaped
    <3>2. CASE ~(dedupe # NoLease /\ Nonterminal(dedupe))
      <4>1. PICK l \in Leases :
              /\ lease[l].status = "none" /\ lease' = [lease EXCEPT ![l].status = "pending"]
              /\ sub' = [sub EXCEPT ![l] = [@ EXCEPT !.subscribers = {s}, !.owner = s]] /\ dedupe' = l /\ fence' = fence
        BY <1>12, <3>2 DEF Submit
      <4>2. lease' \in [Leases -> LeaseRecords]
        BY <4>1, <1>a DEF LeaseRecords
      <4>3. [sub[l] EXCEPT !.subscribers = {s}, !.owner = s] \in Subscriptions
        BY <1>b DEF Subscriptions
      <4>4. \A m \in Leases : Shaped(m)'
        BY <4>1, <1>a DEF Shaped
      <4> QED BY <4>1, <4>2, <4>3, <4>4, <1>b
    <3> QED BY <3>1, <3>2
  <2> QED BY <2>1, <1>12 DEF Submit, TypeOK, Records
<1>13. ASSUME NEW s \in Sessions, NEW l \in Leases, Cancel(s, l) PROVE TypeOK'
  <2>1. mutation' \in Mutations
    BY <1>13 DEF Cancel, Mutations, Quiet
  <2> QED BY <2>1, <1>13 DEF Cancel, TypeOK, Records, Shaped
<1>14. ASSUME NEW s \in Sessions, EndSession(s) PROVE TypeOK'
  <2>1. mutation' \in Mutations
    BY <1>14 DEF EndSession, Mutations, Quiet
  <2> QED BY <2>1, <1>14 DEF EndSession, TypeOK, Records, Shaped
<1>15. ASSUME NEW r \in Racks, Deregister(r) PROVE TypeOK'
  <2>1. mutation' \in Mutations
    BY <1>15 DEF Deregister, Mutations, Quiet
  <2> QED BY <2>1, <1>15 DEF Deregister, TypeOK, Records, Shaped
<1>16. ASSUME NEW l \in Leases, SweepLost(l) PROVE TypeOK'
  <2>1. mutation' \in Mutations
    BY <1>16 DEF SweepLost, Mutations, Quiet
  <2> QED BY <2>1, <1>16 DEF SweepLost, TypeOK, Records, Shaped
<1>17. ASSUME NEW l \in Leases, Each(l) PROVE TypeOK'
  <2>1. mutation' \in Mutations
    BY <1>17, <1>d DEF Each, Mutations
  <2> QED BY <2>1, <1>17 DEF Each, TypeOK, Records, Shaped
<1>18. ASSUME NEW l \in Leases, EachSkip(l) PROVE TypeOK'
  <2>1. mutation' \in Mutations
    BY <1>18, <1>d DEF EachSkip, Mutations
  <2> QED BY <2>1, <1>18 DEF EachSkip, TypeOK, Records, Shaped
<1>19. CASE EachDone
  <2>1. mutation' \in Mutations
    BY <1>19 DEF EachDone, Mutations, Quiet
  <2> QED BY <2>1, <1>19 DEF EachDone, TypeOK, Records, Shaped
<1>20. ASSUME NEW l \in Leases, LoseTake(l) PROVE TypeOK'
  <2>1. lease' \in [Leases -> LeaseRecords]
    BY <1>20, <1>a
    DEF LoseTake, Terminate, LeaseRecords, Ends
  <2>2. \A m \in Leases : Shaped(m)'
    BY <1>20, <1>a, <1>c, RackAssumption
    DEF LoseTake, Terminate, Nonterminal, Shaped, Free, RackAssumption, Ends
  <2>3. mutation' \in Mutations
    BY <1>20, <1>d, ResumedType
    DEF LoseTake, Mutations
  <2>4. fence' \in [Leases -> Transitions]
    BY <1>20, <1>c
    DEF LoseTake, Transitions, Free
  <2> QED BY <2>1, <2>2, <2>3, <2>4, <1>20 DEF LoseTake, TypeOK, Records
<1>21. ASSUME NEW l \in Leases, LoseTell(l) PROVE TypeOK'
  <2>1. rec' \in [Attempts -> Records]
    BY <1>21, <1>e, StoppedType DEF LoseTell
  <2>2. sub' \in [Leases -> Subscriptions]
    <3>1. [sub[l] EXCEPT !.ended = TRUE] \in Subscriptions
      BY <1>b DEF Subscriptions
    <3> QED BY <1>21, <1>b, <3>1 DEF LoseTell
  <2>3. dedupe' \in Leases \union {NoLease}
    BY <1>21, <1>f
    DEF LoseTell, Undeduped
  <2>4. told' \in [Sessions -> [Leases -> {"none", "completed", "lost", "cancelled"}]]
    BY <1>21, PublishedType
    DEF LoseTell
  <2>5. fence' \in [Leases -> Transitions]
    BY <1>21, <1>c
    DEF LoseTell, Transitions, Free
  <2>6. mutation' \in Mutations
    BY <1>21, <1>d, ResumedType
    DEF LoseTell, Mutations
  <2>7. \A m \in Leases : Shaped(m)'
    BY <1>21, <1>a, <1>c, RackAssumption
    DEF LoseTell, Shaped, Free, RackAssumption, Ends
  <2> QED BY <2>1, <2>2, <2>3, <2>4, <2>5, <2>6, <2>7, <1>21 DEF LoseTell, TypeOK, Records
<1>22. ASSUME NEW l \in Leases, Leave(l) PROVE TypeOK'
  <2>1. mutation' \in Mutations
    BY <1>22, <1>d, ResumedType
    DEF Leave, Mutations
  <2> QED BY <2>1, <1>22 DEF Leave, TypeOK, Records, Shaped
<1>23. ASSUME NEW l \in Leases, LeaveShared(l) PROVE TypeOK'
  <2>1. sub' \in [Leases -> Subscriptions]
    BY <1>23, <1>b
    DEF LeaveShared, LeftBy, Subscriptions
  <2>2. mutation' \in Mutations
    BY <1>23, <1>d, ResumedType
    DEF LeaveShared, LeftBy, Mutations
  <2> QED BY <2>1, <2>2, <1>23 DEF LeaveShared, TypeOK, Records, Shaped
<1>24. ASSUME NEW l \in Leases, CancelTake(l) PROVE TypeOK'
  <2>1. lease' \in [Leases -> LeaseRecords]
    BY <1>24, <1>a
    DEF CancelTake, Terminate, LeaseRecords, Ends
  <2>2. \A m \in Leases : Shaped(m)'
    BY <1>24, <1>a, <1>c, RackAssumption
    DEF CancelTake, Terminate, Nonterminal, Shaped, Free, RackAssumption, Ends
  <2>3. mutation' \in Mutations
    BY <1>24, <1>d, ResumedType
    DEF CancelTake, LeftBy, Mutations
  <2>4. fence' \in [Leases -> Transitions]
    BY <1>24, <1>c
    DEF CancelTake, Transitions, Free
  <2>5. sub' \in [Leases -> Subscriptions]
    <3>1. CASE sub' = [sub EXCEPT ![l].subscribers = @ \ {mutation.session}]
      BY <3>1, <1>b DEF Subscriptions
    <3> QED BY <3>1, <1>24, <1>b DEF CancelTake, LeftBy
  <2> QED BY <2>1, <2>2, <2>3, <2>4, <2>5, <1>24 DEF CancelTake, TypeOK, Records
<1>25. ASSUME NEW l \in Leases, CancelTell(l) PROVE TypeOK'
  <2>1. rec' \in [Attempts -> Records]
    BY <1>25, StoppedType DEF CancelTell
  <2>2. sub' \in [Leases -> Subscriptions]
    <3> DEFINE e == [sub[l] EXCEPT !.ended = TRUE, !.subscribers = sub[l].subscribers \ {mutation.session}]
    <3>1. e \in Subscriptions
      BY <1>b DEF Subscriptions
    <3>2. sub' = [sub EXCEPT ![l] = e]
      BY <1>25, <1>b DEF CancelTell, Subscriptions
    <3> HIDE DEF e
    <3> QED BY <3>1, <3>2, <1>b
  <2>3. dedupe' \in Leases \union {NoLease}
    BY <1>25, <1>f
    DEF CancelTell, Undeduped
  <2>4. told' \in [Sessions -> [Leases -> {"none", "completed", "lost", "cancelled"}]]
    BY <1>25, PublishedType
    DEF CancelTell
  <2>5. fence' \in [Leases -> Transitions]
    BY <1>25, <1>c
    DEF CancelTell, Transitions, Free
  <2>6. mutation' \in Mutations
    BY <1>25, <1>d, ResumedType
    DEF CancelTell, Mutations
  <2>7. \A m \in Leases : Shaped(m)'
    BY <1>25, <1>a, <1>c, RackAssumption
    DEF CancelTell, Shaped, Free, RackAssumption, Ends
  <2> QED BY <2>1, <2>2, <2>3, <2>4, <2>5, <2>6, <2>7, <1>25 DEF CancelTell, TypeOK, Records
<1>26. ASSUME NEW l \in Leases, Handover(l) PROVE TypeOK'
  <2>1. sub' \in [Leases -> Subscriptions]
    BY <1>26, <1>b
    DEF Handover, Subscriptions
  <2>2. mutation' \in Mutations
    BY <1>26, <1>d, ResumedType
    DEF Handover, Mutations
  <2> QED BY <2>1, <2>2, <1>26 DEF Handover, TypeOK, Records, Shaped
<1>27. CASE UNCHANGED vars
  <2> QED BY <1>27 DEF vars, TypeOK, Records, Shaped
<1> QED
  BY <1>1, <1>2, <1>3, <1>4, <1>5, <1>6, <1>7, <1>8, <1>9, <1>10, <1>11, <1>12, <1>13, <1>14, <1>15, <1>16, <1>17, <1>18, <1>19, <1>20, <1>21, <1>22, <1>23, <1>24, <1>25, <1>26, <1>27
     DEF Next, FenceStep, MutationStep, TypeOK

\* Every variable of the hub keeps its type, whatever its sizes.
THEOREM RackTypeCorrect == Spec => []TypeOK
BY InitType, NextType, PTL DEF Spec

-----------------------------------------------------------------------------
(* The invariant behind the outcomes and the refinement                    *)

\* Attempts are minted in turn, and those to come are not on record.
Fresh ==
  /\ \A m \in Leases : lease[m].attempt <= minted
  /\ \A a \in Attempts : a > minted => rec[a].state = "none"

\* Two leases never have one attempt.
Apart ==
  \A m, n \in Leases : (lease[m].attempt # 0 /\ lease[m].attempt = lease[n].attempt) => m = n

\* What a coordinator found of a lease still holds while it keeps its fence.
Fenced(m) ==
  /\ fence[m].at = "checked" => Nonterminal(m) /\ fence[m].rack \notin sub[m].claimants
  /\ fence[m].at = "taken" => Held(fence[m].rack, m)
  /\ fence[m].at = "settling" => Held(fence[m].rack, m) /\ rec[lease[m].attempt].state = "decided"

\* The latest attempt of an open lease was not stopped.
Running(m) ==
  (Nonterminal(m) /\ lease[m].attempt # 0) =>
    rec[lease[m].attempt].state \in {"none", "running", "decided"}

\* A lease being cancelled is cancelled.
Ending ==
  mutation.op = "cancelled" => mutation.lease \in Leases /\ lease[mutation.lease].status = "cancelled"

\* A rack that was granted a lease is a claimant of it for good, and while it
\* holds it the attempt is the granted one: this is what makes a completion
\* that names no attempt unambiguous.
GrantsHold ==
  \A g \in granted :
    /\ g.rack \in sub[g.lease].claimants
    /\ Held(g.rack, g.lease) => lease[g.lease].attempt = g.attempt

IInv ==
  /\ TypeOK /\ Fresh /\ Apart /\ Ending /\ GrantsHold /\ OutcomeOfAttempt
  /\ \A m \in Leases : Fenced(m) /\ Running(m)

LEMMA InitInv == Init => IInv
BY InitType DEF Init, IInv, Fresh, Apart, Ending, GrantsHold, OutcomeOfAttempt, Fenced, Running, Nonterminal,
                Free, Quiet

\* A step that leaves leases, fences, records and claimants alone keeps it.
LEMMA StillInv ==
  ASSUME IInv, TypeOK', UNCHANGED <<lease, fence, rec, minted, granted>>,
         \A m \in Leases : sub'[m].claimants = sub[m].claimants,
         mutation'.op = "cancelled" => UNCHANGED mutation
  PROVE  IInv'
<1>1. Fresh' /\ Apart' /\ OutcomeOfAttempt'
  BY DEF IInv, Fresh, Apart, OutcomeOfAttempt
<1>2. Ending'
  BY DEF IInv, Ending
<1>3. \A m \in Leases : Fenced(m)' /\ Running(m)'
  BY DEF IInv, Fenced, Running, Nonterminal, Held
<1>4. GrantsHold'
  BY DEF IInv, TypeOK, Grants, GrantsHold, Held
<1> QED BY <1>1, <1>2, <1>3, <1>4 DEF IInv

LEMMA NextInv == IInv /\ [Next]_vars => IInv'
<1> SUFFICES ASSUME IInv, [Next]_vars PROVE IInv'
  OBVIOUS
<1>t. TypeOK'
  BY NextType DEF IInv
<1>a. lease \in [Leases -> LeaseRecords] /\ \A m \in Leases : lease[m] \in LeaseRecords /\ Shaped(m)
  BY DEF IInv, TypeOK
<1>b. sub \in [Leases -> Subscriptions] /\ \A m \in Leases : sub[m] \in Subscriptions
  BY DEF IInv, TypeOK
<1>c. fence \in [Leases -> Transitions] /\ \A m \in Leases : fence[m] \in Transitions
  BY DEF IInv, TypeOK
<1>d. mutation \in Mutations
  BY DEF IInv, TypeOK
<1>e. rec \in [Attempts -> Records]
  BY DEF IInv, TypeOK, Records
<1>g. granted \subseteq Grants /\ \A g \in granted : g.rack \in Racks /\ g.lease \in Leases /\ g.attempt \in Attempts
  BY DEF IInv, TypeOK, Grants
<1>m. minted \in Nat /\ MaxAttempts \in Nat
  BY RackAssumption DEF IInv, TypeOK, RackAssumption
<1>s. \A m \in Leases :
        /\ lease[m].attempt \in {0} \union Attempts
        /\ lease[m].status = "claimed" => lease[m].attempt # 0
        /\ lease[m].status \in {"none", "pending"} => lease[m].attempt = 0
  BY <1>a DEF Shaped, LeaseRecords
<1>i. Fresh /\ Apart /\ Ending /\ GrantsHold /\ OutcomeOfAttempt /\ \A m \in Leases : Fenced(m) /\ Running(m)
  BY DEF IInv
<1>1. ASSUME NEW r \in Racks, NEW l \in Leases, ClaimCheck(r, l) PROVE IInv'
  <2>1. Fresh'
    BY <1>1, <1>a, <1>e, <1>m, <1>i
    DEF ClaimCheck, Fresh, LeaseRecords, Attempts
  <2>2. Apart'
    BY <1>1, <1>a, <1>s, <1>m, <1>i
    DEF ClaimCheck, Apart, Fresh, LeaseRecords, Attempts
  <2>3. Ending'
    BY <1>1, <1>a, <1>d, <1>i
    DEF ClaimCheck, Ending, LeaseRecords, Mutations, Nonterminal, Held
  <2>4. GrantsHold'
    BY <1>1, <1>a, <1>b, <1>g, <1>i
    DEF ClaimCheck, GrantsHold, Held, LeaseRecords, Subscriptions
  <2>5. OutcomeOfAttempt'
    BY <1>1, <1>a, <1>e, <1>i
    DEF ClaimCheck, OutcomeOfAttempt, Attempts, Records
  <2>6. \A m \in Leases : Fenced(m)'
    BY <1>1, <1>a, <1>b, <1>c, <1>e, <1>s, <1>m, <1>i
    DEF ClaimCheck, CanClaim, Claimable, Fenced, Apart, Fresh,  Nonterminal, Held, LeaseRecords, Transitions, Subscriptions, Records, Free
  <2>7. \A m \in Leases : Running(m)'
    BY <1>1, <1>a, <1>e, <1>s, <1>m, <1>i
    DEF ClaimCheck, Running, Apart, Fresh, Nonterminal, LeaseRecords, Attempts, Records
  <2> QED BY <1>t, <2>1, <2>2, <2>3, <2>4, <2>5, <2>6, <2>7 DEF IInv
<1>2. ASSUME NEW l \in Leases, ClaimTake(l) PROVE IInv'
  <2>1. minted' = minted + 1 /\ minted + 1 \in Attempts /\ Nonterminal(l) /\ fence[l].rack \notin sub[l].claimants
       /\ lease' = [lease EXCEPT ![l] = [status |-> "claimed", claimedBy |-> fence[l].rack, attempt |-> minted + 1, age |-> 0]]
    BY <1>2, <1>i, <1>m DEF ClaimTake, Attempts, Fenced
  <2>2. /\ rec' \in [Attempts -> Records]
       /\ \A a \in Attempts : rec'[a] = rec[a] \/ (a = lease[l].attempt /\ rec'[a].state = "interrupted")
    BY <1>2, <1>a, <1>e DEF ClaimTake, StoppedAs, Recorded, Records, LeaseRecords
  <2>3. Fresh'
    BY <1>2, <2>1, <2>2, <1>a, <1>e, <1>m, <1>i
    DEF ClaimTake, Fresh, LeaseRecords, Attempts
  <2>4. Apart'
    BY <1>2, <2>1, <2>2, <1>a, <1>s, <1>m, <1>i
    DEF ClaimTake, Apart, Fresh, LeaseRecords, Attempts
  <2>5. Ending'
    BY <1>2, <2>1, <2>2, <1>a, <1>d, <1>i
    DEF ClaimTake, Ending, LeaseRecords, Mutations, Nonterminal, Held
  <2>6. GrantsHold'
    BY <1>2, <2>1, <2>2, <1>a, <1>b, <1>g, <1>i
    DEF ClaimTake, GrantsHold, Held, LeaseRecords, Subscriptions
  <2>7. OutcomeOfAttempt'
    BY <1>2, <2>1, <2>2, <1>a, <1>e, <1>i
    DEF ClaimTake, OutcomeOfAttempt, Attempts, Records
  <2>8. \A m \in Leases : Fenced(m)'
    BY <1>2, <2>1, <2>2, <1>a, <1>b, <1>c, <1>e, <1>s, <1>m, <1>i
    DEF ClaimTake, Fenced, Apart, Fresh,  Nonterminal, Held, LeaseRecords, Transitions, Subscriptions, Records, Free
  <2>9. \A m \in Leases : Running(m)'
    BY <1>2, <2>1, <2>2, <1>a, <1>e, <1>s, <1>m, <1>i
    DEF ClaimTake, Running, Apart, Fresh, Nonterminal, LeaseRecords, Attempts, Records
  <2> QED BY <1>t, <2>3, <2>4, <2>5, <2>6, <2>7, <2>8, <2>9 DEF IInv
<1>3. ASSUME NEW l \in Leases, ClaimGrant(l) PROVE IInv'
  <2>1. /\ rec' \in [Attempts -> Records]
       /\ \A a \in Attempts : rec'[a] = rec[a] \/ (a = lease[l].attempt /\ rec'[a].state = "running")
    BY <1>3, <1>a, <1>e DEF ClaimGrant, Recorded, Records, LeaseRecords
  <2>2. Fresh'
    BY <1>3, <2>1, <1>a, <1>e, <1>m, <1>i
    DEF ClaimGrant, Fresh, LeaseRecords, Attempts
  <2>3. Apart'
    BY <1>3, <2>1, <1>a, <1>s, <1>m, <1>i
    DEF ClaimGrant, Apart, Fresh, LeaseRecords, Attempts
  <2>4. Ending'
    BY <1>3, <2>1, <1>a, <1>d, <1>i
    DEF ClaimGrant, Ending, LeaseRecords, Mutations, Nonterminal, Held
  <2>5. GrantsHold'
    BY <1>3, <2>1, <1>a, <1>b, <1>g, <1>i
    DEF ClaimGrant, GrantsHold, Held, LeaseRecords, Subscriptions
  <2>6. OutcomeOfAttempt'
    BY <1>3, <2>1, <1>a, <1>e, <1>i
    DEF ClaimGrant, OutcomeOfAttempt, Attempts, Records
  <2>7. \A m \in Leases : Fenced(m)'
    BY <1>3, <2>1, <1>a, <1>b, <1>c, <1>e, <1>s, <1>m, <1>i
    DEF ClaimGrant, Fenced, Apart, Fresh,  Nonterminal, Held, LeaseRecords, Transitions, Subscriptions, Records, Free
  <2>8. \A m \in Leases : Running(m)'
    BY <1>3, <2>1, <1>a, <1>e, <1>s, <1>m, <1>i
    DEF ClaimGrant, Running, Apart, Fresh, Nonterminal, LeaseRecords, Attempts, Records
  <2> QED BY <1>t, <2>2, <2>3, <2>4, <2>5, <2>6, <2>7, <2>8 DEF IInv
<1>4. ASSUME NEW l \in Leases, ClaimFail(l) PROVE IInv'
  <2>1. Fresh'
    BY <1>4, <1>a, <1>e, <1>m, <1>i
    DEF ClaimFail, Fresh, LeaseRecords, Attempts
  <2>2. Apart'
    BY <1>4, <1>a, <1>s, <1>m, <1>i
    DEF ClaimFail, Apart, Fresh, LeaseRecords, Attempts
  <2>3. Ending'
    BY <1>4, <1>a, <1>d, <1>i
    DEF ClaimFail, Ending, LeaseRecords, Mutations, Nonterminal, Held
  <2>4. GrantsHold'
    BY <1>4, <1>a, <1>b, <1>g, <1>i
    DEF ClaimFail, GrantsHold, Held, LeaseRecords, Subscriptions
  <2>5. OutcomeOfAttempt'
    BY <1>4, <1>a, <1>e, <1>i
    DEF ClaimFail, OutcomeOfAttempt, Attempts, Records
  <2>6. \A m \in Leases : Fenced(m)'
    BY <1>4, <1>a, <1>b, <1>c, <1>e, <1>s, <1>m, <1>i
    DEF ClaimFail, Fenced, Apart, Fresh,  Nonterminal, Held, LeaseRecords, Transitions, Subscriptions, Records, Free
  <2>7. \A m \in Leases : Running(m)'
    BY <1>4, <1>a, <1>e, <1>s, <1>m, <1>i
    DEF ClaimFail, Running, Apart, Fresh, Nonterminal, LeaseRecords, Attempts, Records
  <2> QED BY <1>t, <2>1, <2>2, <2>3, <2>4, <2>5, <2>6, <2>7 DEF IInv
<1>5. ASSUME NEW r \in Racks, NEW l \in Leases, Extend(r, l) PROVE IInv'
  <2>1. Fresh'
    BY <1>5, <1>a, <1>e, <1>m, <1>i
    DEF Extend, Fresh, LeaseRecords, Attempts
  <2>2. Apart'
    BY <1>5, <1>a, <1>s, <1>m, <1>i
    DEF Extend, Apart, Fresh, LeaseRecords, Attempts
  <2>3. Ending'
    BY <1>5, <1>a, <1>d, <1>i
    DEF Extend, Ending, LeaseRecords, Mutations, Nonterminal, Held
  <2>4. GrantsHold'
    BY <1>5, <1>a, <1>b, <1>g, <1>i
    DEF Extend, GrantsHold, Held, LeaseRecords, Subscriptions
  <2>5. OutcomeOfAttempt'
    BY <1>5, <1>a, <1>e, <1>i
    DEF Extend, OutcomeOfAttempt, Attempts, Records
  <2>6. \A m \in Leases : Fenced(m)'
    BY <1>5, <1>a, <1>b, <1>c, <1>e, <1>s, <1>m, <1>i
    DEF Extend, Fenced, Apart, Fresh,  Nonterminal, Held, LeaseRecords, Transitions, Subscriptions, Records, Free
  <2>7. \A m \in Leases : Running(m)'
    BY <1>5, <1>a, <1>e, <1>s, <1>m, <1>i
    DEF Extend, Running, Apart, Fresh, Nonterminal, LeaseRecords, Attempts, Records
  <2> QED BY <1>t, <2>1, <2>2, <2>3, <2>4, <2>5, <2>6, <2>7 DEF IInv
<1>6. ASSUME NEW g \in granted, CompleteRecord(g) PROVE IInv'
  <2>1. g.lease \in Leases /\ g.rack \in Racks /\ Held(g.rack, g.lease) /\ lease[g.lease].attempt = g.attempt
    BY <1>6, <1>g, <1>i DEF CompleteRecord, GrantsHold
  <2>2. /\ UNCHANGED <<lease, sub, mutation, minted, granted>>
       /\ fence' = [fence EXCEPT ![g.lease] = [at |-> "settling", rack |-> g.rack]]
       /\ rec' = Recorded(g.attempt, "decided", g.attempt)
    BY <1>6, <2>1 DEF CompleteRecord
  <2>3. lease[g.lease].attempt \in Attempts /\ lease[g.lease].attempt # 0 /\ Nonterminal(g.lease)
    BY <2>1, <1>s DEF Held, Nonterminal
  <2>4. /\ \A a \in Attempts : a # g.attempt => rec'[a] = rec[a]
       /\ rec'[g.attempt].state = "decided" /\ rec'[g.attempt].by = g.attempt
    BY <2>1, <2>2, <2>3, <1>e, <1>i DEF Recorded, Undecided, Records, Running, OutcomeOfAttempt
  <2>5. Fresh'
    BY <2>1, <2>2, <2>3, <2>4, <1>i, <1>m DEF Fresh, Attempts
  <2>6. Apart'
    BY <2>2, <1>i DEF Apart
  <2>7. Ending'
    BY <2>2, <1>i DEF Ending
  <2>8. GrantsHold'
    BY <2>2, <1>i, <1>g DEF GrantsHold, Held
  <2>9. OutcomeOfAttempt'
    BY <2>1, <2>4, <1>i DEF OutcomeOfAttempt
  <2>10. \A m \in Leases : Fenced(m)'
    BY <2>1, <2>2, <2>3, <2>4, <1>c, <1>s, <1>i DEF Fenced, Apart, Held, Nonterminal, Transitions
  <2>11. \A m \in Leases : Running(m)'
    BY <2>1, <2>2, <2>3, <2>4, <1>s, <1>i DEF Running, Apart, Nonterminal
  <2> QED BY <1>t, <2>5, <2>6, <2>7, <2>8, <2>9, <2>10, <2>11 DEF IInv
<1>7. ASSUME NEW l \in Leases, CompleteSettle(l) PROVE IInv'
  <2>1. Fresh'
    BY <1>7, <1>a, <1>e, <1>m, <1>i
    DEF CompleteSettle, Fresh, LeaseRecords, Attempts
  <2>2. Apart'
    BY <1>7, <1>a, <1>s, <1>m, <1>i
    DEF CompleteSettle, Apart, Fresh, LeaseRecords, Attempts
  <2>3. Ending'
    BY <1>7, <1>a, <1>d, <1>i
    DEF CompleteSettle, Ending, LeaseRecords, Mutations, Nonterminal, Held
  <2>4. GrantsHold'
    BY <1>7, <1>a, <1>b, <1>g, <1>i
    DEF CompleteSettle, GrantsHold, Held, LeaseRecords, Subscriptions
  <2>5. OutcomeOfAttempt'
    BY <1>7, <1>a, <1>e, <1>i
    DEF CompleteSettle, OutcomeOfAttempt, Attempts, Records
  <2>6. \A m \in Leases : Fenced(m)'
    BY <1>7, <1>a, <1>b, <1>c, <1>e, <1>s, <1>m, <1>i
    DEF CompleteSettle, Fenced, Apart, Fresh,  Nonterminal, Held, LeaseRecords, Transitions, Subscriptions, Records, Free
  <2>7. \A m \in Leases : Running(m)'
    BY <1>7, <1>a, <1>e, <1>s, <1>m, <1>i
    DEF CompleteSettle, Running, Apart, Fresh, Nonterminal, LeaseRecords, Attempts, Records
  <2> QED BY <1>t, <2>1, <2>2, <2>3, <2>4, <2>5, <2>6, <2>7 DEF IInv
<1>8. ASSUME NEW l \in Leases, CompleteFinish(l) PROVE IInv'
  <2>1. Fresh'
    BY <1>8, <1>a, <1>e, <1>m, <1>i
    DEF CompleteFinish, Fresh, LeaseRecords, Attempts
  <2>2. Apart'
    BY <1>8, <1>a, <1>s, <1>m, <1>i
    DEF CompleteFinish, Apart, Fresh, LeaseRecords, Attempts
  <2>3. Ending'
    BY <1>8, <1>a, <1>d, <1>i
    DEF CompleteFinish, Ending, LeaseRecords, Mutations, Nonterminal, Held
  <2>4. GrantsHold'
    BY <1>8, <1>a, <1>b, <1>g, <1>i
    DEF CompleteFinish, GrantsHold, Held, LeaseRecords, Subscriptions
  <2>5. OutcomeOfAttempt'
    BY <1>8, <1>a, <1>e, <1>i
    DEF CompleteFinish, OutcomeOfAttempt, Attempts, Records
  <2>6. \A m \in Leases : Fenced(m)'
    BY <1>8, <1>a, <1>b, <1>c, <1>e, <1>s, <1>m, <1>i
    DEF CompleteFinish, Fenced, Apart, Fresh,  Nonterminal, Held, LeaseRecords, Transitions, Subscriptions, Records, Free
  <2>7. \A m \in Leases : Running(m)'
    BY <1>8, <1>a, <1>e, <1>s, <1>m, <1>i
    DEF CompleteFinish, Running, Apart, Fresh, Nonterminal, LeaseRecords, Attempts, Records
  <2> QED BY <1>t, <2>1, <2>2, <2>3, <2>4, <2>5, <2>6, <2>7 DEF IInv
<1>9. ASSUME NEW l \in Leases, CompletePublish(l) PROVE IInv'
  <2>1. Fresh'
    BY <1>9, <1>a, <1>e, <1>m, <1>i
    DEF CompletePublish, Fresh, LeaseRecords, Attempts
  <2>2. Apart'
    BY <1>9, <1>a, <1>s, <1>m, <1>i
    DEF CompletePublish, Apart, Fresh, LeaseRecords, Attempts
  <2>3. Ending'
    BY <1>9, <1>a, <1>d, <1>i
    DEF CompletePublish, Ending, LeaseRecords, Mutations, Nonterminal, Held
  <2>4. GrantsHold'
    BY <1>9, <1>a, <1>b, <1>g, <1>i
    DEF CompletePublish, GrantsHold, Held, LeaseRecords, Subscriptions
  <2>5. OutcomeOfAttempt'
    BY <1>9, <1>a, <1>e, <1>i
    DEF CompletePublish, OutcomeOfAttempt, Attempts, Records
  <2>6. \A m \in Leases : Fenced(m)'
    BY <1>9, <1>a, <1>b, <1>c, <1>e, <1>s, <1>m, <1>i
    DEF CompletePublish, Fenced, Apart, Fresh,  Nonterminal, Held, LeaseRecords, Transitions, Subscriptions, Records, Free
  <2>7. \A m \in Leases : Running(m)'
    BY <1>9, <1>a, <1>e, <1>s, <1>m, <1>i
    DEF CompletePublish, Running, Apart, Fresh, Nonterminal, LeaseRecords, Attempts, Records
  <2> QED BY <1>t, <2>1, <2>2, <2>3, <2>4, <2>5, <2>6, <2>7 DEF IInv
<1>10. ASSUME NEW l \in Leases, Pass(l) PROVE IInv'
  <2>1. Fresh'
    BY <1>10, <1>a, <1>e, <1>m, <1>i
    DEF Pass, Fresh, LeaseRecords, Attempts
  <2>2. Apart'
    BY <1>10, <1>a, <1>s, <1>m, <1>i
    DEF Pass, Apart, Fresh, LeaseRecords, Attempts
  <2>3. Ending'
    BY <1>10, <1>a, <1>d, <1>i
    DEF Pass, Ending, LeaseRecords, Mutations, Nonterminal, Held
  <2>4. GrantsHold'
    BY <1>10, <1>a, <1>b, <1>g, <1>i
    DEF Pass, GrantsHold, Held, LeaseRecords, Subscriptions
  <2>5. OutcomeOfAttempt'
    BY <1>10, <1>a, <1>e, <1>i
    DEF Pass, OutcomeOfAttempt, Attempts, Records
  <2>6. \A m \in Leases : Fenced(m)'
    BY <1>10, <1>a, <1>b, <1>c, <1>e, <1>s, <1>m, <1>i
    DEF Pass, Fenced, Apart, Fresh,  Nonterminal, Held, LeaseRecords, Transitions, Subscriptions, Records, Free
  <2>7. \A m \in Leases : Running(m)'
    BY <1>10, <1>a, <1>e, <1>s, <1>m, <1>i
    DEF Pass, Running, Apart, Fresh, Nonterminal, LeaseRecords, Attempts, Records
  <2> QED BY <1>t, <2>1, <2>2, <2>3, <2>4, <2>5, <2>6, <2>7 DEF IInv
<1>11. ASSUME NEW s \in Sessions, SessionDies(s) PROVE IInv'
  <2>1. /\ UNCHANGED <<lease, fence, rec, minted, granted>>
        /\ \A m \in Leases : sub'[m].claimants = sub[m].claimants
    BY <1>11, <1>b DEF SessionDies, Subscriptions
  <2>2. mutation'.op = "cancelled" => UNCHANGED mutation
    BY <1>11, <1>d DEF SessionDies, Mutations, Quiet, Resumed
  <2> QED BY <1>t, <1>i, <1>g, <2>1, <2>2, StillInv DEF IInv
<1>12. ASSUME NEW s \in Sessions, Submit(s) PROVE IInv'
  <2>1. /\ UNCHANGED <<fence, rec, minted, granted, mutation>>
        /\ \A m \in Leases : sub'[m].claimants = sub[m].claimants
        /\ \A m \in Leases : \/ lease'[m] = lease[m]
                             \/ /\ lease[m].status = "none" /\ lease[m].attempt = 0
                                /\ lease'[m].status = "pending" /\ lease'[m].attempt = 0
    <3>1. CASE dedupe # NoLease /\ Nonterminal(dedupe)
      BY <1>12, <3>1, <1>b DEF Submit, Subscriptions
    <3>2. CASE ~(dedupe # NoLease /\ Nonterminal(dedupe))
      <4>1. PICK l \in Leases :
              /\ lease[l].status = "none" /\ lease' = [lease EXCEPT ![l].status = "pending"]
              /\ sub' = [sub EXCEPT ![l] = [@ EXCEPT !.subscribers = {s}, !.owner = s]]
        BY <1>12, <3>2 DEF Submit
      <4>2. UNCHANGED <<fence, rec, minted, granted, mutation>>
        BY <1>12 DEF Submit
      <4>3. \A m \in Leases : sub'[m].claimants = sub[m].claimants
        BY <4>1, <1>b DEF Subscriptions
      <4>4. \A m \in Leases : \/ lease'[m] = lease[m]
                             \/ /\ lease[m].status = "none" /\ lease[m].attempt = 0
                                /\ lease'[m].status = "pending" /\ lease'[m].attempt = 0
        BY <4>1, <1>a DEF Shaped, LeaseRecords
      <4> QED BY <4>2, <4>3, <4>4
    <3> QED BY <3>1, <3>2
  <2>2. Fresh'
    BY <2>1, <1>a, <1>e, <1>m, <1>i DEF Fresh, LeaseRecords, Attempts
  <2>3. Apart'
    BY <2>1, <1>a, <1>s, <1>m, <1>i DEF Apart, Fresh, LeaseRecords, Attempts
  <2>4. Ending'
    BY <2>1, <1>a, <1>d, <1>i DEF Ending, LeaseRecords, Mutations, Nonterminal, Held
  <2>5. GrantsHold'
    BY <2>1, <1>a, <1>b, <1>g, <1>i DEF GrantsHold, Held, LeaseRecords, Subscriptions
  <2>6. OutcomeOfAttempt'
    BY <2>1, <1>a, <1>e, <1>i DEF OutcomeOfAttempt, Attempts, Records
  <2>7. \A m \in Leases : Fenced(m)'
    BY <2>1, <1>a, <1>b, <1>c, <1>e, <1>s, <1>m, <1>i DEF Fenced, Apart, Fresh,  Nonterminal, Held, LeaseRecords, Transitions, Subscriptions, Records, Free
  <2>8. \A m \in Leases : Running(m)'
    BY <2>1, <1>a, <1>e, <1>s, <1>m, <1>i DEF Running, Apart, Fresh, Nonterminal, LeaseRecords, Attempts, Records
  <2> QED BY <1>t, <2>2, <2>3, <2>4, <2>5, <2>6, <2>7, <2>8 DEF IInv
<1>13. ASSUME NEW s \in Sessions, NEW l \in Leases, Cancel(s, l) PROVE IInv'
  <2>1. /\ UNCHANGED <<lease, fence, rec, minted, granted>>
        /\ \A m \in Leases : sub'[m].claimants = sub[m].claimants
    BY <1>13, <1>b DEF Cancel, Subscriptions
  <2>2. mutation'.op = "cancelled" => UNCHANGED mutation
    BY <1>13, <1>d DEF Cancel, Mutations, Quiet, Resumed
  <2> QED BY <1>t, <1>i, <1>g, <2>1, <2>2, StillInv DEF IInv
<1>14. ASSUME NEW s \in Sessions, EndSession(s) PROVE IInv'
  <2>1. /\ UNCHANGED <<lease, fence, rec, minted, granted>>
        /\ \A m \in Leases : sub'[m].claimants = sub[m].claimants
    BY <1>14, <1>b DEF EndSession, Subscriptions
  <2>2. mutation'.op = "cancelled" => UNCHANGED mutation
    BY <1>14, <1>d DEF EndSession, Mutations, Quiet, Resumed
  <2> QED BY <1>t, <1>i, <1>g, <2>1, <2>2, StillInv DEF IInv
<1>15. ASSUME NEW r \in Racks, Deregister(r) PROVE IInv'
  <2>1. /\ UNCHANGED <<lease, fence, rec, minted, granted>>
        /\ \A m \in Leases : sub'[m].claimants = sub[m].claimants
    BY <1>15, <1>b DEF Deregister, Subscriptions
  <2>2. mutation'.op = "cancelled" => UNCHANGED mutation
    BY <1>15, <1>d DEF Deregister, Mutations, Quiet, Resumed
  <2> QED BY <1>t, <1>i, <1>g, <2>1, <2>2, StillInv DEF IInv
<1>16. ASSUME NEW l \in Leases, SweepLost(l) PROVE IInv'
  <2>1. /\ UNCHANGED <<lease, fence, rec, minted, granted>>
        /\ \A m \in Leases : sub'[m].claimants = sub[m].claimants
    BY <1>16, <1>b DEF SweepLost, Subscriptions
  <2>2. mutation'.op = "cancelled" => UNCHANGED mutation
    BY <1>16, <1>d DEF SweepLost, Mutations, Quiet, Resumed
  <2> QED BY <1>t, <1>i, <1>g, <2>1, <2>2, StillInv DEF IInv
<1>17. ASSUME NEW l \in Leases, Each(l) PROVE IInv'
  <2>1. /\ UNCHANGED <<lease, fence, rec, minted, granted>>
        /\ \A m \in Leases : sub'[m].claimants = sub[m].claimants
    BY <1>17, <1>b DEF Each, Subscriptions
  <2>2. mutation'.op = "cancelled" => UNCHANGED mutation
    BY <1>17, <1>d DEF Each, Mutations, Quiet, Resumed
  <2> QED BY <1>t, <1>i, <1>g, <2>1, <2>2, StillInv DEF IInv
<1>18. ASSUME NEW l \in Leases, EachSkip(l) PROVE IInv'
  <2>1. /\ UNCHANGED <<lease, fence, rec, minted, granted>>
        /\ \A m \in Leases : sub'[m].claimants = sub[m].claimants
    BY <1>18, <1>b DEF EachSkip, Subscriptions
  <2>2. mutation'.op = "cancelled" => UNCHANGED mutation
    BY <1>18, <1>d DEF EachSkip, Mutations, Quiet, Resumed
  <2> QED BY <1>t, <1>i, <1>g, <2>1, <2>2, StillInv DEF IInv
<1>19. CASE EachDone
  <2>1. /\ UNCHANGED <<lease, fence, rec, minted, granted>>
        /\ \A m \in Leases : sub'[m].claimants = sub[m].claimants
    BY <1>19, <1>b DEF EachDone, Subscriptions
  <2>2. mutation'.op = "cancelled" => UNCHANGED mutation
    BY <1>19, <1>d DEF EachDone, Mutations, Quiet, Resumed
  <2> QED BY <1>t, <1>i, <1>g, <2>1, <2>2, StillInv DEF IInv
<1>20. ASSUME NEW l \in Leases, LoseTake(l) PROVE IInv'
  <2>1. Resumed.op \in {"each", "free"}
    BY <1>d DEF Resumed, Quiet, Mutations
  <2>2. mutation'.op # "cancelled"
    BY <1>20, <2>1, <1>d DEF LoseTake, Mutations
  <2>3. Fresh'
    BY <1>20, <2>1, <2>2, <1>a, <1>e, <1>m, <1>i
    DEF LoseTake, Terminate, Nonterminal, Fresh, LeaseRecords, Attempts
  <2>4. Apart'
    BY <1>20, <2>1, <2>2, <1>a, <1>s, <1>m, <1>i
    DEF LoseTake, Terminate, Nonterminal, Apart, Fresh, LeaseRecords, Attempts
  <2>5. Ending'
    BY <1>20, <2>1, <2>2, <1>a, <1>d, <1>i
    DEF LoseTake, Terminate, Nonterminal, Ending, LeaseRecords, Mutations, Nonterminal, Held
  <2>6. GrantsHold'
    BY <1>20, <2>1, <2>2, <1>a, <1>b, <1>g, <1>i
    DEF LoseTake, Terminate, Nonterminal, GrantsHold, Held, LeaseRecords, Subscriptions
  <2>7. OutcomeOfAttempt'
    BY <1>20, <2>1, <2>2, <1>a, <1>e, <1>i
    DEF LoseTake, Terminate, Nonterminal, OutcomeOfAttempt, Attempts, Records
  <2>8. \A m \in Leases : Fenced(m)'
    BY <1>20, <2>1, <2>2, <1>a, <1>b, <1>c, <1>e, <1>s, <1>m, <1>i
    DEF LoseTake, Terminate, Fenced, Apart, Fresh,  Nonterminal, Held, LeaseRecords, Transitions, Subscriptions, Records, Free
  <2>9. \A m \in Leases : Running(m)'
    BY <1>20, <2>1, <2>2, <1>a, <1>e, <1>s, <1>m, <1>i
    DEF LoseTake, Terminate, Running, Apart, Fresh, Nonterminal, LeaseRecords, Attempts, Records
  <2> QED BY <1>t, <2>3, <2>4, <2>5, <2>6, <2>7, <2>8, <2>9 DEF IInv
<1>21. ASSUME NEW l \in Leases, LoseTell(l) PROVE IInv'
  <2>1. /\ rec' \in [Attempts -> Records]
       /\ \A a \in Attempts : rec'[a] = rec[a] \/ (a = lease[l].attempt /\ ~Nonterminal(l) /\ rec[a].state # "decided"
                                                /\ rec'[a].state = "interrupted")
    BY <1>21, <1>a, <1>e, <1>i, <1>d DEF LoseTell, StoppedAs, Recorded, Undecided, Records, LeaseRecords, Nonterminal, Ending, Mutations
  <2>2. Fresh'
    BY <1>21, <2>1, <1>a, <1>e, <1>m, <1>i
    DEF LoseTell, Fresh, LeaseRecords, Attempts
  <2>3. Apart'
    BY <1>21, <2>1, <1>a, <1>s, <1>m, <1>i
    DEF LoseTell, Apart, Fresh, LeaseRecords, Attempts
  <2>4. Ending'
    BY <1>21, <2>1, <1>a, <1>d, <1>i
    DEF LoseTell, Resumed, Quiet, Ending, LeaseRecords, Mutations, Nonterminal, Held
  <2>5. GrantsHold'
    BY <1>21, <2>1, <1>a, <1>b, <1>g, <1>i
    DEF LoseTell, GrantsHold, Held, LeaseRecords, Subscriptions
  <2>6. OutcomeOfAttempt'
    BY <1>21, <2>1, <1>a, <1>e, <1>i
    DEF LoseTell, OutcomeOfAttempt, Attempts, Records
  <2>7. \A m \in Leases : Fenced(m)'
    BY <1>21, <2>1, <1>a, <1>b, <1>c, <1>e, <1>s, <1>m, <1>i
    DEF LoseTell, Fenced, Apart, Fresh,  Nonterminal, Held, LeaseRecords, Transitions, Subscriptions, Records, Free
  <2>8. \A m \in Leases : Running(m)'
    BY <1>21, <2>1, <1>a, <1>e, <1>s, <1>m, <1>i
    DEF LoseTell, Running, Apart, Fresh, Nonterminal, LeaseRecords, Attempts, Records
  <2> QED BY <1>t, <2>2, <2>3, <2>4, <2>5, <2>6, <2>7, <2>8 DEF IInv
<1>22. ASSUME NEW l \in Leases, Leave(l) PROVE IInv'
  <2>1. /\ UNCHANGED <<lease, fence, rec, minted, granted>>
        /\ \A m \in Leases : sub'[m].claimants = sub[m].claimants
    BY <1>22, <1>b DEF Leave, Subscriptions
  <2>2. mutation'.op = "cancelled" => UNCHANGED mutation
    BY <1>22, <1>d DEF Leave, Mutations, Quiet, Resumed
  <2> QED BY <1>t, <1>i, <1>g, <2>1, <2>2, StillInv DEF IInv
<1>23. ASSUME NEW l \in Leases, LeaveShared(l) PROVE IInv'
  <2>1. /\ UNCHANGED <<lease, fence, rec, minted, granted>>
        /\ \A m \in Leases : sub'[m].claimants = sub[m].claimants
    BY <1>23, <1>b DEF LeaveShared, LeftBy, Subscriptions
  <2>2. mutation'.op = "cancelled" => UNCHANGED mutation
    BY <1>23, <1>d DEF LeaveShared, LeftBy, Mutations, Quiet, Resumed
  <2> QED BY <1>t, <1>i, <1>g, <2>1, <2>2, StillInv DEF IInv
<1>24. ASSUME NEW l \in Leases, CancelTake(l) PROVE IInv'
  <2>1. Resumed.op \in {"each", "free"}
    BY <1>d DEF Resumed, Quiet, Mutations
  <2>2. mutation'.op = "cancelled" => Nonterminal(l) /\ mutation'.lease = l
    BY <1>24, <2>1, <1>d DEF CancelTake, LeftBy, Mutations
  <2>3. Fresh'
    BY <1>24, <2>1, <2>2, <1>a, <1>e, <1>m, <1>i
    DEF CancelTake, Terminate, Nonterminal, Fresh, LeaseRecords, Attempts
  <2>4. Apart'
    BY <1>24, <2>1, <2>2, <1>a, <1>s, <1>m, <1>i
    DEF CancelTake, Terminate, Nonterminal, Apart, Fresh, LeaseRecords, Attempts
  <2>5. Ending'
    BY <1>24, <2>2, <1>a DEF CancelTake, Terminate, Ending, LeaseRecords
  <2>6. GrantsHold'
    BY SMTT(30), <1>24, <2>1, <2>2, <1>a, <1>b, <1>g, <1>i
    DEF CancelTake, Terminate, Nonterminal, LeftBy, GrantsHold, Held, LeaseRecords, Subscriptions
  <2>7. OutcomeOfAttempt'
    BY <1>24, <2>1, <2>2, <1>a, <1>e, <1>i
    DEF CancelTake, Terminate, Nonterminal, OutcomeOfAttempt, Attempts, Records
  <2>8. \A m \in Leases : Fenced(m)'
    BY <1>24, <2>1, <2>2, <1>a, <1>b, <1>c, <1>e, <1>s, <1>m, <1>i
    DEF CancelTake, Terminate, LeftBy, Fenced, Apart, Fresh,  Nonterminal, Held, LeaseRecords, Transitions, Subscriptions, Records, Free
  <2>9. \A m \in Leases : Running(m)'
    BY <1>24, <2>1, <2>2, <1>a, <1>e, <1>s, <1>m, <1>i
    DEF CancelTake, Terminate, Running, Apart, Fresh, Nonterminal, LeaseRecords, Attempts, Records
  <2> QED BY <1>t, <2>3, <2>4, <2>5, <2>6, <2>7, <2>8, <2>9 DEF IInv
<1>25. ASSUME NEW l \in Leases, CancelTell(l) PROVE IInv'
  <2>1. /\ rec' \in [Attempts -> Records]
       /\ \A a \in Attempts : rec'[a] = rec[a] \/ (a = lease[l].attempt /\ ~Nonterminal(l) /\ rec[a].state # "decided"
                                                /\ rec'[a].state = "cancelled")
    BY <1>25, <1>a, <1>e, <1>i, <1>d DEF CancelTell, StoppedAs, Recorded, Undecided, Records, LeaseRecords, Nonterminal, Ending, Mutations
  <2>2. Fresh'
    BY <1>25, <2>1, <1>a, <1>e, <1>m, <1>i
    DEF CancelTell, Fresh, LeaseRecords, Attempts
  <2>3. Apart'
    BY <1>25, <2>1, <1>a, <1>s, <1>m, <1>i
    DEF CancelTell, Apart, Fresh, LeaseRecords, Attempts
  <2>4. Ending'
    BY <1>25, <2>1, <1>a, <1>d, <1>i
    DEF CancelTell, Resumed, Quiet, Ending, LeaseRecords, Mutations, Nonterminal, Held
  <2>5. GrantsHold'
    BY <1>25, <2>1, <1>a, <1>b, <1>g, <1>i
    DEF CancelTell, GrantsHold, Held, LeaseRecords, Subscriptions
  <2>6. OutcomeOfAttempt'
    BY <1>25, <2>1, <1>a, <1>e, <1>i
    DEF CancelTell, OutcomeOfAttempt, Attempts, Records
  <2>7. \A m \in Leases : Fenced(m)'
    BY <1>25, <2>1, <1>a, <1>b, <1>c, <1>e, <1>s, <1>m, <1>i
    DEF CancelTell, Fenced, Apart, Fresh,  Nonterminal, Held, LeaseRecords, Transitions, Subscriptions, Records, Free
  <2>8. \A m \in Leases : Running(m)'
    BY <1>25, <2>1, <1>a, <1>e, <1>s, <1>m, <1>i
    DEF CancelTell, Running, Apart, Fresh, Nonterminal, LeaseRecords, Attempts, Records
  <2> QED BY <1>t, <2>2, <2>3, <2>4, <2>5, <2>6, <2>7, <2>8 DEF IInv
<1>26. ASSUME NEW l \in Leases, Handover(l) PROVE IInv'
  <2>1. /\ UNCHANGED <<lease, fence, rec, minted, granted>>
        /\ \A m \in Leases : sub'[m].claimants = sub[m].claimants
    BY <1>26, <1>b DEF Handover, Subscriptions
  <2>2. mutation'.op = "cancelled" => UNCHANGED mutation
    BY <1>26, <1>d DEF Handover, Mutations, Quiet, Resumed
  <2> QED BY <1>t, <1>i, <1>g, <2>1, <2>2, StillInv DEF IInv
<1>27. CASE UNCHANGED vars
  <2>1. /\ UNCHANGED <<lease, fence, rec, minted, granted>>
        /\ \A m \in Leases : sub'[m].claimants = sub[m].claimants
    BY <1>27, <1>b DEF vars, Subscriptions
  <2>2. mutation'.op = "cancelled" => UNCHANGED mutation
    BY <1>27, <1>d DEF vars, Mutations, Quiet, Resumed
  <2> QED BY <1>t, <1>i, <1>g, <2>1, <2>2, StillInv DEF IInv
<1> QED
  BY <1>1, <1>2, <1>3, <1>4, <1>5, <1>6, <1>7, <1>8, <1>9, <1>10, <1>11, <1>12, <1>13, <1>14, <1>15, <1>16, <1>17, <1>18, <1>19, <1>20, <1>21, <1>22, <1>23, <1>24, <1>25, <1>26, <1>27
     DEF Next, FenceStep, MutationStep

\* The hub keeps the whole of its invariant (Rack's handlers of leases, fences,
\* records and sessions), for any number of racks, sessions and leases.
THEOREM RackInvariant == Spec => []IInv
BY InitInv, NextInv, PTL DEF Spec

\* An attempt is recorded with the outcome of its own run and no other, though
\* a rack's completion does not name it.
THEOREM RackOutcomes == Spec => []OutcomeOfAttempt
<1>1. IInv => OutcomeOfAttempt
  BY DEF IInv
<1> QED BY <1>1, RackInvariant, PTL

-----------------------------------------------------------------------------
(* The hub implements Delegation                                           *)

LEMMA InitImplements == Init => Implements!Init
BY DEF Init, Implements!Init, Ended, Latest, OnRecord, Ends

\* A step that keeps leases and records is a stutter of Delegation.
LEMMA Stutter == UNCHANGED <<lease, rec>> => UNCHANGED Implements!vars
BY DEF Implements!vars, Ended, Latest, OnRecord

LEMMA StepImplements == IInv /\ [Next]_vars => [Implements!Next]_(Implements!vars)
<1> SUFFICES ASSUME IInv, [Next]_vars PROVE Implements!Next \/ UNCHANGED Implements!vars
  OBVIOUS
<1>a. /\ lease \in [Leases -> LeaseRecords] /\ \A m \in Leases : lease[m] \in LeaseRecords /\ Shaped(m)
      /\ rec \in [Attempts -> Records] /\ minted \in Nat /\ MaxAttempts \in Nat
  BY RackAssumption DEF IInv, TypeOK, Records, RackAssumption
<1>i. Fresh /\ Apart /\ Ending /\ \A m \in Leases : Fenced(m) /\ Running(m)
  BY DEF IInv
<1>s. \A m \in Leases :
        /\ lease[m].attempt \in {0} \union Attempts
        /\ lease[m].status = "claimed" => lease[m].attempt # 0
  BY <1>a DEF Shaped, LeaseRecords
<1>r. ASSUME NEW a \in Attempts, NEW state \in {"running", "decided", "interrupted", "cancelled"},
             NEW by, rec' = Recorded(a, state, by)
      PROVE  \/ OnRecord' = OnRecord
             \/ OnRecord[a] \in Implements!Undecided /\ OnRecord' = [OnRecord EXCEPT ![a] = state]
  BY <1>r, <1>a DEF Recorded, Undecided, OnRecord, Implements!Undecided, Records
<1>1. ASSUME NEW l \in Leases, ClaimTake(l) PROVE Implements!Next \/ UNCHANGED Implements!vars
  <2>1. minted + 1 \in Attempts /\ Nonterminal(l) /\ Ended[l] = "open"
    BY <1>1, <1>a, <1>i DEF ClaimTake, Attempts, Fenced, Nonterminal, Ended, Ends
  <2>2. OnRecord[minted + 1] = "none" /\ \A m \in Leases : Latest[m] # minted + 1
    BY <2>1, <1>a, <1>i, <1>s DEF Fresh, OnRecord, Latest, Attempts
  <2>3. Ended' = Ended /\ Latest' = [Latest EXCEPT ![l] = minted + 1]
    BY <1>1, <1>a, <2>1 DEF ClaimTake, Ended, Latest, Ends, Nonterminal, LeaseRecords
  <2>4. \/ OnRecord' = OnRecord
        \/ /\ Latest[l] # 0 /\ OnRecord[Latest[l]] \in Implements!Undecided
           /\ OnRecord' = [OnRecord EXCEPT ![Latest[l]] = "interrupted"]
    <3>1. CASE rec' = rec
      BY <3>1 DEF OnRecord
    <3>2. CASE lease[l].attempt # 0 /\ rec' = Recorded(lease[l].attempt, "interrupted", 0)
      BY <3>2, <1>r, <1>s DEF Latest
    <3> QED BY <1>1, <3>1, <3>2 DEF ClaimTake, StoppedAs
  <2>5. Implements!Claim(l, minted + 1)
    BY <2>1, <2>2, <2>3, <2>4 DEF Implements!Claim
  <2> QED BY <2>1, <2>5 DEF Implements!Next
<1>2. ASSUME NEW l \in Leases, ClaimGrant(l) PROVE Implements!Next \/ UNCHANGED Implements!vars
  <2>1. lease[l].attempt \in Attempts /\ Latest[l] = lease[l].attempt /\ Latest[l] # 0 /\ Ended[l] = "open"
    BY <1>2, <1>i, <1>s DEF ClaimGrant, Fenced, Held, Latest, Ended, Ends
  <2>2. rec' = Recorded(lease[l].attempt, "running", 0) /\ Ended' = Ended /\ Latest' = Latest
    BY <1>2 DEF ClaimGrant, Ended, Latest
  <2>3. CASE OnRecord' = OnRecord
    BY <2>2, <2>3 DEF Implements!vars
  <2>4. CASE OnRecord' # OnRecord
    <3>1. Implements!Record(l, "running")
      BY <2>1, <2>2, <2>4, <1>r DEF Implements!Record
    <3> QED BY <3>1 DEF Implements!Next
  <2> QED BY <2>3, <2>4
<1>3. ASSUME NEW g \in granted, CompleteRecord(g) PROVE Implements!Next \/ UNCHANGED Implements!vars
  <2> DEFINE l == g.lease
  <2>1. l \in Leases /\ Held(g.rack, l)
    BY <1>3 DEF IInv, TypeOK, Grants, CompleteRecord
  <2>2. lease[l].attempt \in Attempts /\ Latest[l] = lease[l].attempt /\ Latest[l] # 0 /\ Ended[l] = "open"
    BY <2>1, <1>s DEF Held, Latest, Ended, Ends
  <2>3. rec' = Recorded(lease[l].attempt, "decided", g.attempt) /\ Ended' = Ended /\ Latest' = Latest
    BY <1>3 DEF CompleteRecord, Ended, Latest
  <2> HIDE DEF l
  <2>4. CASE OnRecord' = OnRecord
    BY <2>3, <2>4 DEF Implements!vars
  <2>5. CASE OnRecord' # OnRecord
    <3>1. Implements!Record(l, "decided")
      BY <2>1, <2>2, <2>3, <2>5, <1>r DEF Implements!Record
    <3> QED BY <2>1, <3>1 DEF Implements!Next
  <2> QED BY <2>4, <2>5
<1>4. ASSUME NEW l \in Leases, CompleteSettle(l) PROVE Implements!Next \/ UNCHANGED Implements!vars
  <2>1. /\ Held(fence[l].rack, l) /\ rec[lease[l].attempt].state = "decided"
        /\ lease[l].attempt \in Attempts /\ lease[l].attempt # 0
    BY <1>4, <1>i, <1>s DEF CompleteSettle, Fenced, Held
  <2>2. Ended[l] = "open" /\ Latest[l] # 0 /\ OnRecord[Latest[l]] = "decided"
    BY <2>1 DEF Ended, Latest, OnRecord, Held, Ends
  <2>3. Ended' = [Ended EXCEPT ![l] = "completed"] /\ Latest' = Latest /\ OnRecord' = OnRecord
    BY <1>4, <1>a, <2>1 DEF CompleteSettle, Ended, Latest, OnRecord, Ends, LeaseRecords
  <2>4. Implements!End(l, "completed")
    BY <2>2, <2>3 DEF Implements!End
  <2> QED BY <2>4 DEF Implements!Next
<1>5. ASSUME NEW l \in Leases, NEW how \in {"superseded", "cancelled"}, Terminate(l, how), UNCHANGED rec
      PROVE  Implements!Next \/ UNCHANGED Implements!vars
  <2>1. Latest' = Latest /\ OnRecord' = OnRecord
    BY <1>5, <1>a DEF Terminate, Latest, OnRecord, LeaseRecords
  <2>2. CASE Nonterminal(l)
    <3>1. Ended[l] = "open" /\ Ended' = [Ended EXCEPT ![l] = how]
      BY <1>5, <1>a, <2>2 DEF Terminate, Ended, Ends, Nonterminal, LeaseRecords
    <3>2. Implements!End(l, how)
      BY <3>1, <2>1 DEF Implements!End
    <3> QED BY <3>2 DEF Implements!Next
  <2>3. CASE ~Nonterminal(l)
    <3>1. Ended' = Ended
      BY <1>5, <1>a, <2>3 DEF Terminate, Ended, LeaseRecords
    <3> QED BY <3>1, <2>1 DEF Implements!vars
  <2> QED BY <2>2, <2>3
<1>6. ASSUME NEW l \in Leases, NEW state \in {"interrupted", "cancelled"}, UNCHANGED lease,
             lease[l].status \in {"superseded", "cancelled"}, StoppedAs(l, lease[l].attempt, state)
      PROVE  Implements!Next \/ UNCHANGED Implements!vars
  <2>1. Ended' = Ended /\ Latest' = Latest /\ Ended[l] \in {"superseded", "cancelled"}
    BY <1>6 DEF Ended, Latest, Ends
  <2>2. CASE OnRecord' = OnRecord
    BY <2>1, <2>2 DEF Implements!vars
  <2>3. CASE OnRecord' # OnRecord
    <3>1. lease[l].attempt \in Attempts /\ rec' = Recorded(lease[l].attempt, state, 0)
          /\ Latest[l] = lease[l].attempt /\ Latest[l] # 0
      BY <1>6, <2>3, <1>s DEF StoppedAs, OnRecord, Latest
    <3>2. Implements!Stop(l, state)
      BY <2>1, <2>3, <3>1, <1>r DEF Implements!Stop
    <3> QED BY <3>2 DEF Implements!Next
  <2> QED BY <2>2, <2>3
<1>7. ASSUME NEW l \in Leases, LoseTake(l) \/ CancelTake(l) PROVE Implements!Next \/ UNCHANGED Implements!vars
  <2>1. PICK how \in {"superseded", "cancelled"} : Terminate(l, how) /\ UNCHANGED rec
    BY <1>7 DEF LoseTake, CancelTake
  <2> QED BY <2>1, <1>5
<1>8. ASSUME NEW l \in Leases, LoseTell(l) PROVE Implements!Next \/ UNCHANGED Implements!vars
  <2>1. CASE lease[l].status = "superseded"
    BY <1>8, <2>1, <1>6 DEF LoseTell
  <2>2. CASE lease[l].status # "superseded"
    BY <1>8, <2>2, Stutter DEF LoseTell
  <2> QED BY <2>1, <2>2
<1>9. ASSUME NEW l \in Leases, CancelTell(l) PROVE Implements!Next \/ UNCHANGED Implements!vars
  <2>1. lease[l].status = "cancelled"
    BY <1>9, <1>i DEF CancelTell, Ending
  <2> QED BY <1>9, <2>1, <1>6 DEF CancelTell
<1>10. ASSUME NEW l \in Leases, Pass(l) \/ \E r \in Racks : Extend(r, l)
       PROVE  UNCHANGED Implements!vars
  <2>1. \A m \in Leases : lease'[m].status = lease[m].status /\ lease'[m].attempt = lease[m].attempt
    BY <1>10, <1>a DEF Pass, Extend, LeaseRecords
  <2>2. UNCHANGED rec
    BY <1>10 DEF Pass, Extend
  <2> QED BY <2>1, <2>2 DEF Implements!vars, Ended, Latest, OnRecord
<1>11. ASSUME NEW s \in Sessions, Submit(s) PROVE UNCHANGED Implements!vars
  <2>1. UNCHANGED rec
    BY <1>11 DEF Submit
  <2>2. CASE dedupe # NoLease /\ Nonterminal(dedupe)
    BY <1>11, <2>2, Stutter DEF Submit
  <2>3. CASE ~(dedupe # NoLease /\ Nonterminal(dedupe))
    <3>1. PICK l \in Leases : lease[l].status = "none" /\ lease' = [lease EXCEPT ![l].status = "pending"]
      BY <1>11, <2>3 DEF Submit
    <3>2. Ended' = Ended /\ Latest' = Latest
      BY <3>1, <1>a DEF Ended, Latest, Ends, LeaseRecords
    <3> QED BY <2>1, <3>2 DEF Implements!vars, OnRecord
  <2> QED BY <2>2, <2>3
<1>12. ASSUME NEW r \in Racks, Deregister(r) \/ \E l \in Leases : ClaimCheck(r, l)
       PROVE  UNCHANGED Implements!vars
  BY <1>12, Stutter DEF ClaimCheck, Deregister
<1>13. ASSUME NEW s \in Sessions, SessionDies(s) \/ EndSession(s) \/ \E l \in Leases : Cancel(s, l)
       PROVE  UNCHANGED Implements!vars
  BY <1>13, Stutter DEF SessionDies, Cancel, EndSession
<1>14. ASSUME NEW l \in Leases, ClaimFail(l) \/ CompleteFinish(l) \/ CompletePublish(l) \/ SweepLost(l)
       PROVE  UNCHANGED Implements!vars
  BY <1>14, Stutter DEF ClaimFail, CompleteFinish, CompletePublish, SweepLost
<1>15. ASSUME NEW l \in Leases, Each(l) \/ EachSkip(l) \/ Leave(l) \/ LeaveShared(l) \/ Handover(l)
       PROVE  UNCHANGED Implements!vars
  BY <1>15, Stutter DEF Each, EachSkip, Leave, LeaveShared, Handover
<1>16. CASE EachDone \/ UNCHANGED vars
  BY <1>16, Stutter DEF EachDone, vars
<1> QED
  BY <1>1, <1>2, <1>3, <1>4, <1>7, <1>8, <1>9, <1>10, <1>11, <1>12, <1>13, <1>14, <1>15, <1>16
     DEF Next, FenceStep, MutationStep

\* A lease of the hub ends once, an attempt's record is decided once, and a lease
\* completes only with its last attempt's outcome on record, for any number of
\* racks, sessions and leases and whatever is lost, late or repeated.
THEOREM RackImplements == Spec => Delegates
BY InitImplements, StepImplements, RackInvariant, PTL DEF Spec, Delegates, Implements!Spec

-----------------------------------------------------------------------------
(* The invariant of the subscriptions                                      *)

\* A coordinator that ends a lease, or tells of its end, has it completed.
Telling(l) == fence[l].at \in {"finishing", "telling"} => lease[l].status = "completed"

\* What the queue goes to lose was claimed, and may have completed by the time
\* its coordinator is free; what it tells the loss of, it superseded.
Losing ==
  /\ mutation.op = "lose" => /\ mutation.lease \in Leases
                             /\ lease[mutation.lease].status \in {"claimed", "completed"}
  /\ mutation.op = "lost" => /\ mutation.lease \in Leases
                             /\ lease[mutation.lease].status = "superseded"

\* Of a lease that ended, everyone who waits was told, or its fence is kept by
\* the step that will tell them.
Waits(l) ==
  lease[l].status \in Ends =>
    \/ fence[l].at \in {"finishing", "telling", "stopping"}
    \/ \A s \in sub[l].subscribers : told[s][l] # "none"

\* One lease of the work is open at a time, the one identical work attaches to.
OneOpen(l) == Nonterminal(l) => dedupe = l

EndedOnly(l) == sub[l].ended => lease[l].status \in Ends

\* An open lease's owner waits for it; the one a leaving owner hands over has
\* somebody else who does.
Owned(l) ==
  Nonterminal(l) =>
    IF mutation.op = "handover" /\ mutation.lease = l THEN sub[l].subscribers # {}
                                                      ELSE sub[l].owner \in sub[l].subscribers

\* A session leaves the hub after it left every lease: one that is ending has
\* still to leave those that name it.
Open == \A l \in Leases : \A s \in sub[l].subscribers : session[s].open
Leaving ==
  mutation.ending # "no" =>
    \A l \in Leases : mutation.session \in sub[l].subscribers =>
      l \in mutation.left \/ (mutation.lease = l /\ mutation.op \in {"leave", "cancel", "cancelled"})

SubInv ==
  /\ ToldTheEnd /\ Losing /\ Leaving /\ Open
  /\ \A l \in Leases : Telling(l) /\ Waits(l) /\ OneOpen(l) /\ EndedOnly(l) /\ Owned(l)

LEMMA SubInit == Init => SubInv
BY DEF Init, SubInv, ToldTheEnd, Losing, Leaving, Open, Telling, Waits, OneOpen, EndedOnly, Owned,
       Nonterminal, Ends, Quiet, Free

-----------------------------------------------------------------------------
(* Steps that end nothing and tell nobody                                  *)

\* A rack's claim, or time: leases stay open or ended as they were, and a fence
\* that tells, or is kept to tell, is left alone.
LEMMA StillTold ==
  ASSUME TypeOK, SubInv, UNCHANGED <<told, dedupe, mutation>>,
         \A s \in Sessions : session'[s].open = session[s].open,
         \A l \in Leases : /\ sub'[l].subscribers = sub[l].subscribers
                           /\ sub'[l].owner = sub[l].owner /\ sub'[l].ended = sub[l].ended
                           /\ \/ lease'[l].status = lease[l].status
                              \/ Nonterminal(l) /\ lease'[l].status = "claimed"
                           /\ \/ fence'[l].at = fence[l].at
                              \/ /\ fence[l].at \notin {"finishing", "telling", "stopping"}
                                 /\ fence'[l].at \notin {"finishing", "telling", "stopping"}
  PROVE  SubInv'
<1>1. \A l \in Leases : sub[l].subscribers \subseteq Sessions
  BY DEF TypeOK, Subscriptions
<1>2. \A l \in Leases : Nonterminal(l)' = Nonterminal(l) /\ (lease'[l].status \in Ends => lease'[l].status = lease[l].status)
  BY DEF Nonterminal, Ends
<1>3. ToldTheEnd'
  BY DEF SubInv, ToldTheEnd, EndOf, Nonterminal, TypeOK
<1>4. Losing'
  BY DEF SubInv, Losing, Nonterminal
<1>5. Leaving' /\ Open'
  BY <1>1 DEF SubInv, Leaving, Open
<1>6. \A l \in Leases : Telling(l)'
  BY DEF SubInv, Telling, Nonterminal
<1>7. \A l \in Leases : Waits(l)'
  BY <1>2 DEF SubInv, Waits
<1>8. \A l \in Leases : OneOpen(l)' /\ EndedOnly(l)' /\ Owned(l)'
  BY <1>2 DEF SubInv, OneOpen, EndedOnly, Owned, Nonterminal, Ends
<1> QED BY <1>3, <1>4, <1>5, <1>6, <1>7, <1>8 DEF SubInv

\* The queue takes up an operation, or goes on to its next lease.
LEMMA StillQueued ==
  ASSUME SubInv, UNCHANGED <<lease, sub, told, dedupe, fence, session>>,
         mutation.op # "handover", mutation'.op # "handover", Losing', Leaving'
  PROVE  SubInv'
BY DEF SubInv, ToldTheEnd, Open, Telling, Waits, OneOpen, EndedOnly, Owned, Nonterminal

-----------------------------------------------------------------------------
(* Every step keeps it                                                     *)

LEMMA SubNext == IInv /\ SubInv /\ [Next]_vars => SubInv'
<1> SUFFICES ASSUME IInv, SubInv, [Next]_vars PROVE SubInv'
  OBVIOUS
<1>t. TypeOK
  BY DEF IInv
<1>a. lease \in [Leases -> LeaseRecords] /\ \A m \in Leases : lease[m] \in LeaseRecords
  BY DEF IInv, TypeOK
<1>b. sub \in [Leases -> Subscriptions] /\ \A m \in Leases : sub[m] \in Subscriptions /\ sub[m].subscribers \subseteq Sessions
  BY DEF IInv, TypeOK, Subscriptions
<1>c. fence \in [Leases -> Transitions] /\ \A m \in Leases : fence[m] \in Transitions
  BY DEF IInv, TypeOK
<1>d. mutation \in Mutations
  BY DEF IInv, TypeOK
<1>e. told \in [Sessions -> [Leases -> {"none", "completed", "lost", "cancelled"}]]
  BY DEF IInv, TypeOK
<1>f. session \in [Sessions -> [open: BOOLEAN, alive: BOOLEAN]]
  BY DEF IInv, TypeOK
<1>i. /\ ToldTheEnd /\ Losing /\ Leaving /\ Open
      /\ \A l \in Leases : Telling(l) /\ Waits(l) /\ OneOpen(l) /\ EndedOnly(l) /\ Owned(l)
  BY DEF SubInv
<1>j. Ending /\ \A l \in Leases : Fenced(l)
  BY DEF IInv
<1>u. ASSUME NEW l \in Leases, NEW how, Terminate(l, how), ~Nonterminal(l) PROVE UNCHANGED lease
  <2>1. [lease[l] EXCEPT !.status = lease[l].status] = lease[l]
    BY <1>a DEF LeaseRecords
  <2>2. lease' = [lease EXCEPT ![l] = lease[l]]
    BY <1>u, <2>1 DEF Terminate
  <2> QED BY <2>2, <1>a
<1>1. ASSUME NEW r \in Racks, NEW l \in Leases, ClaimCheck(r, l) PROVE SubInv'
  BY <1>1, <1>t, <1>c, StillTold DEF ClaimCheck, Free
<1>2. ASSUME NEW l \in Leases, ClaimTake(l) PROVE SubInv'
  <2>1. Nonterminal(l)
    BY <1>2, <1>j DEF ClaimTake, Fenced
  <2> QED BY <1>2, <2>1, <1>t, <1>a, <1>c, StillTold DEF ClaimTake, Transitions
<1>3. ASSUME NEW l \in Leases, ClaimGrant(l) \/ ClaimFail(l) PROVE SubInv'
  BY <1>3, <1>t, <1>b, <1>c, StillTold DEF ClaimGrant, ClaimFail, Free, Subscriptions
<1>4. ASSUME NEW l \in Leases, Pass(l) \/ \E r \in Racks : Extend(r, l) PROVE SubInv'
  BY <1>4, <1>t, <1>a, StillTold DEF Pass, Extend, LeaseRecords
<1>5. ASSUME NEW g \in granted, CompleteRecord(g) PROVE SubInv'
  <2>1. g.lease \in Leases
    BY <1>t DEF TypeOK, Grants
  <2> QED BY <1>5, <2>1, <1>t, <1>c, StillTold DEF CompleteRecord, Free
<1>6. ASSUME NEW s \in Sessions, SessionDies(s) PROVE SubInv'
  BY <1>6, <1>t, <1>f, StillTold DEF SessionDies
<1>7. ASSUME NEW l \in Leases, CompleteSettle(l) PROVE SubInv'
  <2>1. /\ lease[l].status = "claimed" /\ lease'[l].status = "completed"
        /\ fence'[l].at = "finishing"
        /\ \A m \in Leases : m # l => lease'[m] = lease[m] /\ fence'[m] = fence[m]
        /\ UNCHANGED <<sub, told, dedupe, mutation, session>>
    BY <1>7, <1>j, <1>a, <1>c DEF CompleteSettle, Fenced, Held
  <2>2. \A s \in Sessions : told[s][l] = "none"
    BY <2>1, <1>e, <1>i DEF ToldTheEnd, EndOf
  <2>3. ToldTheEnd'
    BY <2>1, <2>2, <1>i DEF ToldTheEnd
  <2>4. Losing'
    BY <2>1, <1>i DEF Losing
  <2>5. Leaving' /\ Open'
    BY <2>1, <1>i DEF Leaving, Open
  <2>6. \A m \in Leases : Telling(m)' /\ Waits(m)' /\ OneOpen(m)' /\ EndedOnly(m)' /\ Owned(m)'
    BY <2>1, <1>i DEF Telling, Waits, OneOpen, EndedOnly, Owned, Nonterminal, Ends
  <2> QED BY <2>3, <2>4, <2>5, <2>6 DEF SubInv
<1>8. ASSUME NEW l \in Leases, CompleteFinish(l) PROVE SubInv'
  <2>1. /\ lease[l].status = "completed" /\ fence'[l].at = "telling"
        /\ \A m \in Leases : /\ m # l => sub'[m] = sub[m] /\ fence'[m] = fence[m]
                             /\ sub'[m].subscribers = sub[m].subscribers /\ sub'[m].owner = sub[m].owner
        /\ UNCHANGED <<lease, told, mutation, session>> /\ dedupe' = Undeduped(l)
    BY <1>8, <1>i, <1>b, <1>c DEF CompleteFinish, Telling, Subscriptions
  <2>2. ToldTheEnd' /\ Losing'
    BY <2>1, <1>i DEF ToldTheEnd, Losing
  <2>3. Leaving' /\ Open'
    BY <2>1, <1>b, <1>i DEF Leaving, Open
  <2>4. \A m \in Leases : Telling(m)' /\ Waits(m)' /\ OneOpen(m)' /\ EndedOnly(m)' /\ Owned(m)'
    BY <2>1, <1>i DEF Telling, Waits, OneOpen, EndedOnly, Owned, Nonterminal, Ends, Undeduped
  <2> QED BY <2>2, <2>3, <2>4 DEF SubInv
<1>9. ASSUME NEW l \in Leases, CompletePublish(l) PROVE SubInv'
  <2>1. /\ lease[l].status = "completed" /\ fence'[l].at = "free"
        /\ \A m \in Leases : m # l => fence'[m] = fence[m]
        /\ UNCHANGED <<lease, sub, dedupe, mutation, session>> /\ told' = Published(l, "completed")
    BY <1>9, <1>i, <1>c DEF CompletePublish, Telling, Free
  <2>2. \A s \in Sessions, m \in Leases :
          told'[s][m] = IF m = l /\ s \in sub[l].subscribers THEN "completed" ELSE told[s][m]
    BY <2>1, <1>e DEF Published
  <2>3. ToldTheEnd' /\ Losing'
    BY <2>1, <2>2, <1>i DEF ToldTheEnd, EndOf, Losing
  <2>4. Leaving' /\ Open'
    BY <2>1, <1>i DEF Leaving, Open
  <2>5. \A m \in Leases : Telling(m)' /\ Waits(m)' /\ OneOpen(m)' /\ EndedOnly(m)' /\ Owned(m)'
    BY <2>1, <2>2, <1>b, <1>i DEF Telling, Waits, OneOpen, EndedOnly, Owned, Nonterminal
  <2> QED BY <2>3, <2>4, <2>5 DEF SubInv
<1>10. ASSUME NEW s \in Sessions, Submit(s) PROVE SubInv'
  <2>1. /\ mutation = Quiet /\ session[s].open
        /\ UNCHANGED <<told, fence, mutation, session>>
        /\ mutation.op = "free" /\ mutation.ending = "no"
    BY <1>10 DEF Submit, Quiet
  <2>2. CASE dedupe # NoLease /\ Nonterminal(dedupe)
    <3>1. /\ dedupe \in Leases /\ UNCHANGED <<lease, dedupe>>
          /\ sub' = [sub EXCEPT ![dedupe].subscribers = @ \union {s}]
      BY <1>10, <2>2, <1>t DEF Submit, TypeOK
    <3>2. \A m \in Leases :
            /\ sub'[m].owner = sub[m].owner /\ sub'[m].ended = sub[m].ended
            /\ sub'[m].subscribers = IF m = dedupe THEN sub[m].subscribers \union {s} ELSE sub[m].subscribers
      BY <3>1, <1>b DEF Subscriptions
    <3>3. ToldTheEnd' /\ Losing'
      BY <3>1, <2>1, <1>i DEF ToldTheEnd, Losing
    <3>4. Leaving' /\ Open'
      BY <3>2, <2>1, <1>i DEF Leaving, Open
    <3>5. \A m \in Leases : Telling(m)' /\ Waits(m)' /\ OneOpen(m)' /\ EndedOnly(m)' /\ Owned(m)'
      BY <3>1, <3>2, <2>1, <2>2, <1>i DEF Telling, Waits, OneOpen, EndedOnly, Owned, Nonterminal, Ends
    <3> QED BY <3>3, <3>4, <3>5 DEF SubInv
  <2>3. CASE ~(dedupe # NoLease /\ Nonterminal(dedupe))
    <3>1. PICK l \in Leases :
            /\ lease[l].status = "none" /\ lease' = [lease EXCEPT ![l].status = "pending"]
            /\ sub' = [sub EXCEPT ![l] = [@ EXCEPT !.subscribers = {s}, !.owner = s]] /\ dedupe' = l
      BY <1>10, <2>3 DEF Submit
    <3>2. \A m \in Leases : ~Nonterminal(m)
      BY <2>3, <1>i, RackAssumption DEF OneOpen, RackAssumption
    <3>3. /\ \A m \in Leases : m # l => sub'[m] = sub[m] /\ lease'[m] = lease[m]
          /\ sub'[l].owner = s /\ sub'[l].ended = sub[l].ended /\ sub'[l].subscribers = {s}
          /\ lease'[l].status = "pending"
      BY <3>1, <1>a, <1>b DEF Subscriptions, LeaseRecords
    <3>4. ToldTheEnd' /\ Losing'
      BY <3>1, <3>3, <2>1, <1>e, <1>i DEF ToldTheEnd, EndOf, Losing
    <3>5. Leaving' /\ Open'
      BY <3>3, <2>1, <1>i DEF Leaving, Open
    <3>6. \A m \in Leases : Telling(m)' /\ Waits(m)' /\ OneOpen(m)' /\ EndedOnly(m)' /\ Owned(m)'
      BY <3>1, <3>2, <3>3, <2>1, <1>i DEF Telling, Waits, OneOpen, EndedOnly, Owned, Nonterminal, Ends
    <3> QED BY <3>4, <3>5, <3>6 DEF SubInv
  <2> QED BY <2>2, <2>3
<1>11. ASSUME NEW s \in Sessions, NEW l \in Leases, Cancel(s, l) PROVE SubInv'
  <2>1. mutation.op = "free" /\ mutation'.op = "leave" /\ mutation'.ending = "no"
    BY <1>11 DEF Cancel, Quiet
  <2> QED BY <1>11, <2>1, StillQueued DEF Cancel, Losing, Leaving
<1>12. ASSUME NEW s \in Sessions, EndSession(s) PROVE SubInv'
  <2>1. /\ mutation.op = "free" /\ mutation'.op = "each" /\ mutation'.session = s
        /\ mutation'.left = {l \in Leases : s \in sub[l].subscribers}
    BY <1>12 DEF EndSession, Quiet
  <2> QED BY <1>12, <2>1, StillQueued DEF EndSession, Losing, Leaving
<1>13. ASSUME NEW r \in Racks, Deregister(r) PROVE SubInv'
  <2>1. mutation.op = "free" /\ mutation'.op = "each" /\ mutation'.ending = "no"
    BY <1>13 DEF Deregister, Quiet
  <2> QED BY <1>13, <2>1, StillQueued DEF Deregister, Losing, Leaving
<1>14. ASSUME NEW l \in Leases, SweepLost(l) PROVE SubInv'
  <2>1. mutation.op = "free" /\ mutation'.op = "lose" /\ mutation'.ending = "no" /\ mutation'.lease = l
    BY <1>14 DEF SweepLost, Quiet
  <2> QED BY <1>14, <2>1, StillQueued DEF SweepLost, Losing, Leaving
<1>15. ASSUME NEW l \in Leases, Each(l) PROVE SubInv'
  <2>1. /\ mutation.op = "each" /\ mutation'.ending = mutation.ending /\ mutation'.session = mutation.session
        /\ mutation'.left = mutation.left \ {l} /\ mutation'.lease = l
        /\ mutation'.op = IF mutation.ending # "no" THEN "leave" ELSE "lose"
        /\ mutation.ending = "no" => lease[l].status = "claimed"
    BY <1>15, <1>d DEF Each, Mutations, Held
  <2> QED BY <1>15, <2>1, <1>i, StillQueued DEF Each, Losing, Leaving
<1>16. ASSUME NEW l \in Leases, EachSkip(l) PROVE SubInv'
  <2>1. mutation.op = "each" /\ mutation'.op = "each" /\ mutation'.ending = "no"
    BY <1>16, <1>d DEF EachSkip, Mutations
  <2> QED BY <1>16, <2>1, StillQueued DEF EachSkip, Losing, Leaving
<1>17. ASSUME NEW l \in Leases, Leave(l) PROVE SubInv'
  <2>1. /\ mutation.op = "leave" /\ mutation'.op = "cancel" /\ mutation'.ending = mutation.ending
        /\ mutation'.session = mutation.session /\ mutation'.left = mutation.left /\ mutation'.lease = mutation.lease
    BY <1>17, <1>d DEF Leave, Mutations
  <2> QED BY <1>17, <2>1, <1>i, StillQueued DEF Leave, Losing, Leaving
<1>18. CASE EachDone
  <2>1. /\ mutation.op = "each" /\ mutation.left = {} /\ mutation' = Quiet
        /\ UNCHANGED <<lease, sub, told, dedupe, fence>>
        /\ \A s \in Sessions : session'[s].open = session[s].open \/ (mutation.ending # "no" /\ s = mutation.session)
    BY <1>18, <1>f DEF EachDone
  <2>2. ToldTheEnd' /\ Losing' /\ Leaving'
    BY <2>1, <1>i DEF ToldTheEnd, Losing, Leaving, Quiet
  <2>3. mutation.ending # "no" => \A l \in Leases : mutation.session \notin sub[l].subscribers
    BY <2>1, <1>i DEF Leaving
  <2>4. Open'
    BY <2>1, <2>3, <1>b, <1>i DEF Open
  <2>5. \A m \in Leases : Telling(m)' /\ Waits(m)' /\ OneOpen(m)' /\ EndedOnly(m)' /\ Owned(m)'
    BY <2>1, <1>i DEF Telling, Waits, OneOpen, EndedOnly, Owned, Nonterminal, Quiet
  <2> QED BY <2>2, <2>4, <2>5 DEF SubInv
<1>r. /\ Resumed.op \in {"free", "each"} /\ Resumed.ending = mutation.ending
      /\ mutation.ending # "no" => Resumed.left = mutation.left /\ Resumed.session = mutation.session
  BY <1>d DEF Resumed, Quiet, Mutations
<1>19. ASSUME NEW l \in Leases, LoseTake(l) PROVE SubInv'
  <2>1. /\ mutation.op = "lose" /\ mutation.lease = l /\ fence[l].at = "free"
        /\ lease[l].status \in {"claimed", "completed"}
        /\ UNCHANGED <<sub, told, dedupe, session>>
    BY <1>19, <1>i DEF LoseTake, Losing, Free
  <2>2. CASE lease[l].status = "completed"
    <3>1. UNCHANGED fence /\ mutation' = Resumed
      BY <1>19, <2>2 DEF LoseTake
    <3>2. UNCHANGED lease
      BY <1>19, <2>2, <1>u DEF LoseTake, Nonterminal
    <3>3. Losing' /\ Leaving'
      BY <3>1, <2>1, <1>r, <1>i DEF Losing, Leaving
    <3> QED BY <3>1, <3>2, <3>3, <2>1, <1>r, StillQueued
  <2>3. CASE lease[l].status = "claimed"
    <3>1. /\ lease'[l].status = "superseded" /\ fence'[l].at = "stopping"
          /\ \A m \in Leases : m # l => lease'[m] = lease[m] /\ fence'[m] = fence[m]
      BY <1>19, <2>3, <1>a, <1>c DEF LoseTake, Terminate, Nonterminal, LeaseRecords, Transitions
    <3>2. /\ mutation'.op = "lost" /\ mutation'.lease = l /\ mutation'.ending = mutation.ending
          /\ mutation'.session = mutation.session /\ mutation'.left = mutation.left
      BY <1>19, <2>1, <2>3, <1>d DEF LoseTake, Mutations
    <3>3. ToldTheEnd' /\ Losing'
      BY <3>1, <3>2, <2>1, <2>3, <1>e, <1>i DEF ToldTheEnd, EndOf, Losing
    <3>4. Leaving' /\ Open'
      BY <3>2, <2>1, <1>i DEF Leaving, Open
    <3>5. \A m \in Leases : Telling(m)' /\ Waits(m)' /\ OneOpen(m)' /\ EndedOnly(m)' /\ Owned(m)'
      BY <3>1, <3>2, <2>1, <1>i DEF Telling, Waits, OneOpen, EndedOnly, Owned, Nonterminal, Ends
    <3> QED BY <3>3, <3>4, <3>5 DEF SubInv
  <2> QED BY <2>1, <2>2, <2>3
<1>20. ASSUME NEW l \in Leases, NEW kind \in {"lost", "cancelled"},
              lease[l].status = EndOf(kind), mutation.op \in {"lost", "cancelled"},
              mutation.lease = l, mutation' = Resumed,
              sub' \in [Leases -> Subscriptions],
              sub'[l].subscribers = sub[l].subscribers \/ sub'[l].subscribers = sub[l].subscribers \ {mutation.session},
              mutation.op = "cancelled" => sub'[l].subscribers = sub[l].subscribers \ {mutation.session},
              \A m \in Leases : m # l => sub'[m] = sub[m],
              told' = Published(l, kind), fence' = [fence EXCEPT ![l] = Free],
              dedupe' = Undeduped(l), UNCHANGED <<lease, session>>
       PROVE  SubInv'
  <2>1. lease[l].status \in Ends
    BY <1>20 DEF EndOf, Ends
  <2>2. \A s \in Sessions, m \in Leases :
          told'[s][m] = IF m = l /\ s \in sub[l].subscribers THEN kind ELSE told[s][m]
    BY <1>20, <1>e DEF Published
  <2>3. fence'[l].at = "free" /\ \A m \in Leases : m # l => fence'[m] = fence[m]
    BY <1>20, <1>c DEF Free
  <2>4. ToldTheEnd' /\ Losing'
    BY <1>20, <2>2, <1>r, <1>i DEF ToldTheEnd, Losing
  <2>5. Leaving' /\ Open'
    BY <1>20, <1>r, <1>b, <1>i DEF Leaving, Open
  <2>6. \A m \in Leases : Telling(m)' /\ Waits(m)'
    BY <1>20, <2>1, <2>2, <2>3, <1>b, <1>i DEF Telling, Waits
  <2>7. \A m \in Leases : OneOpen(m)' /\ EndedOnly(m)' /\ Owned(m)'
    BY <1>20, <2>1, <1>r, <1>i DEF OneOpen, EndedOnly, Owned, Nonterminal, Ends, Undeduped
  <2> QED BY <2>4, <2>5, <2>6, <2>7 DEF SubInv
<1>21. ASSUME NEW l \in Leases, LoseTell(l) PROVE SubInv'
  <2>1. mutation.op = "lost" /\ mutation.lease = l /\ lease[l].status = EndOf("lost")
    BY <1>21, <1>i DEF LoseTell, Losing, EndOf
  <2>2. PICK e \in Subscriptions : e.subscribers = sub[l].subscribers /\ e = [sub[l] EXCEPT !.ended = TRUE]
    BY <1>b DEF Subscriptions
  <2>3. sub' = [sub EXCEPT ![l] = e]
    BY <1>21, <2>2 DEF LoseTell
  <2>4. /\ sub' \in [Leases -> Subscriptions]
        /\ sub'[l].subscribers = sub[l].subscribers /\ \A m \in Leases : m # l => sub'[m] = sub[m]
    BY <2>2, <2>3, <1>b
  <2> QED BY <1>21, <2>1, <2>4, <1>20 DEF LoseTell
<1>22. ASSUME NEW l \in Leases, CancelTell(l) PROVE SubInv'
  <2>1. mutation.op = "cancelled" /\ mutation.lease = l /\ lease[l].status = EndOf("cancelled")
    BY <1>22, <1>j DEF CancelTell, Ending, EndOf
  <2> DEFINE left == sub[l].subscribers \ {mutation.session}
  <2>e. PICK e \in Subscriptions :
          e.subscribers = left /\ e = [sub[l] EXCEPT !.ended = TRUE, !.subscribers = left]
    BY <1>b DEF Subscriptions
  <2>2. sub' = [sub EXCEPT ![l] = e]
    BY <1>22, <2>e DEF CancelTell
  <2>3. /\ sub' \in [Leases -> Subscriptions] /\ \A m \in Leases : m # l => sub'[m] = sub[m]
        /\ sub'[l].subscribers = sub[l].subscribers \ {mutation.session}
    BY <2>e, <2>2, <1>b
  <2> QED BY <1>22, <2>1, <2>3, <1>20 DEF CancelTell
<1>23. ASSUME NEW l \in Leases, mutation.op \in {"leave", "cancel"}, mutation.lease = l,
              LeftBy(mutation.session, l), Nonterminal(l) => sub[l].subscribers # {mutation.session},
              UNCHANGED <<lease, told, dedupe, fence, session>>
       PROVE  SubInv'
  <2> DEFINE s == mutation.session
  <2>1. /\ \A m \in Leases : m # l => sub'[m] = sub[m]
        /\ sub'[l].subscribers = sub[l].subscribers \ {s}
        /\ sub'[l].owner = sub[l].owner /\ sub'[l].ended = sub[l].ended
    BY <1>23, <1>b DEF LeftBy, Subscriptions
  <2>2. /\ mutation'.ending = mutation.ending
        /\ mutation.ending # "no" => mutation'.left = mutation.left /\ mutation'.session = s
        /\ \/ sub[l].owner = s /\ sub[l].subscribers # {s} /\ mutation'.op = "handover" /\ mutation'.lease = l
           \/ sub[l].owner # s /\ mutation'.op \in {"free", "each"}
           \/ sub[l].subscribers = {s} /\ mutation'.op \in {"free", "each"}
    BY <1>23, <1>d, <1>r DEF LeftBy, Mutations
  <2> HIDE DEF s
  <2>3. ToldTheEnd' /\ Losing'
    BY <1>23, <2>2, <1>i DEF ToldTheEnd, Losing
  <2>4. Leaving' /\ Open'
    BY <1>23, <2>1, <2>2, <1>b, <1>i DEF Leaving, Open, s
  <2>5. \A m \in Leases : Telling(m)' /\ Waits(m)' /\ OneOpen(m)' /\ EndedOnly(m)'
    BY <1>23, <2>1, <1>i DEF Telling, Waits, OneOpen, EndedOnly, Nonterminal
  <2>6. \A m \in Leases : Owned(m)'
    BY <1>23, <2>1, <2>2, <1>i DEF Owned, Nonterminal, s
  <2> QED BY <2>3, <2>4, <2>5, <2>6 DEF SubInv
<1>24. ASSUME NEW l \in Leases, LeaveShared(l) PROVE SubInv'
  <2>1. Nonterminal(l) => sub[l].subscribers # {mutation.session}
    BY <1>24, <1>i DEF LeaveShared, EndedOnly, Nonterminal, Ends
  <2> QED BY <1>24, <2>1, <1>23 DEF LeaveShared
<1>25. ASSUME NEW l \in Leases, CancelTake(l) PROVE SubInv'
  <2>1. mutation.op = "cancel" /\ mutation.lease = l /\ fence[l].at = "free" /\ UNCHANGED <<told, dedupe, session>>
    BY <1>25 DEF CancelTake, Free
  <2>2. CASE ~Nonterminal(l)
    <3>1. LeftBy(mutation.session, l) /\ UNCHANGED <<lease, fence>>
      BY <1>25, <2>2, <1>u DEF CancelTake
    <3> QED BY <3>1, <2>1, <2>2, <1>23
  <2>3. CASE Nonterminal(l)
    <3>1. /\ lease'[l].status = "cancelled" /\ fence'[l].at = "stopping" /\ sub' = sub
          /\ \A m \in Leases : m # l => lease'[m] = lease[m] /\ fence'[m] = fence[m]
      BY <1>25, <2>3, <1>a, <1>c DEF CancelTake, Terminate, LeaseRecords, Transitions
    <3>2. /\ mutation'.op = "cancelled" /\ mutation'.lease = l /\ mutation'.ending = mutation.ending
          /\ mutation'.session = mutation.session /\ mutation'.left = mutation.left
      BY <1>25, <2>1, <2>3, <1>d DEF CancelTake, Mutations
    <3>3. ToldTheEnd' /\ Losing'
      BY <3>1, <3>2, <2>1, <2>3, <1>e, <1>i DEF ToldTheEnd, EndOf, Losing, Nonterminal
    <3>4. Leaving' /\ Open'
      BY <3>1, <3>2, <2>1, <1>i DEF Leaving, Open
    <3>5. \A m \in Leases : Telling(m)' /\ Waits(m)' /\ OneOpen(m)' /\ EndedOnly(m)' /\ Owned(m)'
      BY <3>1, <3>2, <2>1, <1>i DEF Telling, Waits, OneOpen, EndedOnly, Owned, Nonterminal, Ends
    <3> QED BY <3>3, <3>4, <3>5 DEF SubInv
  <2> QED BY <2>2, <2>3
<1>26. ASSUME NEW l \in Leases, Handover(l) PROVE SubInv'
  <2>1. PICK s \in sub[l].subscribers : sub' = [sub EXCEPT ![l].owner = s]
    BY <1>26 DEF Handover
  <2>2. /\ mutation.op = "handover" /\ mutation.lease = l /\ mutation' = Resumed
        /\ UNCHANGED <<lease, told, dedupe, fence, session>>
    BY <1>26 DEF Handover
  <2>3. /\ \A m \in Leases : m # l => sub'[m] = sub[m]
        /\ sub'[l].owner = s /\ sub'[l].subscribers = sub[l].subscribers /\ sub'[l].ended = sub[l].ended
    BY <2>1, <1>b DEF Subscriptions
  <2>4. ToldTheEnd' /\ Losing'
    BY <2>2, <1>r, <1>i DEF ToldTheEnd, Losing
  <2>5. Leaving' /\ Open'
    BY <2>2, <2>3, <1>r, <1>i DEF Leaving, Open
  <2>6. \A m \in Leases : Telling(m)' /\ Waits(m)' /\ OneOpen(m)' /\ EndedOnly(m)' /\ Owned(m)'
    BY <2>2, <2>3, <1>r, <1>i DEF Telling, Waits, OneOpen, EndedOnly, Owned, Nonterminal
  <2> QED BY <2>4, <2>5, <2>6 DEF SubInv
<1>27. CASE UNCHANGED vars
  BY <1>27, <1>t, StillTold DEF vars
<1> QED
  BY <1>1, <1>2, <1>3, <1>4, <1>5, <1>6, <1>7, <1>8, <1>9, <1>10, <1>11, <1>12, <1>13, <1>14, <1>15, <1>16, <1>17,
     <1>18, <1>19, <1>21, <1>22, <1>24, <1>25, <1>26, <1>27
     DEF Next, FenceStep, MutationStep

LEMMA SubInvariant == Spec => []SubInv
BY SubInit, SubNext, RackInvariant, PTL DEF Spec

-----------------------------------------------------------------------------
(* What the sessions may rely on                                           *)

\* Whoever shares a lease is told the same end of it, the one in the store,
\* though a completion, a loss and a cancellation may race (Rack's
\* coordinators and mutation queue).
THEOREM RackTellsTheEnd == Spec => []ToldTheEnd
<1>1. SubInv => ToldTheEnd
  BY DEF SubInv
<1> QED BY <1>1, SubInvariant, PTL

\* Once nothing runs for a lease that ended, nobody waits for it untold.
THEOREM RackLeavesNobodyWaiting == Spec => []NobodyWaits
<1>1. SubInv => NobodyWaits
  BY DEF SubInv, Waits, NobodyWaits, Free
<1> QED BY <1>1, SubInvariant, PTL

\* An open lease is owned by a session that waits for it and is in the hub, and
\* identical work attaches to it, whoever of those that asked for it left.
THEOREM RackAttends == Spec => []Attended
<1>1. SubInv => Attended
  BY DEF SubInv, Open, OneOpen, Owned, Attended, Quiet
<1> QED BY <1>1, SubInvariant, PTL
=============================================================================
