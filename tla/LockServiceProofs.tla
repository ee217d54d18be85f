-------------------------- MODULE LockServiceProofs --------------------------
(***************************************************************************)
(* Proofs, for any number of processes, of what the lock files guarantee.  *)
(***************************************************************************)
EXTENDS LockService, TLAPS

LEMMA InitType == Init => TypeOK
BY DEF Init, TypeOK, PC

LEMMA NextType == TypeOK /\ [Next]_vars => TypeOK'
<1> SUFFICES ASSUME TypeOK, [Next]_vars PROVE TypeOK'
  OBVIOUS
<1> USE DEF TypeOK, PC, Goto, Forget
<1>1. ASSUME NEW h \in Holders, NEW m \in Modes[h], Begin(h, m) PROVE TypeOK'
  <2>1. m \in {"exclusive", "shared", "query"}
    BY LockAssumption DEF LockAssumption
  <2> QED BY <1>1, <2>1 DEF Begin
<1>2. ASSUME NEW h \in Holders, ReadExclusive(h) PROVE TypeOK'
  BY <1>2 DEF ReadExclusive, Read
<1>3. ASSUME NEW h \in Holders, Judge(h) PROVE TypeOK'
  <2>1. Cleaned(h) \in PC
    BY DEF Cleaned
  <2> QED BY <1>3, <2>1 DEF Judge
<1>4. ASSUME NEW h \in Holders, ListShared(h) PROVE TypeOK'
  BY <1>4 DEF ListShared
<1>5. ASSUME NEW h \in Holders, NEW f \in Holders, LookAt(h, f) PROVE TypeOK'
  BY <1>5 DEF LookAt, Live
<1>6. ASSUME NEW h \in Holders, Listed(h) PROVE TypeOK'
  BY <1>6 DEF Listed
<1>7. ASSUME NEW h \in Holders, Create(h) PROVE TypeOK'
  BY <1>7 DEF Create
<1>8. ASSUME NEW h \in Holders, Decide(h) PROVE TypeOK'
  BY <1>8 DEF Decide
<1>9. ASSUME NEW h \in Holders, WriteShared(h) PROVE TypeOK'
  BY <1>9 DEF WriteShared
<1>10. ASSUME NEW h \in Holders, Confirm(h) PROVE TypeOK'
  BY <1>10 DEF Confirm
<1>11. ASSUME NEW h \in Holders, BackOut(h) \/ Release(h) PROVE TypeOK'
  BY <1>11 DEF BackOut, Release, Unlink
<1>12. ASSUME NEW h \in Holders, Retry(h) \/ GiveUp(h) \/ Exit(h) PROVE TypeOK'
  BY <1>12 DEF Retry, GiveUp, Exit
<1>13. CASE UNCHANGED vars
  BY <1>13 DEF vars
<1> QED BY <1>1, <1>2, <1>3, <1>4, <1>5, <1>6, <1>7, <1>8, <1>9, <1>10, <1>11, <1>12, <1>13
        DEF Next, Step

\* Every variable of the lock files and their holders keeps its type.
THEOREM LockTypeCorrect == Spec => []TypeOK
BY InitType, NextType, PTL DEF Spec

-----------------------------------------------------------------------------
(* Mutual exclusion while the exclusive holders live                       *)

\* No process that may take the lock exclusively has gone.
AllAlive == \A h \in Holders : Gone(h) => "exclusive" \notin Modes[h]

OwnsExclusive(h) ==
  mode[h] = "exclusive" /\ pc[h] \in {"relist", "rescan", "backout", "held"}
OwnsShared(h) ==
  mode[h] = "shared" /\ pc[h] \in {"recheck", "confirm", "backout", "held"}

\* Holds the lock shared, or has read that no live process holds it exclusively
\* since it wrote its own file, and is about to.
WillShare(k) ==
  /\ mode[k] = "shared"
  /\ \/ pc[k] = "held"
     \/ pc[k] = "confirm" /\ seen[k] = NoHolder

\* Files stand for their owners; what a process read as exclusive could be
\* taken exclusively; and an exclusive acquirer that has looked again, or holds
\* the lock, has every sharer still to look at, or has found one, or none is.
Guarded ==
  /\ \A h \in Holders :
       /\ ~(pc[h] \in {"idle", "gone"}) => mode[h] \in Modes[h]
       /\ excl = h <=> OwnsExclusive(h)
       /\ OwnsShared(h) => h \in shared
       /\ seen[h] # NoHolder => "exclusive" \in Modes[seen[h]]
       /\ pc[h] \in {"list", "scan", "create", "relist", "rescan"} => mode[h] = "exclusive"
       /\ pc[h] \in {"look", "decide", "write", "recheck", "confirm"} => mode[h] = "shared"
       /\ pc[h] = "held" => mode[h] # "query"
       /\ pc[h] = "backout" => mode[h] # "query"
  /\ \A h, k \in Holders : WillShare(k) =>
       /\ pc[h] = "rescan" => found[h] \/ k \in left[h]
       /\ ~HoldsExclusive(h)

LEMMA AliveBefore ==
  ASSUME TypeOK, [Next]_vars, AllAlive'
  PROVE  AllAlive
<1> USE DEF AllAlive, Gone
<1>1. ASSUME NEW h \in Holders, pc[h] = "gone" PROVE pc'[h] = "gone"
  <2> USE <1>1 DEF TypeOK, Goto
  <2>1. ASSUME NEW k \in Holders, NEW m \in Modes[k], Begin(k, m) PROVE pc'[h] = "gone"
    BY <2>1 DEF Begin
  <2>2. ASSUME NEW k \in Holders, Step(k) PROVE pc'[h] = "gone"
    BY <2>2 DEF Step, ReadExclusive, Read, Judge, ListShared, Listed, Create, Decide,
                WriteShared, Confirm, BackOut, Unlink, Retry, LookAt
  <2>3. ASSUME NEW k \in Holders, Release(k) \/ GiveUp(k) \/ Exit(k) PROVE pc'[h] = "gone"
    BY <2>3 DEF Release, Unlink, GiveUp, Exit
  <2>4. CASE UNCHANGED vars
    BY <2>4 DEF vars
  <2> QED BY <2>1, <2>2, <2>3, <2>4 DEF Next
<1> QED BY <1>1

LEMMA GuardedInit == Init => Guarded
BY LockAssumption DEF LockAssumption, Init, Guarded, OwnsExclusive, OwnsShared, WillShare, HoldsExclusive, Holds

LEMMA GuardedNext ==
  ASSUME TypeOK, AllAlive, AllAlive', Guarded, [Next]_vars
  PROVE  Guarded'
<1> USE LockAssumption
    DEF LockAssumption, TypeOK, Guarded, OwnsExclusive, OwnsShared, WillShare,
        HoldsExclusive, Holds, Goto
<1>1. ASSUME NEW h \in Holders, NEW m \in Modes[h], Begin(h, m) PROVE Guarded'
  BY <1>1 DEF Begin
<1>2. ASSUME NEW h \in Holders, ReadExclusive(h) PROVE Guarded'
  BY <1>2 DEF ReadExclusive, Read
<1>3. ASSUME NEW h \in Holders, Judge(h) PROVE Guarded'
  <2>1. ~Gone(seen[h])
    BY DEF AllAlive, Gone
  <2> QED BY <1>3, <2>1 DEF Judge, Cleaned, Forget
<1>4. ASSUME NEW h \in Holders, ListShared(h) PROVE Guarded'
  BY <1>4 DEF ListShared
<1>5. ASSUME NEW h \in Holders, NEW f \in Holders, LookAt(h, f) PROVE Guarded'
  <2>1. /\ left' = [left EXCEPT ![h] = @ \ {f}]
        /\ shared' = IF Gone(f) THEN shared \ {f} ELSE shared
        /\ found' = [found EXCEPT ![h] = @ \/ (f \in shared /\ Live(f))]
        /\ UNCHANGED <<excl, pc, mode, seen>>
    BY <1>5 DEF LookAt
  <2>2. OwnsShared(f) => Live(f)
    BY DEF Live, AllAlive
  <2>3. CASE f \in shared /\ Live(f)
    <3>1. found' = [found EXCEPT ![h] = TRUE] /\ shared' = shared
      BY <2>1, <2>3 DEF Live, Gone
    <3> QED BY SMTT(30), <2>1, <3>1
  <2>4. CASE ~(f \in shared /\ Live(f))
    <3>1. found' = found
      BY <2>1, <2>4
    <3> QED BY SMTT(30), <2>1, <2>2, <2>4, <3>1 DEF Live, Gone
  <2> QED BY <2>3, <2>4
<1>6. ASSUME NEW h \in Holders, Listed(h) PROVE Guarded'
  BY <1>6 DEF Listed
<1>7. ASSUME NEW h \in Holders, Create(h) PROVE Guarded'
  BY <1>7 DEF Create
<1>8. ASSUME NEW h \in Holders, Decide(h) PROVE Guarded'
  BY <1>8 DEF Decide, Forget
<1>9. ASSUME NEW h \in Holders, WriteShared(h) PROVE Guarded'
  BY <1>9 DEF WriteShared
<1>10. ASSUME NEW h \in Holders, Confirm(h) PROVE Guarded'
  <2>1. seen[h] # NoHolder => Live(seen[h])
    BY DEF AllAlive, Gone, Live
  <2> QED BY <1>10, <2>1 DEF Confirm, Forget, Live
<1>11. ASSUME NEW h \in Holders, BackOut(h) \/ Release(h) PROVE Guarded'
  BY <1>11 DEF BackOut, Release, Unlink
<1>12. ASSUME NEW h \in Holders, Retry(h) \/ GiveUp(h) PROVE Guarded'
  BY <1>12 DEF Retry, GiveUp
<1>13. ASSUME NEW h \in Holders, Exit(h) PROVE Guarded'
  <2>1. ~OwnsExclusive(h)
    BY <1>13 DEF AllAlive, Gone, Exit
  <2> QED BY <1>13, <2>1 DEF Exit
<1>14. CASE UNCHANGED vars
  BY <1>14 DEF vars
<1> QED BY <1>1, <1>2, <1>3, <1>4, <1>5, <1>6, <1>7, <1>8, <1>9, <1>10, <1>11, <1>12, <1>13, <1>14
        DEF Next, Step

LEMMA GuardedExcludes ==
  ASSUME TypeOK, Guarded
  PROVE  MutualExclusion
BY DEF TypeOK, Guarded, MutualExclusion, OwnsExclusive, WillShare, HoldsExclusive, Holds

\* Any number of processes acquiring, polling, backing out and releasing: an
\* exclusive holder is alone for as long as no process that may take the lock
\* exclusively has ended (cleanIfStale unlinks a file by its path, so nothing
\* of the kind holds past that).
THEOREM Exclusion == Spec => []ExclusionWhileAlive
<1> DEFINE Inv == TypeOK /\ (AllAlive => Guarded)
<1>1. Init => Inv
  BY InitType, GuardedInit
<1>2. Inv /\ [Next]_vars => Inv'
  BY NextType, AliveBefore, GuardedNext
<1>3. Inv => ExclusionWhileAlive
  BY GuardedExcludes DEF ExclusionWhileAlive, AllAlive
<1> QED BY <1>1, <1>2, <1>3, PTL DEF Spec

-----------------------------------------------------------------------------
(* No file of a live process is left behind                                *)

\* A process writes the file of the lock it asked for, and unlinks that one.
ModesKept ==
  \A h \in Holders :
    /\ pc[h] \in {"list", "scan", "create", "relist", "rescan"} => mode[h] = "exclusive"
    /\ pc[h] \in {"look", "decide", "write", "recheck", "confirm"} => mode[h] = "shared"
    /\ pc[h] \in {"backout", "held"} => mode[h] # "query"

LEMMA NoOrphanNext ==
  ASSUME TypeOK, NoOrphan, ModesKept, [Next]_vars
  PROVE  NoOrphan' /\ ModesKept'
<1> USE DEF TypeOK, NoOrphan, ModesKept, Goto, Forget, Live
<1>1. ASSUME NEW h \in Holders, NEW m \in Modes[h], Begin(h, m) PROVE NoOrphan' /\ ModesKept'
  BY <1>1 DEF Begin
<1>2. ASSUME NEW h \in Holders, ReadExclusive(h) PROVE NoOrphan' /\ ModesKept'
  BY <1>2 DEF ReadExclusive, Read
<1>3. ASSUME NEW h \in Holders, Judge(h) PROVE NoOrphan' /\ ModesKept'
  BY <1>3, LockAssumption DEF Judge, Cleaned, LockAssumption
<1>4. ASSUME NEW h \in Holders, ListShared(h) PROVE NoOrphan' /\ ModesKept'
  BY <1>4 DEF ListShared
<1>5. ASSUME NEW h \in Holders, NEW f \in Holders, LookAt(h, f) PROVE NoOrphan' /\ ModesKept'
  BY <1>5 DEF LookAt
<1>6. ASSUME NEW h \in Holders, Listed(h) PROVE NoOrphan' /\ ModesKept'
  BY <1>6 DEF Listed
<1>7. ASSUME NEW h \in Holders, Create(h) PROVE NoOrphan' /\ ModesKept'
  BY <1>7 DEF Create
<1>8. ASSUME NEW h \in Holders, Decide(h) PROVE NoOrphan' /\ ModesKept'
  BY <1>8 DEF Decide
<1>9. ASSUME NEW h \in Holders, WriteShared(h) PROVE NoOrphan' /\ ModesKept'
  BY <1>9 DEF WriteShared
<1>10. ASSUME NEW h \in Holders, Confirm(h) PROVE NoOrphan' /\ ModesKept'
  BY <1>10 DEF Confirm
<1>11. ASSUME NEW h \in Holders, BackOut(h) \/ Release(h) PROVE NoOrphan' /\ ModesKept'
  BY <1>11, LockAssumption DEF BackOut, Release, Unlink, LockAssumption
<1>12. ASSUME NEW h \in Holders, Retry(h) \/ GiveUp(h) \/ Exit(h) PROVE NoOrphan' /\ ModesKept'
  BY <1>12 DEF Retry, GiveUp, Exit
<1>13. CASE UNCHANGED vars
  BY <1>13 DEF vars
<1> QED BY <1>1, <1>2, <1>3, <1>4, <1>5, <1>6, <1>7, <1>8, <1>9, <1>10, <1>11, <1>12, <1>13
        DEF Next, Step

\* A process that lives has no lock file but the one it is taking or holds,
\* whatever died, was reclaimed or unlinked by its path meanwhile.
THEOREM NothingOrphaned == Spec => []NoOrphan
<1>1. Init => NoOrphan /\ ModesKept
  BY LockAssumption DEF Init, NoOrphan, ModesKept, Live, LockAssumption
<1>2. TypeOK /\ NoOrphan /\ ModesKept /\ [Next]_vars => NoOrphan' /\ ModesKept'
  BY NoOrphanNext
<1> QED BY <1>1, <1>2, LockTypeCorrect, PTL DEF Spec
=============================================================================
