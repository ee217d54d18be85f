------------------------------ MODULE Delegation ------------------------------
(***************************************************************************)
(* What a session that delegated work may rely on: a lease ends once, an   *)
(* attempt is decided once, an attempt runs for a lease that is open, and  *)
(* a lease ends completed only when its latest attempt has an outcome.     *)
(* Module Rack is shown to implement this.                                 *)
(***************************************************************************)
EXTENDS Naturals

CONSTANTS Leases, Attempts

VARIABLES
  end,   \* end[l]: how the lease ended, or "open"
  of,    \* of[l]: its latest attempt, 0 when none has claimed it
  rec    \* rec[a]: what the repository records of an attempt

vars == <<end, of, rec>>

Undecided == {"none", "running"}

Init ==
  /\ end = [l \in Leases |-> "open"]
  /\ of = [l \in Leases |-> 0]
  /\ rec = [a \in Attempts |-> "none"]

\* A claim names a fresh attempt, and the one it takes over from, if any, is
\* interrupted unless that could not be recorded.
Claim(l, a) ==
  /\ end[l] = "open" /\ rec[a] = "none" /\ \A m \in Leases : of[m] # a
  /\ of' = [of EXCEPT ![l] = a]
  /\ \/ UNCHANGED rec
     \/ /\ of[l] # 0 /\ rec[of[l]] \in Undecided
        /\ rec' = [rec EXCEPT ![of[l]] = "interrupted"]
  /\ UNCHANGED end

\* Only the latest attempt of an open lease starts or is given its outcome.
Record(l, state) ==
  /\ end[l] = "open" /\ of[l] # 0 /\ rec[of[l]] \in Undecided
  /\ rec' = [rec EXCEPT ![of[l]] = state]
  /\ UNCHANGED <<end, of>>

End(l, how) ==
  /\ end[l] = "open"
  /\ how = "completed" => of[l] # 0 /\ rec[of[l]] = "decided"
  /\ end' = [end EXCEPT ![l] = how]
  /\ UNCHANGED <<of, rec>>

\* What a lease that was taken from its rack leaves behind.
Stop(l, state) ==
  /\ end[l] \in {"superseded", "cancelled"}
  /\ of[l] # 0 /\ rec[of[l]] \in Undecided
  /\ rec' = [rec EXCEPT ![of[l]] = state]
  /\ UNCHANGED <<end, of>>

Next ==
  \E l \in Leases :
    \/ \E a \in Attempts : Claim(l, a)
    \/ \E state \in {"running", "decided"} : Record(l, state)
    \/ \E how \in {"completed", "superseded", "cancelled"} : End(l, how)
    \/ \E state \in {"interrupted", "cancelled"} : Stop(l, state)

Spec == Init /\ [][Next]_vars
=============================================================================
