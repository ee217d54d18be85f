--------------------------------- MODULE Rack ---------------------------------
(***************************************************************************)
(* The rack hub (e3-rack): sessions that delegate one piece of work, the   *)
(* leases it is queued as, and the racks that claim them.                  *)
(*                                                                         *)
(* Every transition of a lease runs under that lease's coordinator, the    *)
(* fence, and every control operation under the hub's mutation queue; a    *)
(* step is what one of them does between two of its calls to a session.    *)
(* A request of a rack may be lost, repeated or arrive late: a rack may    *)
(* complete what it was ever granted at any time.                          *)
(*                                                                         *)
(* The leases are those of one work key, so one dedupe entry; leases of    *)
(* other keys meet these in the queue alone.                               *)
(***************************************************************************)
EXTENDS Naturals, FiniteSets

CONSTANTS Racks, Sessions, Leases, NoRack, NoSession, NoLease,
          MaxAttempts \* bound on the claims of a behaviour

ASSUME RackAssumption ==
  /\ NoRack \notin Racks /\ NoSession \notin Sessions /\ NoLease \notin Leases
  /\ MaxAttempts \in Nat

Attempts == 1..MaxAttempts

VARIABLES
  lease,    \* the lease store's records
  sub,      \* the hub's subscriptions, one a lease
  told,     \* told[s][l]: the terminal event published to a session
  dedupe,   \* the lease identical work attaches to
  fence,    \* the transition each lease's coordinator is running
  mutation, \* the control operation the mutation queue is running
  rec,      \* the repository's execution records
  minted,   \* how many attempts claims have minted
  granted,  \* the grants the hub has answered claims with
  session,  \* whether a session is in the hub, and its process alive
  registered \* the racks that are enrolled

vars == <<lease, sub, told, dedupe, fence, mutation, rec, minted, granted, session, registered>>

Ends == {"completed", "superseded", "cancelled"}

\* age: 0 within the lease's visibility, 1 past it, 2 past the reclaim window too.
LeaseRecords ==
  [status: {"none", "pending", "claimed"} \union Ends, claimedBy: Racks \union {NoRack},
   attempt: {0} \union Attempts, age: 0..2]
Subscriptions ==
  [subscribers: SUBSET Sessions, owner: Sessions \union {NoSession},
   claimants: SUBSET Racks, ended: BOOLEAN]
Transitions == [at: {"free", "checked", "taken", "settling", "finishing", "telling", "stopping"},
                rack: Racks \union {NoRack}]
Mutations ==
  [op: {"free", "each", "lose", "leave", "cancel", "lost", "cancelled", "handover"},
   session: Sessions \union {NoSession}, ending: {"no", "slow", "dead"}, lease: Leases \union {NoLease},
   rack: Racks \union {NoRack}, left: SUBSET Leases]
Grants == [rack: Racks, lease: Leases, attempt: Attempts]

\* A lease that was claimed is never queued again: it stays claimed until it
\* is claimed anew or ends.
Shaped(l) ==
  /\ lease[l].status \in {"none", "pending"} => lease[l].attempt = 0
  /\ lease[l].status \in {"claimed", "completed"} => lease[l].attempt # 0 /\ lease[l].claimedBy # NoRack
  /\ fence[l].at \in {"checked", "taken", "settling"} => fence[l].rack # NoRack
  /\ fence[l].at = "taken" => lease[l].attempt # 0

TypeOK ==
  /\ lease \in [Leases -> LeaseRecords]
  /\ sub \in [Leases -> Subscriptions]
  /\ told \in [Sessions -> [Leases -> {"none", "completed", "lost", "cancelled"}]]
  /\ dedupe \in Leases \union {NoLease}
  /\ fence \in [Leases -> Transitions]
  /\ mutation \in Mutations
  /\ rec \in [Attempts ->
        [state: {"none", "running", "decided", "interrupted", "cancelled"}, by: {0} \union Attempts]]
  /\ minted \in 0..MaxAttempts
  /\ granted \subseteq Grants
  /\ session \in [Sessions -> [open: BOOLEAN, alive: BOOLEAN]]
  /\ registered \subseteq Racks
  /\ \A l \in Leases : Shaped(l)

Free == [at |-> "free", rack |-> NoRack]
Quiet == [op |-> "free", session |-> NoSession, ending |-> "no", lease |-> NoLease,
          rack |-> NoRack, left |-> {}]

Init ==
  /\ lease = [l \in Leases |-> [status |-> "none", claimedBy |-> NoRack, attempt |-> 0, age |-> 0]]
  /\ sub = [l \in Leases |->
        [subscribers |-> {}, owner |-> NoSession, claimants |-> {}, ended |-> FALSE]]
  /\ told = [s \in Sessions |-> [l \in Leases |-> "none"]]
  /\ dedupe = NoLease
  /\ fence = [l \in Leases |-> Free]
  /\ mutation = Quiet
  /\ rec = [a \in Attempts |-> [state |-> "none", by |-> 0]]
  /\ minted = 0
  /\ granted = {}
  /\ session = [s \in Sessions |-> [open |-> TRUE, alive |-> TRUE]]
  /\ registered = Racks

Nonterminal(l) == lease[l].status \in {"pending", "claimed"}
Claimable(l)   == lease[l].status = "pending" \/ (lease[l].status = "claimed" /\ lease[l].age > 0)
Held(r, l)     == lease[l].status = "claimed" /\ lease[l].claimedBy = r

\* A lease's records go to its owner's process while that is in the hub, else
\* to another session's; whether the call is answered is the process's affair.
Dead(s)      == mutation.ending = "dead" /\ mutation.session = s
Usable(s)    == s \in Sessions /\ session[s].open /\ ~Dead(s)
Endpoints(l) == IF Usable(sub[l].owner) THEN {sub[l].owner} ELSE {s \in Sessions : Usable(s)}
Reachable(l) == \E s \in Endpoints(l) : session[s].alive

\* An attempt's record is written once: nothing follows an outcome.
Undecided(a) == rec[a].state \in {"none", "running"}
Recorded(a, state, by) ==
  IF Undecided(a) THEN [rec EXCEPT ![a] = [state |-> state, by |-> by]] ELSE rec

\* stopped(): the record of an attempt taken from its rack, best effort.
StoppedAs(l, a, state) ==
  \/ UNCHANGED rec
  \/ a # 0 /\ Reachable(l) /\ rec' = Recorded(a, state, 0)

\* Mutant of Published: only the session that queued the work is told.
PublishedToOwner(l, kind) ==
  [s \in Sessions |-> IF s = sub[l].owner THEN [told[s] EXCEPT ![l] = kind] ELSE told[s]]

Published(l, kind) ==
  [s \in Sessions |->
     IF s \in sub[l].subscribers THEN [told[s] EXCEPT ![l] = kind] ELSE told[s]]

\* finish(): the subscription ends, and identical work no longer attaches.
Undeduped(l) == IF dedupe = l THEN NoLease ELSE dedupe

(***************************************************************************)
(* The racks' routes                                                       *)
(***************************************************************************)
\* Mutant of CanClaim: a rack that had the lease before may have it again.
CanClaimAgain(r, l) == ~sub[l].ended /\ sub[l].subscribers # {}

CanClaim(r, l) ==
  /\ ~sub[l].ended /\ sub[l].subscribers # {}
  /\ r \notin sub[l].claimants

\* A poll takes a lease's fence and asks again what it was listed for.
ClaimCheck(r, l) ==
  /\ fence[l] = Free /\ r \in registered
  /\ Claimable(l) /\ CanClaim(r, l)
  /\ minted + Cardinality({m \in Leases : fence[m].at = "checked"}) < MaxAttempts
  /\ fence' = [fence EXCEPT ![l] = [at |-> "checked", rack |-> r]]
  /\ UNCHANGED <<lease, sub, told, dedupe, mutation, rec, minted, granted, session, registered>>

\* The claim; the attempt of a rack that went quiet is recorded interrupted.
ClaimTake(l) ==
  /\ fence[l].at = "checked" /\ minted < MaxAttempts
  /\ minted' = minted + 1
  /\ lease' = [lease EXCEPT ![l] = [status |-> "claimed", claimedBy |-> fence[l].rack,
                                    attempt |-> minted + 1, age |-> 0]]
  /\ StoppedAs(l, lease[l].attempt, "interrupted")
  /\ fence' = [fence EXCEPT ![l].at = "taken"]
  /\ UNCHANGED <<sub, told, dedupe, mutation, granted, session, registered>>

\* The new attempt is recorded running before its rack is told of it.
ClaimGrant(l) ==
  /\ fence[l].at = "taken" /\ Reachable(l)
  /\ rec' = Recorded(lease[l].attempt, "running", 0)
  /\ sub' = [sub EXCEPT ![l].claimants = @ \union {fence[l].rack}]
  /\ granted' = granted \union
        {[rack |-> fence[l].rack, lease |-> l, attempt |-> lease[l].attempt]}
  /\ fence' = [fence EXCEPT ![l] = Free]
  /\ UNCHANGED <<lease, told, dedupe, mutation, minted, session, registered>>

\* Mutant of ClaimFail: the lease goes back to the queue, its attempt with it.
ClaimFailReleases(l) ==
  /\ fence[l].at = "taken"
  /\ lease' = [lease EXCEPT ![l].status = "pending"]
  /\ fence' = [fence EXCEPT ![l] = Free]
  /\ UNCHANGED <<sub, told, dedupe, mutation, rec, minted, granted, session, registered>>

\* It could not be recorded: the poll fails, and the lease stays claimed.
ClaimFail(l) ==
  /\ fence[l].at = "taken"
  /\ fence' = [fence EXCEPT ![l] = Free]
  /\ UNCHANGED <<lease, sub, told, dedupe, mutation, rec, minted, granted, session, registered>>

Extend(r, l) ==
  /\ fence[l] = Free /\ r \in registered /\ Held(r, l)
  /\ \E g \in granted : g.rack = r /\ g.lease = l
  /\ lease' = [lease EXCEPT ![l].age = 0]
  /\ UNCHANGED <<sub, told, dedupe, fence, mutation, rec, minted, granted, session, registered>>

\* Mutant of CompleteRecord: an outcome that cannot be recorded is let go.
CompleteUnrecorded(g) ==
  LET l == g.lease IN
    /\ fence[l] = Free /\ g.rack \in registered /\ Held(g.rack, l)
    /\ rec' = IF Reachable(l) THEN Recorded(lease[l].attempt, "decided", g.attempt) ELSE rec
    /\ fence' = [fence EXCEPT ![l] = [at |-> "settling", rack |-> g.rack]]
    /\ UNCHANGED <<lease, sub, told, dedupe, mutation, minted, granted, session, registered>>

\* A completion names its lease and its rack, and not its attempt: the lease
\* held by that rack has its latest attempt's outcome recorded, or the rack is
\* told to try again.  One of a rack that holds it no more changes nothing.
CompleteRecord(g) ==
  LET l == g.lease IN
    /\ fence[l] = Free /\ g.rack \in registered
    /\ Held(g.rack, l) /\ Reachable(l)
    /\ rec' = Recorded(lease[l].attempt, "decided", g.attempt)
    /\ fence' = [fence EXCEPT ![l] = [at |-> "settling", rack |-> g.rack]]
    /\ UNCHANGED <<lease, sub, told, dedupe, mutation, minted, granted, session, registered>>

CompleteSettle(l) ==
  /\ fence[l].at = "settling"
  /\ lease' = [lease EXCEPT ![l].status = IF Held(fence[l].rack, l) THEN "completed" ELSE @]
  /\ fence' = [fence EXCEPT ![l].at = "finishing"]
  /\ UNCHANGED <<sub, told, dedupe, mutation, rec, minted, granted, session, registered>>

CompleteFinish(l) ==
  /\ fence[l].at = "finishing"
  /\ sub' = [sub EXCEPT ![l].ended = TRUE]
  /\ dedupe' = Undeduped(l)
  /\ fence' = [fence EXCEPT ![l].at = "telling"]
  /\ UNCHANGED <<lease, told, mutation, rec, minted, granted, session, registered>>

CompletePublish(l) ==
  /\ fence[l].at = "telling"
  /\ told' = Published(l, "completed")
  /\ fence' = [fence EXCEPT ![l] = Free]
  /\ UNCHANGED <<lease, sub, dedupe, mutation, rec, minted, granted, session, registered>>

(***************************************************************************)
(* The world: time passes a lease, and processes go                        *)
(***************************************************************************)
Pass(l) ==
  /\ lease[l].status = "claimed" /\ lease[l].age < 2
  /\ lease' = [lease EXCEPT ![l].age = @ + 1]
  /\ UNCHANGED <<sub, told, dedupe, fence, mutation, rec, minted, granted, session, registered>>

SessionDies(s) ==
  /\ session[s].open /\ session[s].alive
  /\ session' = [session EXCEPT ![s].alive = FALSE]
  /\ UNCHANGED <<lease, sub, told, dedupe, fence, mutation, rec, minted, granted, registered>>

(***************************************************************************)
(* The mutation queue: one control operation at a time.  The sweep's parts *)
(* are operations of their own, since nothing it reads outlives a part.    *)
(***************************************************************************)
\* Identical work attaches to the lease that is queued or held for it.
Submit(s) ==
  /\ mutation = Quiet /\ session[s].open /\ session[s].alive
  /\ IF dedupe # NoLease /\ Nonterminal(dedupe)
     THEN /\ sub' = [sub EXCEPT ![dedupe].subscribers = @ \union {s}]
          /\ UNCHANGED <<lease, dedupe>>
     ELSE \E l \in Leases :
            /\ lease[l].status = "none"
            /\ lease' = [lease EXCEPT ![l].status = "pending"]
            /\ sub' = [sub EXCEPT ![l] = [@ EXCEPT !.subscribers = {s}, !.owner = s]]
            /\ dedupe' = l
  /\ UNCHANGED <<told, fence, mutation, rec, minted, granted, session, registered>>

\* DELETE of a lease by its session.
Cancel(s, l) ==
  /\ mutation = Quiet /\ session[s].open /\ session[s].alive /\ s \in sub[l].subscribers
  /\ mutation' = [Quiet EXCEPT !.op = "leave", !.session = s, !.lease = l]
  /\ UNCHANGED <<lease, sub, told, dedupe, fence, rec, minted, granted, session, registered>>

\* Mutant of EndSession: it leaves what it queued, and not what it attached to.
EndSessionOwned(s) ==
  /\ mutation = Quiet /\ session[s].open
  /\ mutation' = [Quiet EXCEPT !.op = "each", !.session = s,
                               !.ending = IF session[s].alive THEN "slow" ELSE "dead",
                               !.left = {l \in Leases : sub[l].owner = s}]
  /\ UNCHANGED <<lease, sub, told, dedupe, fence, rec, minted, granted, session, registered>>

\* A session closes, has not polled for long, or its process is found dead.
EndSession(s) ==
  /\ mutation = Quiet /\ session[s].open
  /\ mutation' = [Quiet EXCEPT !.op = "each", !.session = s,
                               !.ending = IF session[s].alive THEN "slow" ELSE "dead",
                               !.left = {l \in Leases : s \in sub[l].subscribers}]
  /\ UNCHANGED <<lease, sub, told, dedupe, fence, rec, minted, granted, session, registered>>

Deregister(r) ==
  /\ mutation = Quiet /\ r \in registered
  /\ registered' = registered \ {r}
  /\ mutation' = [Quiet EXCEPT !.op = "each", !.rack = r,
                               !.left = {l \in Leases : lease[l].status # "none"}]
  /\ UNCHANGED <<lease, sub, told, dedupe, fence, rec, minted, granted, session>>

\* Mutant of SweepLost: a lease whose grant was never answered is not swept.
SweepGranted(l) ==
  /\ mutation = Quiet /\ ~sub[l].ended
  /\ lease[l].status = "claimed" /\ lease[l].age = 2
  /\ \E g \in granted : g.lease = l /\ g.attempt = lease[l].attempt
  /\ mutation' = [Quiet EXCEPT !.op = "lose", !.lease = l]
  /\ UNCHANGED <<lease, sub, told, dedupe, fence, rec, minted, granted, session, registered>>

\* The sweep reads a lease nobody retook in its reclaim window as lost.
SweepLost(l) ==
  /\ mutation = Quiet /\ ~sub[l].ended
  /\ lease[l].status = "claimed" /\ lease[l].age = 2
  /\ mutation' = [Quiet EXCEPT !.op = "lose", !.lease = l]
  /\ UNCHANGED <<lease, sub, told, dedupe, fence, rec, minted, granted, session, registered>>

\* What the operation goes on with when it is done with a lease.
Resumed ==
  IF mutation.ending # "no" \/ mutation.rack # NoRack
  THEN [mutation EXCEPT !.op = "each", !.lease = NoLease] ELSE Quiet

Each(l) ==
  /\ mutation.op = "each" /\ l \in mutation.left
  /\ mutation' = [mutation EXCEPT !.left = @ \ {l}, !.lease = l,
        !.op = IF mutation.ending # "no" THEN "leave" ELSE "lose"]
  /\ \/ mutation.ending # "no"
     \/ Held(mutation.rack, l)
  /\ UNCHANGED <<lease, sub, told, dedupe, fence, rec, minted, granted, session, registered>>

EachSkip(l) ==
  /\ mutation.op = "each" /\ l \in mutation.left
  /\ mutation.ending = "no" /\ ~Held(mutation.rack, l)
  /\ mutation' = [mutation EXCEPT !.left = @ \ {l}]
  /\ UNCHANGED <<lease, sub, told, dedupe, fence, rec, minted, granted, session, registered>>

EachDone ==
  /\ mutation.op = "each" /\ mutation.left = {}
  /\ mutation' = Quiet
  /\ session' = IF mutation.ending = "no" THEN session
                ELSE [session EXCEPT ![mutation.session].open = FALSE]
  /\ UNCHANGED <<lease, sub, told, dedupe, fence, rec, minted, granted, registered>>

\* terminal(): a lease that is queued or held ends; one that ended is left.
Terminate(l, how) ==
  lease' = [lease EXCEPT ![l].status = IF Nonterminal(l) THEN how ELSE @]

\* Mutant of LoseTake: the loss is told whatever the lease has come to.
LoseTakeAlways(l) ==
  /\ mutation.op = "lose" /\ mutation.lease = l /\ fence[l] = Free
  /\ Terminate(l, "superseded")
  /\ mutation' = [mutation EXCEPT !.op = "lost"]
  /\ fence' = [fence EXCEPT ![l].at = "stopping"]
  /\ UNCHANGED <<sub, told, dedupe, rec, minted, granted, session, registered>>

\* lose(): supersedes the lease, and says nothing of one that completed.
LoseTake(l) ==
  /\ mutation.op = "lose" /\ mutation.lease = l /\ fence[l] = Free
  /\ Terminate(l, "superseded")
  /\ IF lease[l].status = "completed"
     THEN mutation' = Resumed /\ UNCHANGED fence
     ELSE /\ mutation' = [mutation EXCEPT !.op = "lost"]
          /\ fence' = [fence EXCEPT ![l].at = "stopping"]
  /\ UNCHANGED <<sub, told, dedupe, rec, minted, granted, session, registered>>

LoseTell(l) ==
  /\ mutation.op = "lost" /\ mutation.lease = l
  /\ IF lease[l].status = "superseded" THEN StoppedAs(l, lease[l].attempt, "interrupted")
                                       ELSE UNCHANGED rec
  /\ sub' = [sub EXCEPT ![l].ended = TRUE]
  /\ dedupe' = Undeduped(l)
  /\ told' = Published(l, "lost")
  /\ fence' = [fence EXCEPT ![l] = Free]
  /\ mutation' = Resumed
  /\ UNCHANGED <<lease, minted, granted, session, registered>>

\* unsubscribe(): the last subscriber of a lease that has not ended cancels it.
Leave(l) ==
  /\ mutation.op = "leave" /\ mutation.lease = l
  /\ sub[l].subscribers = {mutation.session} /\ ~sub[l].ended
  /\ mutation' = [mutation EXCEPT !.op = "cancel"]
  /\ UNCHANGED <<lease, sub, told, dedupe, fence, rec, minted, granted, session, registered>>

\* Mutant of LeftBy: the lease stays with the session that left.
LeftByItsOwner(s, l) ==
  /\ sub' = [sub EXCEPT ![l].subscribers = @ \ {s}]
  /\ mutation' = Resumed

\* The session is no longer told; a lease others wait for gets a new owner.
LeftBy(s, l) ==
  /\ sub' = [sub EXCEPT ![l].subscribers = @ \ {s}]
  /\ mutation' = IF sub[l].owner = s /\ sub[l].subscribers # {s}
                 THEN [mutation EXCEPT !.op = "handover"] ELSE Resumed

LeaveShared(l) ==
  /\ mutation.op = "leave" /\ mutation.lease = l
  /\ sub[l].subscribers # {mutation.session} \/ sub[l].ended
  /\ LeftBy(mutation.session, l)
  /\ UNCHANGED <<lease, told, dedupe, fence, rec, minted, granted, session, registered>>

CancelTake(l) ==
  /\ mutation.op = "cancel" /\ mutation.lease = l /\ fence[l] = Free
  /\ Terminate(l, "cancelled")
  /\ IF Nonterminal(l)
     THEN /\ mutation' = [mutation EXCEPT !.op = "cancelled"]
          /\ fence' = [fence EXCEPT ![l].at = "stopping"]
          /\ UNCHANGED sub
     ELSE LeftBy(mutation.session, l) /\ UNCHANGED fence
  /\ UNCHANGED <<told, dedupe, rec, minted, granted, session, registered>>

CancelTell(l) ==
  /\ mutation.op = "cancelled" /\ mutation.lease = l
  /\ StoppedAs(l, lease[l].attempt, "cancelled")
  /\ sub' = [sub EXCEPT ![l] = [@ EXCEPT !.ended = TRUE,
                                              !.subscribers = sub[l].subscribers \ {mutation.session}]]
  /\ dedupe' = Undeduped(l)
  /\ told' = Published(l, "cancelled")
  /\ fence' = [fence EXCEPT ![l] = Free]
  /\ mutation' = Resumed
  /\ UNCHANGED <<lease, minted, granted, session, registered>>

\* Calls in flight to the old owner are interrupted under the lease's fence.
Handover(l) ==
  /\ mutation.op = "handover" /\ mutation.lease = l /\ fence[l] = Free
  /\ \E s \in sub[l].subscribers : sub' = [sub EXCEPT ![l].owner = s]
  /\ mutation' = Resumed
  /\ UNCHANGED <<lease, told, dedupe, fence, rec, minted, granted, session, registered>>

(***************************************************************************)
(* The specification                                                       *)
(***************************************************************************)
FenceStep(l) ==
  ClaimTake(l) \/ ClaimGrant(l) \/ ClaimFail(l) \/ CompleteSettle(l)
    \/ CompleteFinish(l) \/ CompletePublish(l)

MutationStep ==
  \/ EachDone
  \/ \E l \in Leases :
        Each(l) \/ EachSkip(l) \/ LoseTake(l) \/ LoseTell(l) \/ Leave(l) \/ LeaveShared(l)
          \/ CancelTake(l) \/ CancelTell(l) \/ Handover(l)

Next ==
  \/ \E r \in Racks : Deregister(r)
  \/ \E r \in Racks, l \in Leases : ClaimCheck(r, l) \/ Extend(r, l)
  \/ \E g \in granted : CompleteRecord(g)
  \/ \E s \in Sessions : Submit(s) \/ EndSession(s) \/ SessionDies(s)
  \/ \E s \in Sessions, l \in Leases : Cancel(s, l)
  \/ \E l \in Leases : FenceStep(l) \/ SweepLost(l) \/ Pass(l)
  \/ MutationStep

Spec == Init /\ [][Next]_vars

\* Time passes; a coordinator and the queue run what they started; and the
\* queue is first in, first out, so a sweep gets its turn.  Nothing makes a
\* rack poll, extend or complete, or a session ask.
Fairness ==
  /\ \A l \in Leases : WF_vars(Pass(l)) /\ WF_vars(FenceStep(l)) /\ SF_vars(SweepLost(l))
  /\ WF_vars(MutationStep)
  /\ \A s \in Sessions : SF_vars(~session[s].alive /\ EndSession(s))

FairSpec == Spec /\ Fairness

(***************************************************************************)
(* Properties                                                              *)
(***************************************************************************)
\* An attempt's outcome is the one its own run on a rack ended with: a reply
\* that names its lease and rack alone is never taken for a later attempt's.
OutcomeOfAttempt == \A a \in Attempts : rec[a].state = "decided" => rec[a].by = a

\* Two sessions that share a lease are never told that it ended differently,
\* and what they are told is how the lease ended in the store.
EndOf(kind) == IF kind = "lost" THEN "superseded" ELSE kind
ToldTheEnd ==
  \A s \in Sessions, l \in Leases : told[s][l] # "none" => lease[l].status = EndOf(told[s][l])

\* When nothing runs for a lease that ended, every session that still waits
\* for it was told: none waits for an event that will never be published.
NobodyWaits ==
  \A s \in Sessions, l \in Leases :
    (s \in sub[l].subscribers /\ lease[l].status \in Ends /\ fence[l] = Free)
      => told[s][l] # "none"

\* A lease that is queued or held has a session in the hub to record its
\* attempts with, whoever of those that asked for it left.
Attended ==
  \A l \in Leases : (mutation = Quiet /\ Nonterminal(l)) =>
    /\ sub[l].owner \in sub[l].subscribers /\ session[sub[l].owner].open
    /\ dedupe = l

\* What the sessions see of it: how leases ended, their latest attempts, and
\* what the repository records of these.
Ended    == [l \in Leases |-> IF lease[l].status \in Ends THEN lease[l].status ELSE "open"]
Latest   == [l \in Leases |-> lease[l].attempt]
OnRecord == [a \in Attempts |-> rec[a].state]

Implements == INSTANCE Delegation WITH end <- Ended, of <- Latest, rec <- OnRecord

\* A lease ends once, an attempt is decided once and while its lease is open,
\* and a lease completes only with its latest attempt's outcome on record.
Delegates == Implements!Spec

\* A rack that does not extend its lease loses it: another takes it up, or the
\* sessions are told that it was lost.
QuietRackLetsGo ==
  \A r \in Racks, l \in Leases : []<>(~Held(r, l) \/ lease[l].age = 0)

\* A session whose process died is dropped from every lease it waited for.
DeadLeaves ==
  \A s \in Sessions, l \in Leases :
    ~session[s].alive ~> (~session[s].open /\ s \notin sub[l].subscribers)
=============================================================================
