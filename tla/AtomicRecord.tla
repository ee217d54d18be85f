----------------------------- MODULE AtomicRecord -----------------------------
(***************************************************************************)
(* What a client of a record may rely on: writes take effect one at a      *)
(* time, each on the value as the one before left it; a call is told it    *)
(* committed only by a write of its own or, when its key is the last       *)
(* mutation's, by that mutation; an operator's commit brings back a value  *)
(* the record has held and forgets no key; only a reset starts over.       *)
(* Module Records is shown to implement this.                              *)
(***************************************************************************)
CONSTANTS Calls, KeyOf, NoKey

VARIABLES
  rows,    \* the calls whose writes the value holds
  last,    \* the key of the last mutation, if it had one
  past,    \* the values that have been committed
  told     \* the calls told that they committed

vars == <<rows, last, past, told>>

Init == rows = {} /\ last = NoKey /\ past = {} /\ told = {}

Repeats(c) == KeyOf[c] # NoKey /\ KeyOf[c] = last

Apply(c) ==
  /\ ~Repeats(c) /\ c \notin told
  /\ rows' = rows \union {c} /\ last' = KeyOf[c]
  /\ past' = past \union {rows'} /\ told' = told \union {c}

Repeat(c) == Repeats(c) /\ told' = told \union {c} /\ UNCHANGED <<rows, last, past>>

\* A value committed as it stands: the value is the same, its history is not.
Recommit == past' = past \union {rows} /\ UNCHANGED <<rows, last, told>>

BringBack ==
  /\ rows' \in past \union {{}}
  /\ past' = past \union {rows'} /\ UNCHANGED <<last, told>>

Reset == rows' = {} /\ last' = NoKey /\ past' \in {past, past \union {{}}} /\ UNCHANGED told

Next ==
  \/ \E c \in Calls : Apply(c) \/ Repeat(c)
  \/ Recommit \/ BringBack \/ Reset

Spec == Init /\ [][Next]_vars
=============================================================================
