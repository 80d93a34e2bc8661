--------------------------- MODULE EvidenceContract ---------------------------
(***************************************************************************)
(* What evidence production promises the readers of one destination,       *)
(* without files, registry or job directories: at most one attempt is      *)
(* usable; an attempt becomes usable at most while it is the latest one;   *)
(* starting an attempt withdraws whatever was usable before; and nothing   *)
(* else withdraws evidence once its attempt is over.                       *)
(***************************************************************************)
CONSTANTS
  Runs,  \* attempts to produce evidence
  None   \* not a run

VARIABLES
  usable,  \* the attempt readers may accept, or None
  latest,  \* {the latest attempt} while it may still change usable, or {}
  tried    \* attempts begun so far

contractVars == <<usable, latest, tried>>

Init == usable = None /\ latest = {} /\ tried = {}

\* A new attempt supersedes the previous one, usable or not.
Begin(p) ==
  /\ p \notin tried
  /\ tried' = tried \cup {p} /\ latest' = {p} /\ usable' = None

\* The evidence of the latest attempt becomes usable.
Complete(p) ==
  /\ p \in latest /\ usable = None
  /\ usable' = p
  /\ UNCHANGED <<latest, tried>>

\* The latest attempt fails after its evidence became usable.
Withdraw(p) ==
  /\ p \in latest /\ usable = p
  /\ usable' = None
  /\ UNCHANGED <<latest, tried>>

\* The latest attempt is over: what is usable now stays so until a new Begin.
Retire(p) ==
  /\ p \in latest
  /\ latest' = {}
  /\ UNCHANGED <<usable, tried>>

Next == \E p \in Runs : Begin(p) \/ Complete(p) \/ Withdraw(p) \/ Retire(p)

Spec == Init /\ [][Next]_contractVars

=============================================================================
