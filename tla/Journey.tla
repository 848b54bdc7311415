------------------------------- MODULE Journey --------------------------------
(***************************************************************************)
(* What a client promises about one delivery of the server: it is shown at *)
(* most once; what has been written down waits for a verdict, and is given *)
(* up only to make room for another when as many are waiting as the queue  *)
(* holds.  A fault of the disk may cost what is waiting, or bring back     *)
(* what was decided; it never shows or sends anything that was not.        *)
(***************************************************************************)
EXTENDS Naturals, FiniteSets

CONSTANTS Ads, Capacity

VARIABLES
  stage,  \* how far each delivery has come
  faults  \* how often the disk misled the client

Stages ==
  {"new", "served", "showing",
   "queued",  \* written down
   "judged",  \* the server has decided and the client does not know
   "decided", \* both know, or the client has forgotten it
   "dropped", \* given up with a request still under way
   "wasted"}

Follows ==
  [new     |-> {"served"},
   served  |-> {"showing", "wasted"},
   showing |-> {"queued", "wasted"},
   queued  |-> {"judged", "dropped", "wasted"},
   judged  |-> {"decided"},
   dropped |-> {"decided", "wasted"},
   decided |-> {},
   wasted  |-> {}]

At(where) == {n \in Ads : stage[n] \in where}

Left(where) == {n \in At(where) : stage'[n] \notin where}

\* The queue is full and the show that ends needs a place in it.
MakesRoom ==
  /\ Cardinality(At({"queued", "judged"})) >= Capacity
  /\ Left({"showing"}) # {}

Init == stage = [n \in Ads |-> "new"] /\ faults = 0

Goes(n) == stage'[n] = stage[n] \/ stage'[n] \in Follows[stage[n]]

Step ==
  /\ stage' \in [Ads -> Stages]
  /\ \A n \in Ads : Goes(n)
  /\ Left({"queued", "judged"}) # {} =>
       \/ \A n \in Left({"queued", "judged"}) : stage'[n] = "decided"
       \/ MakesRoom
  /\ UNCHANGED faults

Fault ==
  /\ stage' \in [Ads -> Stages]
  /\ \A n \in Ads : Goes(n) \/ (stage[n] = "decided" /\ stage'[n] = "judged")
  /\ faults' = faults + 1

Next == Step \/ Fault

Spec == Init /\ [][Next]_<<stage, faults>>
=============================================================================
