--------------------------- MODULE ControlService ---------------------------
(***************************************************************************)
(* What the simulator promises the USB host, seen without the link: each   *)
(* control request is completed, one at a time and in order, by replies    *)
(* the PC gave to that request, with a verdict the PC may give to a request*)
(* of that kind.                                                           *)
(***************************************************************************)
EXTENDS Naturals, Sequences

CONSTANT MaxRequests

VARIABLES
  asked,        \* the kind of each request so far
  outcome       \* for each completed one, the requests whose replies were
                \*   used and what their third byte said

Verdicts(kind) ==
  CASE kind = "descriptor" -> {{0, 3}}       \* ignored, then a descriptor
    [] kind = "configure"  -> {{0}}
    [] kind \in {"read", "command"} -> {{0}, {1}, {2}}
    [] kind = "output"     -> {{1}, {2}}     \* never ignored

Init == asked = <<>> /\ outcome = <<>>

Ask ==
  /\ Len(asked) = Len(outcome) /\ Len(asked) < MaxRequests
  /\ \E k \in {"descriptor", "configure", "read", "command", "output"} :
       asked' = Append(asked, k)
  /\ UNCHANGED outcome

Complete ==
  /\ Len(outcome) < Len(asked)
  /\ \E v \in Verdicts(asked[Len(asked)]) :
       outcome' = Append(outcome, [of |-> {Len(asked)}, verdict |-> v])
  /\ UNCHANGED asked

Next == Ask \/ Complete
Spec == Init /\ [][Next]_<<asked, outcome>> /\ WF_<<asked, outcome>>(Complete)
=============================================================================
