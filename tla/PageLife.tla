------------------------------ MODULE PageLife ------------------------------
(***************************************************************************)
(* The life of a page of the dashboard (router.tsx): it is rendered, its   *)
(* effects run (requests leave, sockets and timers are set up), and on     *)
(* leaving their cleanups run and its state is gone.  The modules that     *)
(* extend this one are the pages, and the parts of the layout, that share  *)
(* no state with each other: what one of them does is independent of the   *)
(* rest, so a behaviour watches one of them, its "scene".                  *)
(***************************************************************************)
EXTENDS Integers, Sequences, SequencesExt, FiniteSets

CONSTANTS
  MaxActs       \* bound: visits, clicks, failures and other events not owed,
                \* taken together

ASSUME ActsAssumption == MaxActs \in Nat

VARIABLES
  scene,        \* the page, or the part of the layout, that is watched
  stage,        \* "away", "rendered", or "mounted" once its effects have run
  acts          \* how many of those there were

lifeVars == <<scene, stage, acts>>

Act == acts < MaxActs /\ acts' = acts + 1
Mounted == stage = "mounted"
Enter == stage = "away" /\ stage' = "rendered"
RunEffects == stage = "rendered" /\ stage' = "mounted" /\ UNCHANGED acts
Quit == Mounted /\ stage' = "away"

\* filter(): the positions of S among the first n, in order.
Picked(n, S) ==
  LET upTo[i \in 0..n] ==
        IF i = 0 THEN <<>> ELSE IF i \in S THEN Append(upTo[i - 1], i) ELSE upTo[i - 1]
  IN  upTo[n]

-----------------------------------------------------------------------------
(* A page's WebSocket: "ws" is what its ref holds (a socket that closes is   *)
(* as good as none for the guard readyState < 2 of connect), "timer" whether *)
(* a reconnection is due, "badge" the page's connected flag.                 *)

NoLink == [ws |-> "none", timer |-> FALSE, badge |-> FALSE]
Links == [ws : {"none", "connecting", "open"}, timer : BOOLEAN, badge : BOOLEAN]

Connected(l) == IF l.ws = "none" THEN [l EXCEPT !.ws = "connecting"] ELSE l
=============================================================================
