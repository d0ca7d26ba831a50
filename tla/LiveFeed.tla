------------------------------ MODULE LiveFeed ------------------------------
(***************************************************************************)
(* The Live Write Feed of the Storage page                                 *)
(* (components/storage/LiveWriteFeed.tsx): tokens that fall towards the    *)
(* MemTable, and the terminal in which those that arrived are listed as    *)
(* committed.  Frames and spawns come in any order; how far a frame moves  *)
(* the tokens depends on the rate of writes, and is the same for all.      *)
(* The page passes the rate, so the component's own socket is not used.    *)
(*                                                                         *)
(* This is the production build: in development React.StrictMode (main.tsx) *)
(* calls the update that fills the terminal twice.                         *)
(***************************************************************************)
EXTENDS PageLife

CONSTANTS
  Height,       \* 100: how far a token falls
  Steps,        \* {3, 5}: how far a frame moves it
  Kept,         \* 20: tokens kept when one more is spawned
  MaxListed,    \* 12: lines of the terminal
  MaxTokens     \* bound: tokens spawned in one visit

ASSUME FeedAssumption ==
  /\ Height \in Nat \ {0} /\ Steps \subseteq Nat \ {0}
  /\ Kept \in Nat \ {0} /\ MaxListed \in Nat \ {0} /\ MaxTokens \in Nat

VARIABLES
  tokens,       \* the tokens, oldest first
  spawned,      \* ids given
  listed        \* ids in the terminal, newest first

feedVars == <<tokens, spawned, listed>>

Tokens == [id : 1..MaxTokens, y : 0..Height, done : BOOLEAN]

MountFeed ==
  /\ \/ Act /\ Enter
     \/ RunEffects
  /\ UNCHANGED <<scene, feedVars>>

LeaveFeed ==
  /\ Act /\ Quit
  /\ tokens' = <<>> /\ spawned' = 0 /\ listed' = <<>>
  /\ UNCHANGED scene

\* slice(-20)
Youngest(s, n) == IF Len(s) > n THEN SubSeq(s, Len(s) - n + 1, Len(s)) ELSE s

\* spawnToken
SpawnToken ==
  /\ Mounted
  /\ spawned < MaxTokens /\ spawned' = spawned + 1
  /\ tokens' = Append(Youngest(tokens, Kept), [id |-> spawned', y |-> 0, done |-> FALSE])
  /\ UNCHANGED <<lifeVars, listed>>

\* One frame: a token that has arrived stays where it is ...
Moved(t, step) ==
  IF t.done THEN t
  ELSE IF t.y + step >= Height THEN [t EXCEPT !.y = Height, !.done = TRUE]
  ELSE [t EXCEPT !.y = @ + step]

\* What if a token that has arrived were not passed over?
EveryFrameArrives(t, step) == t.y + step >= Height

\* ... and one that arrives now gets a line, above the older ones.
Arrives(t, step) == ~t.done /\ t.y + step >= Height

FrameTick ==
  /\ Mounted
  /\ \E step \in Steps :
       LET arrived == Picked(Len(tokens), {i \in DOMAIN tokens : Arrives(tokens[i], step)})
           lines == Reverse([i \in DOMAIN arrived |-> tokens[arrived[i]].id]) \o listed
       IN /\ tokens' = [i \in DOMAIN tokens |-> Moved(tokens[i], step)]
          /\ listed' = SubSeq(lines, 1,
                              IF Len(lines) > MaxListed THEN MaxListed ELSE Len(lines))
  /\ UNCHANGED <<lifeVars, spawned>>

\* (The filter for y < 110 that ends a frame removes nothing: y stops at 100.
\* Tokens that have arrived leave when younger ones push them out.)

\* The tokens that are drawn, and the terminal below them.
Falling == SelectSeq(tokens, LAMBDA t : ~t.done)
Terminal == IF listed = <<>> THEN <<"Waiting for writes">> ELSE listed

\* The badge, by the rate the page passes.
RateLabel(writesPerSec) == IF writesPerSec > 0 THEN "Live" ELSE "Idle"

FeedInit == tokens = <<>> /\ spawned = 0 /\ listed = <<>>

FeedStep ==
  /\ scene = "feed"
  /\ MountFeed \/ LeaveFeed \/ SpawnToken \/ FrameTick

FeedTypeOK ==
  /\ tokens \in Seq(Tokens) /\ Len(tokens) <= Kept + 1
  /\ spawned \in 0..MaxTokens
  /\ listed \in Seq(1..MaxTokens) /\ Len(listed) <= MaxListed
-----------------------------------------------------------------------------
(* Properties.                                                              *)

\* The terminal lists every token that arrived, once, the newest first, as far
\* back as it has room, and none that is still falling: the line is written by
\* an update of one state from within the update of another
\* (LiveWriteFeed.tsx:131-147).
TerminalListsArrivals ==
  /\ \A i, j \in DOMAIN listed : i < j => listed[i] > listed[j]
  /\ \A t \in Range(tokens) :
       IF t.done
       THEN \/ t.id \in Range(listed)
            \/ Len(listed) = MaxListed /\ \A i \in Range(listed) : i > t.id
       ELSE t.id \notin Range(listed)
=============================================================================
