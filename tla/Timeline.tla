------------------------------ MODULE Timeline ------------------------------
(***************************************************************************)
(* The flight recorder of the cluster context (context/ClusterContext.tsx: *)
(* history, startReplay, stopReplay), which always runs, and the Timeline  *)
(* page that plays it back (pages/Timeline.tsx).  The replay belongs to    *)
(* the context and outlives the page; whether it plays, and the position   *)
(* among the events listed, belong to the page.  router.tsx has no route   *)
(* to the page: what is said here holds once it is given one.              *)
(*                                                                         *)
(* Positions count from 1.  Of a snapshot the model keeps its label.       *)
(***************************************************************************)
EXTENDS PageLife

CONSTANTS MaxHistory  \* MAX_HISTORY

ASSUME HistoryAssumption == MaxHistory \in Nat \ {0}

VARIABLES
  history,      \* the labels of the snapshots, oldest first
  replay,       \* replayIndex, 0 (null) when live
  chosen,       \* ghost: where the snapshot asked for is now, 0 when it is gone
  playing,      \* whether the page plays
  pos           \* replayPos: the page's position among the events it lists

timelineVars == <<history, replay, chosen, playing, pos>>

Live == 0

-----------------------------------------------------------------------------
(* The recorder.                                                            *)

\* slice(-MAX_HISTORY): the positions of those that stay shift by one.
Trim(s) == IF Len(s) > MaxHistory THEN SubSeq(s, Len(s) - MaxHistory + 1, Len(s)) ELSE s

\* Where the snapshot at position p is when the first "cut" are gone.
After(p, cut) == IF p > cut THEN p - cut ELSE 0

\* recordSnapshot: every 5 s, and on every change, in replay mode as well.  The
\* index replayed stays as it is, whatever is cut off before it.
Record(label) ==
  /\ history' = Trim(Append(history, label))
  /\ chosen' = After(chosen, Len(history) + 1 - Len(history'))
  /\ UNCHANGED <<lifeVars, replay, playing, pos>>

-----------------------------------------------------------------------------
(* The page.                                                                *)

\* The events listed: every change, and the periodic snapshots at every third
\* position.
Significant ==
  Picked(Len(history),
         {i \in DOMAIN history : history[i] # "periodic" \/ (i - 1) % 3 = 0})

\* currentIdx: the event replayed, if it is (still) listed.
CurrentIdx == {k \in DOMAIN Significant : Significant[k] = replay}

\* Mutant: the place among the events is taken for the one in the history.
PlaceReplayEvent(e) == replay' = e /\ chosen' = Significant[e]

\* startReplay(history.indexOf(significant[e]))
ReplayEvent(e) == replay' = Significant[e] /\ chosen' = Significant[e]

MountTimeline ==
  /\ \/ Act /\ Enter
     \/ RunEffects
  /\ UNCHANGED <<scene, timelineVars>>

\* On leaving the playback stops; the replay does not.
LeaveTimeline ==
  /\ Act /\ Quit
  /\ playing' = FALSE /\ pos' = 1
  /\ UNCHANGED <<scene, history, replay, chosen>>

\* jumpTo and the setReplayPos after it: the latter also when there is no such
\* event.  The positions the page offers: of the events, from the buttons for
\* the ends, the scrubber and the list, and the ones before and after.
JumpTo(i) ==
  /\ pos' = i
  /\ IF i \in DOMAIN Significant THEN ReplayEvent(i) ELSE UNCHANGED <<replay, chosen>>
  /\ UNCHANGED <<scene, stage, history, playing>>

Prev == IF pos > 1 THEN pos - 1 ELSE 1

Jump == Act /\ Mounted /\ \E i \in DOMAIN Significant \cup {Prev} : JumpTo(i)

\* togglePlay: from the event replayed, or from the first when it is the last;
\* "pos" is left where it was.
TogglePlay ==
  /\ Act /\ Mounted
  /\ playing' = ~playing
  /\ IF playing THEN UNCHANGED <<replay, chosen>>
     ELSE ReplayEvent(IF CurrentIdx = {} \/ Len(Significant) \in CurrentIdx
                      THEN 1 ELSE CHOOSE k \in CurrentIdx : TRUE)
  /\ UNCHANGED <<scene, stage, history, pos>>

\* What if the end of the events did not stop it?
EndlessTick ==
  /\ playing
  /\ pos' = IF pos >= Len(Significant) THEN 1 ELSE pos + 1
  /\ ReplayEvent(pos')
  /\ UNCHANGED <<lifeVars, history, playing>>

\* The interval, set up anew by every render, sees the events of the last.
PlaybackTick ==
  /\ playing
  /\ IF pos >= Len(Significant)
     THEN playing' = FALSE /\ UNCHANGED <<replay, chosen, pos>>
     ELSE /\ pos' = pos + 1 /\ ReplayEvent(pos + 1)
          /\ UNCHANGED playing
  /\ UNCHANGED <<lifeVars, history>>

\* handleStop
HandleStop ==
  /\ Act /\ Mounted
  /\ replay # Live
  /\ playing' = FALSE /\ replay' = Live /\ chosen' = 0 /\ pos' = 1
  /\ UNCHANGED <<scene, stage, history>>

-----------------------------------------------------------------------------
(* What is shown.                                                           *)

\* The context gives every page the cluster of the snapshot replayed.
Shown == IF replay # Live THEN history[replay] ELSE "live"

\* The detail: the snapshot replayed, else the event at "pos", else the last.
Detail ==
  IF replay # Live THEN replay
  ELSE IF pos \in DOMAIN Significant THEN Significant[pos] ELSE Last(Significant)

\* The label below the scrubber: which event of how many.
Position == <<pos, Len(Significant)>>

\* The row of the list that is marked.
Marked == IF replay # Live THEN {k \in DOMAIN Significant : k = pos} ELSE {}

-----------------------------------------------------------------------------
\* The change of state at the start of the dashboard is recorded.
TimelineInit ==
  history = <<"change">> /\ replay = Live /\ chosen = 0 /\ playing = FALSE /\ pos = 1

Recording == \E label \in {"periodic", "change"} : Record(label)

TimelineStep ==
  /\ scene = "timeline"
  /\ \/ Recording \/ MountTimeline \/ LeaveTimeline
     \/ Jump \/ TogglePlay \/ PlaybackTick \/ HandleStop

TimelineTypeOK ==
  /\ history \in Seq({"periodic", "change"}) /\ Len(history) \in 1..MaxHistory
  /\ replay \in Live..MaxHistory /\ chosen \in 0..MaxHistory
  /\ playing \in BOOLEAN
  /\ pos \in 1..MaxHistory
-----------------------------------------------------------------------------
(* Properties.                                                              *)

\* What is replayed is a snapshot that exists and, while the recorder has room,
\* the very one the page asked for, whatever was recorded since and though the
\* replay outlives the page (Timeline.tsx:135); never is it an earlier one; and a
\* page that plays is in replay mode.  Once the recorder is full, each snapshot
\* recorded moves what is replayed to the next one, because the history is cut in
\* front and the index stays (ClusterContext.tsx:98): the state shown is then not
\* the one "at that point in time" of Timeline.tsx:407.
ReplayShowsChosen ==
  /\ replay # Live => replay \in DOMAIN history
  /\ chosen <= replay
  /\ chosen < replay => Len(history) = MaxHistory
  /\ playing => replay # Live

\* A playback ends, whatever is recorded while it runs (Timeline.tsx:104).
PlaybackEnds == (scene = "timeline" /\ playing) ~> ~playing
=============================================================================
