------------------------------- MODULE Panels -------------------------------
(***************************************************************************)
(* The pages and overlays of the dashboard that share no state, side by    *)
(* side: a behaviour watches one of them, so the states are the sum of     *)
(* theirs and not the product.  The overlays belong to the layout and are  *)
(* mounted from the start; a page is mounted when it is visited.           *)
(***************************************************************************)
EXTENDS LogStream, MetricsPage, StoragePage, LiveFeed, TaskOverlays, KeyOperations,
        DashboardControls, Timeline

Scenes == {"logs", "metrics", "storage", "feed", "overlays", "keys", "controls",
           "timeline"}

panelVars == <<logVars, metricVars, storageVars, feedVars, overlayVars, keyVars,
               controlVars, timelineVars>>
vars == <<lifeVars, panelVars>>

Init ==
  /\ scene \in Scenes
  /\ stage = IF scene = "overlays" THEN "mounted" ELSE "away"
  /\ acts = 0
  /\ LogInit /\ MetricInit /\ StorageInit /\ FeedInit /\ OverlayInit /\ KeyInit
  /\ ControlInit /\ TimelineInit

Next ==
  \/ LogStep /\ UNCHANGED <<metricVars, storageVars, feedVars, overlayVars,
                            keyVars, controlVars, timelineVars>>
  \/ MetricStep /\ UNCHANGED <<logVars, storageVars, feedVars, overlayVars,
                               keyVars, controlVars, timelineVars>>
  \/ StorageStep /\ UNCHANGED <<logVars, metricVars, feedVars, overlayVars,
                                keyVars, controlVars, timelineVars>>
  \/ FeedStep /\ UNCHANGED <<logVars, metricVars, storageVars, overlayVars,
                             keyVars, controlVars, timelineVars>>
  \/ OverlayStep /\ UNCHANGED <<logVars, metricVars, storageVars, feedVars,
                                keyVars, controlVars, timelineVars>>
  \/ KeyStep /\ UNCHANGED <<logVars, metricVars, storageVars, feedVars,
                            overlayVars, controlVars, timelineVars>>
  \/ ControlStep /\ UNCHANGED <<logVars, metricVars, storageVars, feedVars,
                                overlayVars, keyVars, timelineVars>>
  \/ TimelineStep /\ UNCHANGED <<logVars, metricVars, storageVars, feedVars,
                                 overlayVars, keyVars, controlVars>>

Spec == Init /\ [][Next]_vars

-----------------------------------------------------------------------------
(* Fairness.  Effects run after a render, a timer that is set strikes, a      *)
(* socket that is being opened opens or closes, and a request to the API      *)
(* settles: the browser sees to that.  Clicks, visits, failures, pushes and   *)
(* frames are owed to no one.                                                 *)

Owed ==
  /\ \/ scene = "logs" /\ (Effects \/ OnOpen \/ Reconnect)
     \/ scene = "storage" /\ (Strikes \/ FlushSettles \/ CompactSettles \/ Ends)
     \/ scene = "overlays" /\ \E t \in due : AutoDismiss(t)
     \/ scene = "controls" /\ FlashEnds
     \/ scene = "timeline" /\ PlaybackTick
  /\ Next

FairSpec == Spec /\ WF_vars(Owed)

-----------------------------------------------------------------------------
\* No notice of the dashboard stays for ever: neither a toast nor the flash of a
\* node, though their timers are never cancelled and outlive what they were set
\* for (ToastContainer.tsx:33, Dashboard.tsx:188).
NoticesEnd == ToastsEnd /\ FlashesEnd
=============================================================================
