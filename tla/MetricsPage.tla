----------------------------- MODULE MetricsPage -----------------------------
(***************************************************************************)
(* The Metrics page (pages/Metrics.tsx) and the socket /ws/metrics it      *)
(* reads (hooks/useMetricsWS.ts).  A push carries every node the API       *)
(* process scrapes, with rates of its own for one that does not answer,    *)
(* and an aggregate of the cluster, which the cards prefer.  One rate, 0 or *)
(* 1 here, stands for all the figures of a node: the page asks of each     *)
(* whether it is above 0.                                                  *)
(***************************************************************************)
EXTENDS PageLife

CONSTANTS Sources     \* the nodes that may be scraped

ASSUME SourcesAssumption == IsFiniteSet(Sources) /\ Sources # {}

VARIABLES
  feed,         \* the page's socket
  scraped,      \* the nodes of the last push, with what they report
  cluster       \* its aggregate, a total rate, or none

metricVars == <<feed, scraped, cluster>>

Reports == [alive : BOOLEAN, qps : {0, 1}]
Silent == [alive |-> FALSE, qps |-> 0]
None == -1

-----------------------------------------------------------------------------
(* The hook.                                                                *)

\* EMPTY_STATE
Empty == scraped' = <<>> /\ cluster' = None

OpenMetrics ==
  /\ Act /\ Enter
  /\ feed' = NoLink /\ Empty
  /\ UNCHANGED scene

ConnectMetrics ==
  /\ RunEffects
  /\ feed' = Connected(feed)
  /\ UNCHANGED <<scene, scraped, cluster>>

MetricsOpened ==
  /\ feed.ws = "connecting"
  /\ feed' = [feed EXCEPT !.ws = "open", !.badge = TRUE]
  /\ UNCHANGED <<lifeVars, scraped, cluster>>

\* A push replaces the state as a whole; the badge with it.
MetricsPushed ==
  /\ feed.ws = "open"
  /\ \E shown \in SUBSET Sources : scraped' \in [shown -> Reports]
  /\ cluster' \in {0, 1}
  /\ feed' = [feed EXCEPT !.badge = TRUE]
  /\ UNCHANGED lifeVars

\* What if onclose left the state as it was?
SilentClose ==
  /\ Act
  /\ feed.ws # "none"
  /\ feed' = [feed EXCEPT !.ws = "none", !.timer = TRUE]
  /\ UNCHANGED <<scene, stage, scraped, cluster>>

\* onclose keeps the nodes and drops the badge.
MetricsClosed ==
  /\ Act
  /\ feed.ws # "none"
  /\ feed' = [NoLink EXCEPT !.timer = TRUE]
  /\ UNCHANGED <<scene, stage, scraped, cluster>>

MetricsReconnect ==
  /\ feed.timer
  /\ feed' = [Connected(feed) EXCEPT !.timer = FALSE]
  /\ UNCHANGED <<lifeVars, scraped, cluster>>

\* The cleanup: the reconnection is cancelled and the socket closed for good.
LeaveMetrics ==
  /\ Act /\ Quit
  /\ feed' = NoLink /\ Empty
  /\ UNCHANGED scene

-----------------------------------------------------------------------------
(* What the page derives from it.                                           *)

Alive == {n \in DOMAIN scraped : scraped[n].alive}
AnyNodeAlive == Alive # {}

\* avgNodeMetric, over those that answer: whether it is above 0.
AvgOf == IF \E n \in Alive : scraped[n].qps > 0 THEN 1 ELSE 0

\* sumNodeMetric: over all nodes.
SumOf == SumFunctionOnSet([n \in DOMAIN scraped |-> scraped[n].qps], DOMAIN scraped)

\* The aggregate, where there is one.
TotalQps == IF cluster # None THEN cluster ELSE SumOf
Latency == IF cluster # None THEN cluster ELSE AvgOf

\* The cards: a figure, or what stands for its absence.  A load of 0 of the
\* processors is taken for one that is not exported.
Figure(value, absent) == IF value > 0 THEN "figure" ELSE absent
Cards ==
  [throughput |-> Figure(TotalQps, "Idle"),
   p50 |-> Figure(Latency, "-"), p99 |-> Figure(Latency, "-"),
   cpu |-> Figure(AvgOf, "N/A"),
   disk |-> Figure(SumOf, "-"), bloom |-> Figure(AvgOf, "-")]

\* A card says LIVE unless it says N/A.
IsLive == feed.badge /\ AnyNodeAlive
LiveCards == IF IsLive THEN {c \in DOMAIN Cards : Cards[c] # "N/A"} ELSE {}

\* The badge (components/LiveBadge.tsx), the words of the header, and the hint at the foot of the page.
LiveBadge == IF feed.badge THEN "LIVE" ELSE "OFFLINE"
Subtitle == IF feed.badge THEN "connected" ELSE "offline"
OfflineHint == ~feed.badge

\* The words over the table of the nodes.
TableLabel ==
  IF feed.badge /\ AnyNodeAlive THEN "live"
  ELSE IF feed.badge THEN "nodes offline"
  ELSE "backend offline"

\* The row of a node the context knows, in the state it has there: zeros for one
\* that was not scraped, and no figures for one that is down, though it answers.
RowOf(n, state) ==
  [label |-> IF state = "UNREACHABLE" THEN "DOWN"
             ELSE IF state \in {"SUSPECT", "REBALANCING"} THEN state ELSE "OK",
   figures |-> IF state = "UNREACHABLE" THEN "offline"
               ELSE IF n \in DOMAIN scraped THEN Figure(scraped[n].qps, "Idle")
               ELSE Figure(Silent.qps, "Idle")]

\* The panel of the histograms: one per alive node, or a hint to send traffic.
Histograms ==
  IF ~AnyNodeAlive \/ \A n \in DOMAIN scraped : scraped[n].qps = 0 THEN {} ELSE Alive

-----------------------------------------------------------------------------
MetricInit == feed = NoLink /\ scraped = <<>> /\ cluster = None

MetricStep ==
  /\ scene = "metrics"
  /\ \/ OpenMetrics \/ ConnectMetrics \/ LeaveMetrics
     \/ MetricsOpened \/ MetricsPushed \/ MetricsClosed \/ MetricsReconnect

MetricTypeOK ==
  /\ feed \in Links
  /\ DOMAIN scraped \subseteq Sources
  /\ \A n \in DOMAIN scraped : scraped[n] \in Reports
  /\ cluster \in {None, 0, 1}
-----------------------------------------------------------------------------
(* Properties.                                                              *)

\* Figures marked live, a table called live, and a page without the hint that
\* the backend is offline, come from a socket that is open: the figures of a lost
\* connection stay on the page but lose the mark (useMetricsWS.ts:109-113,
\* Metrics.tsx:269).
LiveMeansConnected ==
  (LiveCards # {} \/ TableLabel # "backend offline" \/ ~OfflineHint)
    => feed.ws = "open"
=============================================================================
