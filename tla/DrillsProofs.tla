----------------------------- MODULE DrillsProofs -----------------------------
(***************************************************************************)
(* Proofs about Drills: any intervals, windows, timeouts and number of     *)
(* trials, and any number of worker crashes.                               *)
(***************************************************************************)
EXTENDS Drills, TLAPS

USE PeriodsAssumption

-----------------------------------------------------------------------------
(* The script. *)

(* What follows each step that may change whether an incident is live. *)
LEMMA ScriptOrder ==
  /\ Follows["trial_clear"] = "trial_post" /\ Follows["trial_post"] = "wait_incident"
  /\ Follows["wait_incident"] = "trial_firing" /\ Follows["trial_firing"] = "trial_over"
  BY DEF Follows

(* The other steps lead to none of the steps of a live incident. *)
LEMMA ScriptElsewhere ==
  ASSUME NEW s \in Commands \cup Posts \cup Waits,
         s \notin {"trial_clear", "trial_post", "wait_incident", "trial_firing", "trial_over"}
  PROVE  Follows[s] \in Steps \ {"trial_post", "wait_incident", "trial_firing", "trial_over", "ended", "setup"}
<1>1. s \in {"setup", "api_stop", "api_start", "redis_stop", "rows", "redis_start", "verify",
             "outage_post", "api_clear", "api_firing", "api_cleared", "redis_clear",
             "redis_firing", "redis_over", "wait_api", "wait_prometheus", "api_back", "recovery"}
  BY DEF Commands, Posts, Waits, AlertWaits
<1>2. /\ Follows["setup"] = "wait_api" /\ Follows["wait_api"] = "wait_prometheus"
      /\ Follows["wait_prometheus"] = "api_clear" /\ Follows["api_clear"] = "api_stop"
      /\ Follows["api_stop"] = "api_firing" /\ Follows["api_firing"] = "api_start"
      /\ Follows["api_start"] = "api_back" /\ Follows["api_back"] = "api_cleared"
      /\ Follows["api_cleared"] = "trial_clear" /\ Follows["redis_clear"] = "redis_stop"
      /\ Follows["redis_stop"] = "outage_post" /\ Follows["outage_post"] = "rows"
      /\ Follows["rows"] = "redis_firing" /\ Follows["redis_firing"] = "redis_start"
      /\ Follows["redis_start"] = "recovery" /\ Follows["recovery"] = "verify"
      /\ Follows["verify"] = "redis_over" /\ Follows["redis_over"] = "close"
  BY DEF Follows
<1>3. {"wait_api", "wait_prometheus", "api_clear", "api_stop", "api_firing", "api_start",
       "api_back", "api_cleared", "trial_clear", "redis_stop", "outage_post", "rows",
       "redis_firing", "redis_start", "recovery", "verify", "redis_over", "close"}
        \subseteq Steps \ {"trial_post", "wait_incident", "trial_firing", "trial_over", "ended", "setup"}
  BY DEF Steps, Commands, Posts, Waits, AlertWaits
<1> HIDE DEF Follows, Steps
<1>4. QED
  BY <1>1, <1>2, <1>3

LEMMA StepNames ==
  {"trial_clear", "trial_post", "wait_incident", "trial_firing", "trial_over", "redis_clear",
   "close", "ended", "setup"} \subseteq Steps
  BY DEF Steps, Commands, Posts, Waits, AlertWaits

(* up --wait returns with Prometheus running. *)
LEMMA SetupFound == step = "setup" /\ Found(step) => "prometheus" \in running
<1> SUFFICES ASSUME step = "setup", Found(step) PROVE "prometheus" \in running
  OBVIOUS
<1> DEFINE Up == "prometheus" \in running
<1>1. Up \in BOOLEAN
  OBVIOUS
<1> HIDE DEF Up
<1>2. step \notin {"wait_api", "api_start", "api_back"} /\ step # "api_stop"
        /\ step # "redis_stop" /\ step # "redis_start" /\ step \notin Posts \cup {"rows"}
        /\ step \notin {"wait_incident", "recovery", "verify"}
  BY DEF Posts
<1>3. Found(step) = Up
  BY <1>1, <1>2 DEF Found, Up
<1>4. Up
  BY <1>3
<1>5. QED
  BY <1>4 DEF Up

(* What the two waits for a trial's alert find. *)
LEMMA AlertFound ==
  /\ step = "trial_firing" /\ Found(step) => "incident" \in firing
  /\ step = "trial_over" /\ Found(step) => "incident" \notin firing
  /\ step = "wait_incident" /\ Found(step) => batch = "processed"
<1>2. ASSUME step \in {"trial_firing", "trial_over"}, Found(step)
      PROVE  (AlertWaits[step][1] \in firing) = AlertWaits[step][2]
  BY <1>2 DEF Found, Posts
<1>3. ASSUME step = "trial_firing", Found(step) PROVE "incident" \in firing
  <2>1. AlertWaits["trial_firing"][1] = "incident"
    BY DEF AlertWaits
  <2>2. AlertWaits["trial_firing"][2] = TRUE
    BY DEF AlertWaits
  <2>3. (AlertWaits["trial_firing"][1] \in firing) = AlertWaits["trial_firing"][2]
    BY <1>2, <1>3
  <2>4. QED
    BY <2>1, <2>2, <2>3, Zenon
<1>4. ASSUME step = "trial_over", Found(step) PROVE "incident" \notin firing
  <2>1. AlertWaits["trial_over"][1] = "incident"
    BY DEF AlertWaits
  <2>2. AlertWaits["trial_over"][2] = FALSE
    BY DEF AlertWaits
  <2>3. (AlertWaits["trial_over"][1] \in firing) = AlertWaits["trial_over"][2]
    BY <1>2, <1>4
  <2>4. QED
    BY <2>1, <2>2, <2>3, Zenon
<1>5. ASSUME step = "wait_incident", Found(step) PROVE batch = "processed"
  BY <1>5 DEF Found, Posts
<1>6. QED
  BY <1>3, <1>4, <1>5

-----------------------------------------------------------------------------
(* The inductive invariant. *)

LEMMA InitDrills == Init => DrillsInv
<1> SUFFICES ASSUME Init PROVE DrillsInv
  OBVIOUS
<1>0. request = "none"
  BY DEF Init
<1>1. TypeOK
  <2>1. scraped \in [up : BOOLEAN, incident : 0 .. Window, failure : 0 .. Window]
    BY DEF Init
  <2>2. incidentAge \in 0 .. Window /\ failureAge \in 0 .. Window /\ firing \subseteq Alerts
    BY DEF Init
  <2>3. step \in Steps /\ batch \in {"none", "stored", "published", "processed"}
    BY StepNames DEF Init
  <2>4. gaugeDue \in BOOLEAN /\ crashes \in Nat
    BY DEF Init
  <2>5. QED
    BY <1>0, <2>1, <2>2, <2>3, <2>4 DEF TypeOK
<1>2. Quiet
  BY DEF Init, Quiet
<1>3. GaugeInv
  BY <1>0, <1>2 DEF Init, GaugeInv, Quiet
<1>4. QED
  BY <1>0, <1>1, <1>3 DEF DrillsInv, RequestInv

(* A step of the script returns, a wait on an answer that found something. *)
LEMMA AdvanceKeeps ==
  ASSUME DrillsInv, step \in Commands \cup Posts \/ request = "found", Advance,
         UNCHANGED <<gaugeDue, incidentAge, failureAge, crashes, scraped, firing>>
  PROVE  DrillsInv'
<1>0. TypeOK /\ RequestInv /\ GaugeInv
  BY DEF DrillsInv
<1>1. Quiet' <=> Quiet
  BY DEF Quiet
<1>2. /\ (batch' = "none" /\ step' \in Posts) \/ (batch' = batch /\ step' \notin Posts)
      /\ request' = "none"
  BY DEF Advance
<1>3. step \in Commands \cup Posts \cup Waits
  BY <1>0 DEF RequestInv
<1>a. step \notin {"close", "ended"}
  BY <1>3 DEF Commands, Posts, Waits, AlertWaits
<1>b. step \in {"wait_incident", "trial_firing", "trial_over"} => request = "found"
  BY DEF Commands, Posts
<1>c. RequestInv'
  BY <1>2 DEF RequestInv
<1> DEFINE Others == Steps \ {"trial_post", "wait_incident", "trial_firing", "trial_over", "ended",
                              "setup"}
<1>4. CASE step = "trial_clear"
  <2>1. step' = "trial_post" /\ batch' = "none"
    BY <1>4, ScriptOrder DEF Advance, Posts
  <2>2. Quiet
    BY <1>0, <1>4 DEF GaugeInv, IncidentLive
  <2>3. TypeOK'
    BY <1>0, <1>2, <2>1, StepNames DEF TypeOK
  <2>4. GaugeInv'
    BY <1>0, <1>1, <1>2, <2>1, <2>2 DEF GaugeInv, Quiet, SeenFiring
  <2>5. QED
    BY <1>c, <2>3, <2>4 DEF DrillsInv
<1>5. CASE step = "trial_post"
  <2>1. step' = "wait_incident" /\ batch' = batch
    BY <1>5, ScriptOrder DEF Advance, Posts
  <2>2. TypeOK'
    BY <1>0, <1>2, <2>1, StepNames DEF TypeOK
  <2>3. GaugeInv'
    BY <1>0, <1>1, <1>2, <1>5, <2>1 DEF GaugeInv, IncidentLive, SeenFiring
  <2>4. QED
    BY <1>c, <2>2, <2>3 DEF DrillsInv
<1>6. CASE step = "wait_incident"
  <2>1. step' = "trial_firing" /\ batch' = batch /\ batch = "processed"
    BY <1>0, <1>6, <1>b, ScriptOrder DEF Advance, Posts, GaugeInv
  <2>2. TypeOK'
    BY <1>0, <1>2, <2>1, StepNames DEF TypeOK
  <2>3. GaugeInv'
    BY <1>0, <1>1, <1>2, <1>6, <2>1 DEF GaugeInv, IncidentLive, SeenFiring
  <2>4. QED
    BY <1>c, <2>2, <2>3 DEF DrillsInv
<1>7. CASE step = "trial_firing"
  <2>1. step' = "trial_over" /\ batch' = batch
    BY <1>7, ScriptOrder DEF Advance, Posts
  <2>2. SeenFiring
    BY <1>7, <1>b DEF SeenFiring
  <2>3. TypeOK'
    BY <1>0, <1>2, <2>1, StepNames DEF TypeOK
  <2>4. GaugeInv'
    BY <1>0, <1>1, <1>2, <1>7, <2>1, <2>2 DEF GaugeInv, IncidentLive
  <2>5. QED
    BY <1>c, <2>3, <2>4 DEF DrillsInv
<1>8. CASE step = "trial_over"
  <2>1. step' \in {"trial_clear", "redis_clear"} /\ batch' = batch
    BY <1>8 DEF Advance, Posts
  <2>2. Quiet
    BY <1>0, <1>8, <1>b DEF GaugeInv
  <2>3. TypeOK'
    BY <1>0, <1>2, <2>1, StepNames DEF TypeOK
  <2>4. GaugeInv'
    BY <1>0, <1>1, <1>2, <2>1, <2>2 DEF GaugeInv, Quiet, SeenFiring
  <2>5. QED
    BY <1>c, <2>3, <2>4 DEF DrillsInv
<1>9. CASE step \notin {"trial_clear", "trial_post", "wait_incident", "trial_firing", "trial_over"}
  <2>1. step' = Follows[step]
    BY <1>9 DEF Advance
  <2>2. step' \in Others
    BY <1>3, <1>9, <2>1, ScriptElsewhere
  <2>3. Quiet
    BY <1>0, <1>9, <1>a DEF GaugeInv, IncidentLive
  <2>4. TypeOK'
    BY <1>0, <1>2, <2>2 DEF TypeOK
  <2>5. GaugeInv'
    BY <1>0, <1>1, <1>2, <2>2, <2>3 DEF GaugeInv, Quiet, SeenFiring
  <2>6. QED
    BY <1>c, <2>4, <2>5 DEF DrillsInv
<1>10. QED
  BY <1>4, <1>5, <1>6, <1>7, <1>8, <1>9

(* An exception leaves run: what it saw of the incident stays as it was. *)
LEMMA RaiseKeeps ==
  ASSUME DrillsInv, Raise("timeout") \/ Raise("error"), UNCHANGED <<environment, prometheus>>
  PROVE  DrillsInv'
<1>1. /\ UNCHANGED <<batch, gaugeDue, incidentAge, failureAge, crashes, scraped, firing>>
      /\ step' = "close" /\ request' = "none"
  BY DEF environment, prometheus, Raise
<1>2. TypeOK'
  BY <1>1, StepNames DEF DrillsInv, TypeOK
<1>3. GaugeInv'
  BY <1>1 DEF DrillsInv, GaugeInv, IncidentLive, Quiet, SeenFiring
<1>4. QED
  BY <1>1, <1>2, <1>3 DEF DrillsInv, RequestInv

LEMMA NextDrills == DrillsInv /\ [Next]_vars => DrillsInv'
<1> SUFFICES ASSUME DrillsInv, [Next]_vars PROVE DrillsInv'
  OBVIOUS
<1> USE DEF environment, prometheus, harness
<1>0. TypeOK /\ RequestInv /\ GaugeInv
  BY DEF DrillsInv
<1>a. Window \in Nat
  OBVIOUS
<1>b. ASSUME UNCHANGED <<step, request, batch, gaugeDue, incidentAge, failureAge, crashes, scraped,
                         firing>>
      PROVE  DrillsInv'
  <2>1. TypeOK'
    BY <1>0, <1>b DEF TypeOK
  <2>2. RequestInv' /\ GaugeInv'
    BY <1>0, <1>b DEF RequestInv, GaugeInv, IncidentLive, Quiet, SeenFiring
  <2>3. QED
    BY <2>1, <2>2 DEF DrillsInv
<1>1. CASE Compose
  BY <1>1, <1>b DEF Compose
<1>2. CASE AcceptBatch
  <2>1. /\ step \in {"trial_post", "outage_post"} /\ batch = "none" /\ batch' = "stored"
        /\ UNCHANGED <<step, request, gaugeDue, incidentAge, failureAge, crashes, scraped, firing>>
    BY <1>2 DEF AcceptBatch, Posts
  <2>2. TypeOK'
    BY <1>0, <2>1 DEF TypeOK
  <2>3. RequestInv' /\ GaugeInv'
    BY <1>0, <2>1 DEF RequestInv, GaugeInv, IncidentLive, Quiet, SeenFiring
  <2>4. QED
    BY <2>2, <2>3 DEF DrillsInv
<1>3. CASE PollOutbox
  <2>1. failureAge' \in 0 .. Window /\ batch' \in {"stored", "published"}
    BY <1>0, <1>3 DEF PollOutbox, TypeOK
  <2>2. /\ UNCHANGED <<step, request, gaugeDue, incidentAge, crashes, scraped, firing>>
        /\ batch = "stored"
    BY <1>3 DEF PollOutbox
  <2>3. TypeOK'
    BY <1>0, <2>1, <2>2 DEF TypeOK
  <2>4. RequestInv' /\ GaugeInv'
    BY <1>0, <2>1, <2>2 DEF RequestInv, GaugeInv, IncidentLive, Quiet, SeenFiring
  <2>5. QED
    BY <2>3, <2>4 DEF DrillsInv
<1>4. CASE ProcessBatch
  <2>1. /\ batch = "published" /\ batch' = "processed"
        /\ UNCHANGED <<step, request, incidentAge, failureAge, crashes, scraped, firing>>
        /\ gaugeDue' = CreatesIncident
    BY <1>4 DEF ProcessBatch
  <2>2. gaugeDue' \in BOOLEAN /\ (gaugeDue' <=> step \in {"trial_post", "wait_incident"})
    <3>1. (step \in {"trial_post", "wait_incident"}) \in BOOLEAN
      OBVIOUS
    <3>2. QED
      BY <2>1, <3>1, Zenon DEF CreatesIncident
  <2>3. ~gaugeDue /\ (step \notin {"close", "ended"} => Quiet)
    BY <1>0, <2>1 DEF GaugeInv, IncidentLive
  <2>4. TypeOK'
    BY <1>0, <2>1, <2>2 DEF TypeOK
  <2>5. GaugeInv'
    BY <1>0, <2>1, <2>2, <2>3 DEF GaugeInv, IncidentLive, Quiet, SeenFiring
  <2>6. QED
    BY <1>0, <2>1, <2>4, <2>5 DEF DrillsInv, RequestInv
<1>5. CASE SetIncidentLastSeen
  <2>1. /\ gaugeDue /\ gaugeDue' = FALSE /\ incidentAge' = 0
        /\ UNCHANGED <<step, request, batch, failureAge, crashes, scraped, firing>>
    BY <1>5 DEF SetIncidentLastSeen
  <2>2. /\ scraped.incident = Window /\ "incident" \notin firing /\ ~Quiet
        /\ batch = "processed"
    BY <1>0, <2>1 DEF GaugeInv, Quiet
  <2>3. TypeOK'
    <3>1. incidentAge' \in 0 .. Window
      BY <1>a, <2>1
    <3>2. gaugeDue' \in BOOLEAN
      BY <2>1, Zenon
    <3>3. QED
      BY <1>0, <2>1, <3>1, <3>2, Zenon DEF TypeOK
  <2>4. IncidentLive' /\ ~SeenFiring' /\ ~(step' = "trial_over" /\ request' = "found")
    BY <1>0, <2>1, <2>2 DEF GaugeInv, IncidentLive, SeenFiring
  <2>5. GaugeInv'
    BY <1>0, <1>a, <2>1, <2>2, <2>4 DEF GaugeInv
  <2>6. QED
    BY <1>0, <2>1, <2>3, <2>5 DEF DrillsInv, RequestInv
<1>6. CASE WorkerCrashes
  <2>1. /\ gaugeDue \/ incidentAge < Window
        /\ gaugeDue' = FALSE /\ incidentAge' = Window /\ crashes' = crashes + 1
        /\ UNCHANGED <<step, request, batch, failureAge, scraped, firing>>
    BY <1>6 DEF WorkerCrashes
  <2>2. ~Quiet
    BY <1>a, <2>1 DEF Quiet
  <2>3. TypeOK'
    <3>1. incidentAge' \in 0 .. Window /\ crashes' \in Nat
      BY <1>0, <1>a, <2>1 DEF TypeOK
    <3>2. gaugeDue' \in BOOLEAN
      BY <2>1, Zenon
    <3>3. QED
      BY <1>0, <2>1, <3>1, <3>2, Zenon DEF TypeOK
  <2>4. IncidentLive' /\ (SeenFiring' => "incident" \in firing')
          /\ ~(step' = "trial_over" /\ request' = "found")
    BY <1>0, <2>1, <2>2 DEF GaugeInv, IncidentLive, SeenFiring
  <2>5. GaugeInv'
    BY <1>0, <1>a, <2>1, <2>2, <2>4 DEF GaugeInv
  <2>6. QED
    BY <1>0, <2>1, <2>3, <2>5 DEF DrillsInv, RequestInv
<1>7. CASE Scrape
  <2>1. /\ scraped' = [up |-> "api" \in running, incident |-> incidentAge, failure |-> failureAge]
        /\ UNCHANGED <<step, request, batch, gaugeDue, incidentAge, failureAge, crashes, firing>>
    BY <1>7 DEF Scrape
  <2>2. scraped'.incident = incidentAge
    BY <2>1
  <2>3. scraped' \in [up : BOOLEAN, incident : 0 .. Window, failure : 0 .. Window]
    <3>1. incidentAge \in 0 .. Window /\ failureAge \in 0 .. Window
      BY <1>0 DEF TypeOK
    <3>2. ("api" \in running) \in BOOLEAN
      OBVIOUS
    <3>3. QED
      BY <2>1, <3>1, <3>2, Zenon
  <2>4. TypeOK'
    BY <1>0, <2>1, <2>3 DEF TypeOK
  <2>5. RequestInv' /\ GaugeInv'
    BY <1>0, <2>1, <2>2 DEF RequestInv, GaugeInv, IncidentLive, Quiet, SeenFiring
  <2>6. QED
    BY <2>4, <2>5 DEF DrillsInv
<1>8. CASE Evaluate
  <2>1. /\ UNCHANGED <<step, request, batch, gaugeDue, incidentAge, failureAge, crashes, scraped>>
        /\ firing' \subseteq Alerts
        /\ "incident" \in firing' <=> scraped.incident < Window
    BY <1>8 DEF Evaluate, IsRecent, Alerts
  <2>2. scraped.incident \in 0 .. Window
    BY <1>0 DEF TypeOK
  <2>3. TypeOK'
    BY <1>0, <2>1 DEF TypeOK
  <2>4. RequestInv' /\ GaugeInv'
    BY <1>0, <1>a, <2>1, <2>2 DEF RequestInv, GaugeInv, IncidentLive, Quiet, SeenFiring
  <2>5. QED
    BY <2>3, <2>4 DEF DrillsInv
<1>9. CASE Return
  BY <1>9, AdvanceKeeps DEF Return
<1>10. CASE Send
  <2>1. /\ step \in Waits /\ request = "none" /\ request' = "sent"
        /\ UNCHANGED <<step, batch, gaugeDue, incidentAge, failureAge, crashes, scraped, firing>>
    BY <1>10 DEF Send
  <2>2. TypeOK'
    BY <1>0, <2>1 DEF TypeOK
  <2>3. RequestInv' /\ GaugeInv'
    BY <1>0, <2>1 DEF RequestInv, GaugeInv, IncidentLive, Quiet, SeenFiring
  <2>4. QED
    BY <2>2, <2>3 DEF DrillsInv
<1>11. CASE Serve
  <2>1. /\ request = "sent" /\ request' \in {"found", "missed"}
        /\ request' = "found" => Found(step)
        /\ UNCHANGED <<step, batch, gaugeDue, incidentAge, failureAge, crashes, scraped, firing>>
    BY <1>11 DEF Serve
  <2>2. TypeOK'
    BY <1>0, <2>1 DEF TypeOK
  <2>3. request' = "found" =>
          /\ step = "trial_firing" => "incident" \in firing
          /\ step = "trial_over" => "incident" \notin firing
          /\ step = "wait_incident" => batch = "processed"
    BY <2>1, AlertFound
  <2>4. RequestInv' /\ GaugeInv'
    BY <1>0, <2>1, <2>3 DEF RequestInv, GaugeInv, IncidentLive, Quiet, SeenFiring
  <2>5. QED
    BY <2>2, <2>4 DEF DrillsInv
<1>12. CASE Receive
  <2>1. CASE request = "found" /\ Advance
    BY <1>12, <2>1, AdvanceKeeps DEF Receive
  <2>2. CASE ~(request = "found" /\ Advance)
    <3>1. /\ request' = "none"
          /\ UNCHANGED <<step, batch, gaugeDue, incidentAge, failureAge, crashes, scraped, firing>>
      BY <1>12, <2>2 DEF Receive
    <3>2. TypeOK'
      BY <1>0, <3>1 DEF TypeOK
    <3>3. RequestInv' /\ GaugeInv'
      BY <1>0, <3>1 DEF RequestInv, GaugeInv, IncidentLive, Quiet, SeenFiring
    <3>4. QED
      BY <3>2, <3>3 DEF DrillsInv
  <2>3. QED
    BY <2>1, <2>2
<1>13. CASE GiveUp
  BY <1>13, RaiseKeeps DEF GiveUp
<1>14. CASE Fail
  <2>1. CASE Raise("error")
    BY <1>14, <2>1, RaiseKeeps DEF Fail
  <2>2. CASE ~Raise("error")
    <3>1. /\ request' = "none"
          /\ UNCHANGED <<step, batch, gaugeDue, incidentAge, failureAge, crashes, scraped, firing>>
      BY <1>14, <2>2 DEF Fail
    <3>2. TypeOK'
      BY <1>0, <3>1 DEF TypeOK
    <3>3. RequestInv' /\ GaugeInv'
      BY <1>0, <3>1 DEF RequestInv, GaugeInv, IncidentLive, Quiet, SeenFiring
    <3>4. QED
      BY <3>2, <3>3 DEF DrillsInv
  <2>3. QED
    BY <2>1, <2>2
<1>15. CASE Close
  <2>1. /\ step = "close" /\ step' = "ended"
        /\ UNCHANGED <<request, batch, gaugeDue, incidentAge, failureAge, crashes, scraped, firing>>
    BY <1>15 DEF Close
  <2>2. request = "none"
    BY <1>0, <2>1 DEF RequestInv, Waits, AlertWaits
  <2>3. TypeOK'
    BY <1>0, <2>1, StepNames DEF TypeOK
  <2>4. RequestInv' /\ GaugeInv'
    BY <1>0, <2>1, <2>2 DEF RequestInv, GaugeInv, IncidentLive, Quiet, SeenFiring
  <2>5. QED
    BY <2>3, <2>4 DEF DrillsInv
<1>16. CASE Tick
  <2>1. /\ ~gaugeDue /\ UNCHANGED <<step, request, batch, gaugeDue, crashes, firing>>
        /\ incidentAge' = Older(incidentAge) /\ failureAge' = Older(failureAge)
        /\ scraped' = [scraped EXCEPT !.incident = Older(@), !.failure = Older(@)]
    BY <1>16 DEF Tick, TickDone
  <2>2. /\ incidentAge \in 0 .. Window /\ failureAge \in 0 .. Window
        /\ scraped.incident \in 0 .. Window /\ scraped.failure \in 0 .. Window
    BY <1>0 DEF TypeOK
  <2>3. \A age \in 0 .. Window : Older(age) \in 0 .. Window /\ (age = Window => Older(age) = Window)
    BY <1>a DEF Older
  <2>4. scraped'.incident = Older(scraped.incident) /\ scraped'.failure = Older(scraped.failure)
    BY <1>0, <2>1 DEF TypeOK
  <2>5. scraped' \in [up : BOOLEAN, incident : 0 .. Window, failure : 0 .. Window]
    BY <1>0, <2>1, <2>2, <2>3 DEF TypeOK
  <2>6. scraped'.incident < Window => scraped.incident < Window
    BY <1>a, <2>2, <2>4 DEF Older
  <2>7. TypeOK'
    BY <1>0, <2>1, <2>2, <2>3, <2>5 DEF TypeOK
  <2>8. Quiet => Quiet'
    BY <1>a, <2>1, <2>2, <2>3, <2>4 DEF Quiet
  <2>9. RequestInv' /\ GaugeInv'
    BY <1>0, <2>1, <2>2, <2>3, <2>4, <2>6, <2>8 DEF RequestInv, GaugeInv, IncidentLive, SeenFiring
  <2>10. QED
    BY <2>7, <2>9 DEF DrillsInv
<1>17. CASE UNCHANGED vars
  BY <1>17, <1>b DEF vars
<1>18. QED
  BY <1>1, <1>2, <1>3, <1>4, <1>5, <1>6, <1>7, <1>8, <1>9, <1>10, <1>11, <1>12, <1>13,
     <1>14, <1>15, <1>16, <1>17 DEF Next, Harness

(* The inductive invariant of the drills, whatever the phases of scrapes   *)
(* and evaluations, the delays of deliveries and requests, and the crashes. *)
THEOREM DrillsInductive == Spec => []DrillsInv
  BY InitDrills, NextDrills, PTL DEF Spec

(* Before its own incident is committed a trial finds no alert, and none   *)
(* is on its way.                                                          *)
THEOREM IndependentTrials == Spec => []TrialsAreIndependent
<1>1. DrillsInv => TrialsAreIndependent
  <2> SUFFICES ASSUME DrillsInv, step \in {"trial_post", "wait_incident"}, batch # "processed"
               PROVE  /\ "incident" \notin firing
                      /\ ~IsRecent(incidentAge) /\ ~IsRecent(scraped.incident)
    BY DEF TrialsAreIndependent
  <2>1. Quiet
    BY DEF DrillsInv, GaugeInv, IncidentLive
  <2>2. QED
    BY <2>1 DEF Quiet, IsRecent
<1>2. QED
  BY <1>1, DrillsInductive, PTL

-----------------------------------------------------------------------------
(* Every gauge is alerted. *)

LEMMA InitAlerts == Init => AlertsInv
<1> SUFFICES ASSUME Init PROVE AlertsInv
  OBVIOUS
<1>1. DrillsInv
  BY InitDrills
<1>2. /\ scrapeIn \in 1 .. Interval /\ evaluateIn \in 1 .. Interval
      /\ step = "setup" /\ batch = "none" /\ incidentAge = Window /\ failureAge = Window
  BY DEF Init
<1>3. PrometheusInv
  BY <1>2 DEF PrometheusInv
<1>4. QED
  BY <1>1, <1>2, <1>3 DEF AlertsInv, Alerted

(* A step of the script leads past setup, which leaves Prometheus running. *)
LEMMA AdvanceRuns ==
  ASSUME DrillsInv, PrometheusInv, step \in Commands \cup Posts \/ request = "found",
         step = "setup" => "prometheus" \in running, Advance,
         UNCHANGED <<running, scrapeIn, evaluateIn>>
  PROVE  PrometheusInv'
<1>1. step \in Commands \cup Posts \cup Waits
  BY DEF DrillsInv, RequestInv
<1>2. step \notin {"close", "ended"}
  BY <1>1 DEF Commands, Posts, Waits, AlertWaits
<1>3. step' # "setup"
  <2>1. CASE step = "trial_over"
    BY <2>1 DEF Advance
  <2>2. CASE step # "trial_over"
    <3>1. step' = Follows[step]
      BY <2>2 DEF Advance
    <3>2. QED
      BY <1>1, <2>2, <3>1, ScriptOrder, ScriptElsewhere
  <2>3. QED
    BY <2>1, <2>2
<1>4. "prometheus" \in running
  BY <1>2 DEF PrometheusInv
<1>5. QED
  BY <1>3, <1>4 DEF PrometheusInv

LEMMA NextPrometheus == DrillsInv /\ PrometheusInv /\ [Next]_vars => PrometheusInv'
<1> SUFFICES ASSUME DrillsInv, PrometheusInv, [Next]_vars PROVE PrometheusInv'
  OBVIOUS
<1> USE DEF environment, prometheus, harness
<1>0. Interval \in Nat \ {0}
  OBVIOUS
<1>a. ASSUME UNCHANGED <<running, failureAge, batch, scrapeIn, evaluateIn>>,
             step' = step \/ step' \in {"close", "ended"}
      PROVE  PrometheusInv'
  BY <1>a DEF PrometheusInv
<1>1. CASE Compose
  BY <1>1 DEF Compose, PrometheusInv, Services
<1>2. CASE AcceptBatch \/ PollOutbox \/ ProcessBatch
  <2>1. step # "setup"
    BY <1>2 DEF AcceptBatch, PollOutbox, ProcessBatch, PrometheusInv, Posts
  <2>2. UNCHANGED <<running, scrapeIn, evaluateIn, step>>
    BY <1>2 DEF AcceptBatch, PollOutbox, ProcessBatch
  <2>3. QED
    BY <2>1, <2>2 DEF PrometheusInv
<1>3. CASE SetIncidentLastSeen \/ WorkerCrashes
  BY <1>3, <1>a DEF SetIncidentLastSeen, WorkerCrashes
<1>4. CASE Scrape \/ Evaluate
  BY <1>0, <1>4 DEF Scrape, Evaluate, PrometheusInv
<1>5. CASE Return
  <2>1. step = "setup" => "prometheus" \in running
    BY <1>5, SetupFound DEF Return
  <2>2. QED
    BY <1>5, <2>1, AdvanceRuns DEF Return
<1>6. CASE Send \/ Serve
  BY <1>6, <1>a DEF Send, Serve
<1>7. CASE Receive
  <2>1. CASE request = "found" /\ Advance
    <3>1. step # "setup"
      BY <2>1 DEF DrillsInv, RequestInv, Waits, AlertWaits
    <3>2. QED
      BY <1>7, <2>1, <3>1, AdvanceRuns DEF Receive
  <2>2. CASE ~(request = "found" /\ Advance)
    BY <1>7, <1>a, <2>2 DEF Receive
  <2>3. QED
    BY <2>1, <2>2
<1>8. CASE GiveUp \/ Fail
  BY <1>8, <1>a DEF GiveUp, Fail, Raise
<1>9. CASE Close
  BY <1>9 DEF Close, PrometheusInv
<1>10. CASE Tick
  <2>1. /\ "prometheus" \in running => scrapeIn > 0 /\ evaluateIn > 0
        /\ \/ scrapeIn' = scrapeIn - 1 /\ evaluateIn' = evaluateIn - 1 /\ "prometheus" \in running
           \/ scrapeIn' = scrapeIn /\ evaluateIn' = evaluateIn
        /\ UNCHANGED <<running, batch, step>> /\ failureAge' = Older(failureAge)
    BY <1>10 DEF Tick, TickDone
  <2>2. scrapeIn' \in 0 .. Interval /\ evaluateIn' \in 0 .. Interval
    BY <1>0, <2>1 DEF PrometheusInv
  <2>3. failureAge = Window => failureAge' = Window
    BY <2>1 DEF Older
  <2>4. QED
    BY <2>1, <2>2, <2>3 DEF PrometheusInv
<1>11. CASE UNCHANGED vars
  BY <1>11, <1>a DEF vars
<1>12. QED
  BY <1>1, <1>2, <1>3, <1>4, <1>5, <1>6, <1>7, <1>8, <1>9, <1>10, <1>11 DEF Next, Harness

(* A scrape sees the gauge: what it was due for is now the evaluation's. *)
LEMMA ScrapeAlerts ==
  ASSUME PrometheusInv, Scrape, NEW alert, NEW age \in 0 .. Window, NEW seen \in 0 .. Window,
         Alerted(alert, age, seen)
  PROVE  age < Window /\ alert \notin firing' => age + evaluateIn' <= 2 * Interval
<1>1. /\ scrapeIn = 0 /\ UNCHANGED <<evaluateIn, firing>>
      /\ evaluateIn \in 0 .. Interval /\ Interval \in Nat /\ Window \in Nat
  BY DEF Scrape, PrometheusInv
<1>2. CASE seen = age
  BY <1>1, <1>2 DEF Alerted
<1>3. CASE seen # age
  BY <1>1, <1>3 DEF Alerted
<1>4. QED
  BY <1>2, <1>3

(* While Prometheus runs the age grows as fast as the time left shrinks. *)
LEMMA TickAlerts ==
  ASSUME PrometheusInv, Tick, NEW alert, NEW age \in 0 .. Window, NEW seen \in 0 .. Window,
         step = "setup" => age = Window, Alerted(alert, age, seen)
  PROVE  /\ Older(age) < Window /\ Older(seen) # Older(age) => Older(age) + scrapeIn' <= Interval
         /\ Older(age) < Window /\ Older(seen) = Older(age) /\ alert \notin firing'
              => Older(age) + evaluateIn' <= 2 * Interval
<1>1. Window \in Nat /\ Interval \in Nat /\ scrapeIn \in 0 .. Interval /\ evaluateIn \in 0 .. Interval
  BY DEF PrometheusInv
<1>2. CASE step = "setup"
  BY <1>1, <1>2 DEF Older
<1>3. CASE step # "setup"
  <2>1. "prometheus" \in running
    BY <1>3 DEF Tick, TickDone, PrometheusInv
  <2>2. scrapeIn' = scrapeIn - 1 /\ evaluateIn' = evaluateIn - 1 /\ firing' = firing
    BY <2>1 DEF Tick
  <2>3. ASSUME Older(age) < Window
        PROVE  /\ age < Window /\ Older(age) = age + 1
               /\ Older(seen) = Older(age) <=> seen = age
    BY <1>1, <2>3 DEF Older
  <2>4. QED
    BY <1>1, <2>2, <2>3 DEF Alerted
<1>4. QED
  BY <1>2, <1>3

LEMMA NextAlerts == AlertsInv /\ [Next]_vars => AlertsInv'
<1> SUFFICES ASSUME AlertsInv, [Next]_vars PROVE AlertsInv'
  OBVIOUS
<1> USE DEF environment, prometheus, harness
<1>0. /\ DrillsInv /\ PrometheusInv /\ TypeOK /\ GaugeInv
      /\ crashes = 0 => Alerted("incident", incidentAge, scraped.incident)
      /\ Alerted("outbox", failureAge, scraped.failure)
  BY DEF AlertsInv, DrillsInv
<1>1. DrillsInv' /\ PrometheusInv'
  BY <1>0, NextDrills, NextPrometheus
<1>2. /\ incidentAge \in 0 .. Window /\ failureAge \in 0 .. Window /\ crashes \in Nat
      /\ scraped.incident \in 0 .. Window /\ scraped.failure \in 0 .. Window
      /\ Window \in Nat /\ Interval \in Nat
  BY <1>0 DEF TypeOK
<1>3. /\ scrapeIn \in 0 .. Interval /\ evaluateIn \in 0 .. Interval
  BY <1>0 DEF PrometheusInv
<1> DEFINE IncidentAlerted == crashes = 0 => Alerted("incident", incidentAge, scraped.incident)
           OutboxAlerted == Alerted("outbox", failureAge, scraped.failure)
<1>4. SUFFICES IncidentAlerted' /\ OutboxAlerted'
  BY <1>1 DEF AlertsInv
<1>a. UNCHANGED <<scrapeIn, evaluateIn, scraped, firing, incidentAge, crashes>> => IncidentAlerted'
  BY <1>0 DEF Alerted
<1>b. UNCHANGED <<scrapeIn, evaluateIn, scraped, firing, failureAge>> => OutboxAlerted'
  BY <1>0 DEF Alerted
<1>5. CASE UNCHANGED <<scrapeIn, evaluateIn, scraped, firing, incidentAge, failureAge, crashes>>
  BY <1>5, <1>a, <1>b
<1>6. CASE PollOutbox
  <2>1. UNCHANGED <<scrapeIn, evaluateIn, scraped, firing, incidentAge, crashes>>
    BY <1>6 DEF PollOutbox
  <2>2. failureAge' = 0 \/ failureAge' = failureAge
    BY <1>6 DEF PollOutbox
  <2>3. OutboxAlerted'
    BY <1>0, <1>2, <1>3, <2>1, <2>2 DEF Alerted
  <2>4. QED
    BY <1>a, <2>1, <2>3
<1>7. CASE SetIncidentLastSeen
  <2>1. incidentAge' = 0 /\ UNCHANGED <<scrapeIn, evaluateIn, scraped, firing, failureAge>>
    BY <1>7 DEF SetIncidentLastSeen
  <2>2. IncidentAlerted'
    BY <1>2, <1>3, <2>1 DEF Alerted
  <2>3. QED
    BY <1>b, <2>1, <2>2
<1>8. CASE WorkerCrashes
  <2>1. crashes' # 0 /\ UNCHANGED <<scrapeIn, evaluateIn, scraped, firing, failureAge>>
    BY <1>2, <1>8 DEF WorkerCrashes
  <2>2. QED
    BY <1>b, <2>1
<1>9. CASE Scrape
  <2>1. /\ scraped'.incident = incidentAge /\ scraped'.failure = failureAge
        /\ UNCHANGED <<incidentAge, failureAge, crashes>>
    BY <1>9 DEF Scrape
  <2>2. OutboxAlerted'
    <3>1. failureAge < Window /\ "outbox" \notin firing' => failureAge + evaluateIn' <= 2 * Interval
      BY <1>0, <1>2, <1>9, ScrapeAlerts
    <3>2. QED
      BY <2>1, <3>1 DEF Alerted
  <2>3. IncidentAlerted'
    <3>1. ASSUME crashes = 0
          PROVE  incidentAge < Window /\ "incident" \notin firing'
                   => incidentAge + evaluateIn' <= 2 * Interval
      BY <1>0, <1>2, <1>9, <3>1, ScrapeAlerts
    <3>2. QED
      BY <2>1, <3>1 DEF Alerted
  <2>4. QED
    BY <2>2, <2>3
<1>10. CASE Evaluate
  <2>1. /\ UNCHANGED <<scrapeIn, scraped, incidentAge, failureAge, crashes>>
        /\ scraped.incident < Window => "incident" \in firing'
        /\ scraped.failure < Window => "outbox" \in firing'
    BY <1>10 DEF Evaluate, IsRecent, Alerts
  <2>2. QED
    BY <1>0, <2>1 DEF Alerted
<1>11. CASE Tick
  <2>1. /\ incidentAge' = Older(incidentAge) /\ failureAge' = Older(failureAge)
        /\ scraped' = [scraped EXCEPT !.incident = Older(@), !.failure = Older(@)]
        /\ crashes' = crashes
    BY <1>11 DEF Tick
  <2>2. scraped'.incident = Older(scraped.incident) /\ scraped'.failure = Older(scraped.failure)
    BY <1>0, <2>1 DEF TypeOK
  <2>3. step = "setup" => incidentAge = Window /\ failureAge = Window
    BY <1>0 DEF GaugeInv, IncidentLive, Quiet, PrometheusInv
  <2>4. OutboxAlerted'
    <3>1. /\ Older(failureAge) < Window /\ Older(scraped.failure) # Older(failureAge)
               => Older(failureAge) + scrapeIn' <= Interval
          /\ Older(failureAge) < Window /\ Older(scraped.failure) = Older(failureAge)
               /\ "outbox" \notin firing' => Older(failureAge) + evaluateIn' <= 2 * Interval
      BY <1>0, <1>2, <1>11, <2>3, TickAlerts
    <3>2. QED
      BY <2>1, <2>2, <3>1 DEF Alerted
  <2>5. IncidentAlerted'
    <3>1. ASSUME crashes = 0
          PROVE  /\ Older(incidentAge) < Window /\ Older(scraped.incident) # Older(incidentAge)
                      => Older(incidentAge) + scrapeIn' <= Interval
                 /\ Older(incidentAge) < Window /\ Older(scraped.incident) = Older(incidentAge)
                      /\ "incident" \notin firing'
                      => Older(incidentAge) + evaluateIn' <= 2 * Interval
      BY <1>0, <1>2, <1>11, <2>3, <3>1, TickAlerts
    <3>2. QED
      BY <2>1, <2>2, <3>1 DEF Alerted
  <2>6. QED
    BY <2>4, <2>5
<1>12. CASE Compose \/ AcceptBatch \/ ProcessBatch \/ Harness
  <2>1. UNCHANGED <<scrapeIn, evaluateIn, scraped, firing, incidentAge, failureAge, crashes>>
    BY <1>12 DEF Compose, AcceptBatch, ProcessBatch, Harness, Return, Send, Serve, Receive, GiveUp,
                 Fail, Close
  <2>2. QED
    BY <1>5, <2>1
<1>13. CASE UNCHANGED vars
  BY <1>5, <1>13 DEF vars
<1>14. QED
  BY <1>6, <1>7, <1>8, <1>9, <1>10, <1>11, <1>12, <1>13 DEF Next

(* A gauge younger than its last scrape waits for the next one, an         *)
(* unalerted one for the next evaluation, and neither for longer than an   *)
(* interval: the inductive invariant behind GaugesAreAlerted.              *)
THEOREM AlertsInductive == Spec => []AlertsInv
  BY InitAlerts, NextAlerts, PTL DEF Spec

(* For every interval and window, and whatever the phases: a timestamp of  *)
(* a worker or of the relay raises its alert within two intervals.         *)
THEOREM GaugesAlerted == Spec => []GaugesAreAlerted
<1>1. AlertsInv => GaugesAreAlerted
  <2> SUFFICES ASSUME AlertsInv PROVE GaugesAreAlerted
    OBVIOUS
  <2>1. /\ incidentAge \in 0 .. Window /\ failureAge \in 0 .. Window
        /\ scrapeIn \in 0 .. Interval /\ evaluateIn \in 0 .. Interval
        /\ Window \in Nat /\ Interval \in Nat
    BY DEF AlertsInv, DrillsInv, TypeOK, PrometheusInv
  <2>2. ASSUME NEW alert, NEW age \in 0 .. Window, NEW seen, Alerted(alert, age, seen),
               2 * Interval < age, age < Window
        PROVE  alert \in firing
    <3>1. CASE seen = age
      BY <2>1, <2>2, <3>1 DEF Alerted
    <3>2. CASE seen # age
      BY <2>1, <2>2, <3>2 DEF Alerted
    <3>3. QED
      BY <3>1, <3>2
  <2>3. crashes = 0 /\ 2 * Interval < incidentAge /\ incidentAge < Window => "incident" \in firing
    BY <2>1, <2>2 DEF AlertsInv
  <2>4. 2 * Interval < failureAge /\ failureAge < Window => "outbox" \in firing
    BY <2>1, <2>2 DEF AlertsInv
  <2>5. QED
    BY <2>3, <2>4 DEF GaugesAreAlerted
<1>2. QED
  BY <1>1, AlertsInductive, PTL
=============================================================================
