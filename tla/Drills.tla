------------------------------- MODULE Drills -------------------------------
(***************************************************************************)
(* The failure drills of tools/reliability_runner.py against the alerts of *)
(* observability/prometheus: the harness injects an API outage, threshold  *)
(* incidents and a Redis outage and waits for the alert of each to fire    *)
(* and to clear.                                                           *)
(*                                                                         *)
(* Time is discrete.  Gauges that hold a timestamp are kept as their age,  *)
(* capped at the width of the alert's window, beyond which ages are not    *)
(* told apart.  Within a tick the processes run in any order; a tick ends  *)
(* once the scrape and the evaluation due in it have happened.  Everything *)
(* else may take any time: the delivery of the drill's batch, whose own    *)
(* steps are module Delivery's, the requests of the harness, whose answers *)
(* it may receive long after they were given, and docker's commands, which *)
(* may hang.                                                               *)
(***************************************************************************)
EXTENDS Integers

CONSTANTS
    Repetitions,     \* incident_repetitions
    Interval,        \* scrape_interval and evaluation_interval
    Window,          \* age below which a last-seen timestamp raises an alert
    HoldFor,         \* "for" of FleetPulseAPITargetDown
    AlertTimeout,    \* timeout of wait_alert
    ReadyTimeout,    \* timeout of wait_api and of the recovery poll
    ShortTimeout,    \* timeout of wait_prometheus and of wait_incident
    MaxCrashes       \* bound: worker crashes explored

ASSUME PeriodsAssumption ==
    /\ Interval \in Nat \ {0} /\ Window \in Nat /\ HoldFor \in Nat
    /\ Repetitions \in Nat \ {0} /\ MaxCrashes \in Nat
    /\ {AlertTimeout, ReadyTimeout, ShortTimeout} \subseteq Nat \ {0}

Services == {"api", "redis", "prometheus"}
Alerts   == {"target_down", "incident", "outbox"}

VARIABLES
    (* the environment *)
    running,      \* services that are up
    batch,        \* the drill's telemetry batch
    gaugeDue,     \* the worker is between its commit and INCIDENT_LAST_SEEN
    incidentAge,  \* of INCIDENT_LAST_SEEN
    failureAge,   \* of OUTBOX_LAST_FAILURE
    crashes,
    (* Prometheus *)
    scrapeIn,     \* time to the next scrape
    evaluateIn,   \* time to the next evaluation of the rules
    scraped,      \* up of the API, the gauges of the worker and the relay
    pendingFor,   \* how long FleetPulseAPITargetDown's condition has held
    firing,       \* alerts in state firing
    (* the harness *)
    step,         \* the call of the harness in progress
    waited,       \* how long a wait has lasted, capped at its timeout
    request,      \* its request: none, sent, or answered with what it is to find
    trial,        \* repetition of the incident drill
    outcome       \* how the run ended

environment == <<running, batch, gaugeDue, incidentAge, failureAge, crashes>>
prometheus  == <<scrapeIn, evaluateIn, scraped, pendingFor, firing>>
harness     == <<step, waited, request, trial, outcome>>
vars        == <<environment, prometheus, harness>>

-----------------------------------------------------------------------------
(* The script: setup, then run's three drills. *)

(* docker compose, and the SQL checks. *)
Commands == {"setup", "api_stop", "api_start", "redis_stop", "rows",
             "redis_start", "verify"}

(* post_telemetry. *)
Posts == {"trial_post", "outage_post"}

(* wait_alert: the alert, and whether it is to fire. *)
AlertWaits ==
    [api_clear    |-> <<"target_down", FALSE>>,
     api_firing   |-> <<"target_down", TRUE>>,
     api_cleared  |-> <<"target_down", FALSE>>,
     trial_clear  |-> <<"incident", FALSE>>,
     trial_firing |-> <<"incident", TRUE>>,
     trial_over   |-> <<"incident", FALSE>>,
     redis_clear  |-> <<"outbox", FALSE>>,
     redis_firing |-> <<"outbox", TRUE>>,
     redis_over   |-> <<"outbox", FALSE>>]

Waits == DOMAIN AlertWaits \cup
           {"wait_api", "wait_prometheus", "api_back", "wait_incident", "recovery"}

Steps == Commands \cup Posts \cup Waits \cup {"close", "ended"}

(* What follows a step, but for the trials' loop. *)
Follows ==
    [setup |-> "wait_api", wait_api |-> "wait_prometheus",
     wait_prometheus |-> "api_clear",
     api_clear |-> "api_stop", api_stop |-> "api_firing",
     api_firing |-> "api_start", api_start |-> "api_back",
     api_back |-> "api_cleared", api_cleared |-> "trial_clear",
     trial_clear |-> "trial_post", trial_post |-> "wait_incident",
     wait_incident |-> "trial_firing", trial_firing |-> "trial_over",
     redis_clear |-> "redis_stop", redis_stop |-> "outage_post",
     outage_post |-> "rows", rows |-> "redis_firing",
     redis_firing |-> "redis_start", redis_start |-> "recovery",
     recovery |-> "verify", verify |-> "redis_over", redis_over |-> "close"]

(* wait_api and wait_prometheus catch the errors of their requests. *)
Retried == {"wait_api", "wait_prometheus", "api_back"}

Timeout(s) ==
    CASE s \in DOMAIN AlertWaits -> AlertTimeout
      [] s \in {"wait_prometheus", "wait_incident"} -> ShortTimeout
      [] OTHER -> ReadyTimeout

-----------------------------------------------------------------------------
Init ==
    /\ running = {}
    /\ batch = "none"
    /\ gaugeDue = FALSE
    /\ incidentAge = Window
    /\ failureAge = Window
    /\ crashes = 0
    /\ scrapeIn \in 1 .. Interval
    /\ evaluateIn \in 1 .. Interval
    /\ scraped = [up |-> FALSE, incident |-> Window, failure |-> Window]
    /\ pendingFor = 0
    /\ firing = {}
    /\ step = "setup"
    /\ waited = 0
    /\ request = "none"
    /\ trial = 1
    /\ outcome = "running"

-----------------------------------------------------------------------------
(* The services the drills exercise. *)

(* What docker compose does to the services in the course of a command.    *)
Compose ==
    /\ \/ step = "setup"       /\ running' = Services
       \/ step = "api_stop"    /\ running' = running \ {"api"}
       \/ step = "api_start"   /\ running' = running \cup {"api"}
       \/ step = "redis_stop"  /\ running' = running \ {"redis"}
       \/ step = "redis_start" /\ running' = running \cup {"redis"}
    /\ running' # running
    /\ UNCHANGED <<batch, gaugeDue, incidentAge, failureAge, crashes,
                   prometheus, harness>>

(* ingest_batch commits the posted batch: PostgreSQL only. *)
AcceptBatch ==
    /\ step \in Posts
    /\ batch = "none"
    /\ "api" \in running
    /\ batch' = "stored"
    /\ UNCHANGED <<running, gaugeDue, incidentAge, failureAge, crashes, prometheus,
                   harness>>

(* A poll of the relay that finds the row.  Without Redis it raises, which *)
(* sets OUTBOX_LAST_FAILURE; a poll of an empty outbox never meets Redis.  *)
PollOutbox ==
    /\ batch = "stored"
    /\ IF "redis" \in running
         THEN batch' = "published" /\ UNCHANGED failureAge
         ELSE failureAge' = 0 /\ UNCHANGED batch
    /\ UNCHANGED <<running, gaugeDue, incidentAge, crashes, prometheus, harness>>

(* A trial's batch is far above the CPU threshold, the outage's below it.  *)
CreatesIncident == step \in {"trial_post", "wait_incident"}

(* process_event commits: the incident of a trial's batch is queryable.    *)
ProcessBatch ==
    /\ batch = "published"
    /\ "redis" \in running
    /\ batch' = "processed"
    /\ gaugeDue' = CreatesIncident
    /\ UNCHANGED <<running, incidentAge, failureAge, crashes, prometheus,
                   harness>>

(* The gauge is set after the transaction, for a created incident. *)
SetIncidentLastSeen ==
    /\ gaugeDue
    /\ gaugeDue' = FALSE
    /\ incidentAge' = 0
    /\ UNCHANGED <<running, batch, failureAge, crashes, prometheus, harness>>

(* A worker process dies and is restarted: its gauge starts at zero, and   *)
(* redelivery finds the event processed.  A crash at another time changes  *)
(* nothing here but the time the delivery takes.                           *)
WorkerCrashes ==
    /\ crashes < MaxCrashes
    /\ running # {}
    /\ gaugeDue \/ incidentAge < Window
    /\ gaugeDue' = FALSE
    /\ incidentAge' = Window
    /\ crashes' = crashes + 1
    /\ UNCHANGED <<running, batch, failureAge, prometheus, harness>>

-----------------------------------------------------------------------------
(* Prometheus: external, configured by prometheus.yml and slo.yml. *)

(* The targets are scraped at phases of their own; no drill depends on     *)
(* more than one of them, so one phase stands for each.                    *)
Scrape ==
    /\ "prometheus" \in running
    /\ scrapeIn = 0
    /\ scrapeIn' = Interval
    /\ scraped' = [up |-> "api" \in running, incident |-> incidentAge,
                   failure |-> failureAge]
    /\ UNCHANGED <<environment, evaluateIn, pendingFor, firing, harness>>

(* Mutant: a window of one interval. *)
IsRecentNarrow(age) == age < Interval

(* time() - timestamp < 15. *)
IsRecent(age) == age < Window

(* FleetPulseAPITargetDown holds its condition, true from the start for    *)
(* want of a sample, for a while before it fires.                          *)
Evaluate ==
    /\ "prometheus" \in running
    /\ evaluateIn = 0
    /\ evaluateIn' = Interval
    /\ pendingFor' = IF scraped.up THEN 0 ELSE IF pendingFor = 0 THEN 1 ELSE pendingFor
    /\ firing' = {a \in Alerts :
                    \/ a = "target_down" /\ ~scraped.up /\ pendingFor > HoldFor
                    \/ a = "incident" /\ IsRecent(scraped.incident)
                    \/ a = "outbox" /\ IsRecent(scraped.failure)}
    /\ UNCHANGED <<environment, scrapeIn, scraped, harness>>

-----------------------------------------------------------------------------
(* The harness. *)

(* A step of the script returns and the next begins; a post begins with a  *)
(* new batch.                                                              *)
Advance ==
    LET loop == step = "trial_over" /\ trial < Repetitions
        next == IF step = "trial_over"
                  THEN IF loop THEN "trial_clear" ELSE "redis_clear"
                  ELSE Follows[step] IN
    /\ step' = next
    /\ waited' = 0
    /\ request' = "none"
    /\ trial' = IF loop THEN trial + 1 ELSE trial
    /\ outcome' = IF next = "close" THEN "passed" ELSE outcome
    /\ batch' = IF next \in Posts THEN "none" ELSE batch

(* An exception leaves run for close. *)
Raise(why) ==
    /\ step' = "close"
    /\ outcome' = why
    /\ request' = "none"
    /\ UNCHANGED <<waited, trial>>

(* What a command, a post or a wait's request has to find. *)
Found(s) ==
    CASE s \in {"setup", "wait_prometheus"} -> "prometheus" \in running
      [] s \in {"wait_api", "api_start", "api_back"} -> "api" \in running
      [] s = "api_stop" -> "api" \notin running
      [] s = "redis_stop" -> "redis" \notin running
      [] s = "redis_start" -> "redis" \in running
      [] s \in Posts \cup {"rows"} -> batch # "none"
      [] s \in {"wait_incident", "recovery", "verify"} -> batch = "processed"
      [] OTHER -> (AlertWaits[s][1] \in firing) = AlertWaits[s][2]

(* A command or a post that succeeds. *)
Return ==
    /\ step \in Commands \cup Posts
    /\ Found(step)
    /\ Advance
    /\ UNCHANGED <<running, gaugeDue, incidentAge, failureAge, crashes, prometheus>>

(* Mutant: the deadline is not tested. *)
SendForEver ==
    /\ step \in Waits
    /\ request = "none"
    /\ request' = "sent"
    /\ UNCHANGED <<environment, prometheus, step, waited, trial, outcome>>

(* A wait tests its deadline, and only then sends its next request. *)
Send ==
    /\ step \in Waits
    /\ request = "none"
    /\ waited < Timeout(step)
    /\ request' = "sent"
    /\ UNCHANGED <<environment, prometheus, step, waited, trial, outcome>>

(* Mutant: waiting for an alert to clear is not waiting. *)
ServeNoClear ==
    /\ request = "sent"
    /\ request' = IF Found(step) \/ (step \in DOMAIN AlertWaits /\ ~AlertWaits[step][2])
                    THEN "found" ELSE "missed"
    /\ UNCHANGED <<environment, prometheus, step, waited, trial, outcome>>

(* The API, Prometheus or PostgreSQL answers with the state of this moment. *)
Serve ==
    /\ request = "sent"
    /\ request' = IF Found(step) THEN "found" ELSE "missed"
    /\ UNCHANGED <<environment, prometheus, step, waited, trial, outcome>>

(* The answer arrives, whatever has changed since and however late it is:  *)
(* it counts after the deadline, too.                                      *)
Receive ==
    /\ \/ request = "found" /\ Advance
       \/ /\ request = "missed" /\ request' = "none"
          /\ UNCHANGED <<batch, step, waited, trial, outcome>>
    /\ UNCHANGED <<running, gaugeDue, incidentAge, failureAge, crashes, prometheus>>

(* The deadline has passed when a wait tests it. *)
GiveUp ==
    /\ step \in Waits
    /\ request = "none"
    /\ waited >= Timeout(step)
    /\ Raise("timeout")
    /\ UNCHANGED <<environment, prometheus>>

(* A command or a request fails: an error, or a timeout of httpx. *)
Fail ==
    /\ \/ step \notin Retried \cup {"close", "ended"} /\ Raise("error")
       \/ /\ step \in Retried /\ request # "none" /\ request' = "none"
          /\ UNCHANGED <<step, waited, trial, outcome>>
    /\ UNCHANGED <<environment, prometheus>>

(* close, in main's finally: docker compose down, which may leave services *)
(* behind, for its failure is ignored.                                     *)
Close ==
    /\ step = "close"
    /\ step' = "ended"
    /\ \E left \in SUBSET running : running' = left
    /\ UNCHANGED <<batch, gaugeDue, incidentAge, failureAge, crashes, prometheus, waited,
                   request, trial, outcome>>

Harness == Return \/ Send \/ Serve \/ Receive \/ GiveUp \/ Fail \/ Close

-----------------------------------------------------------------------------
(* Time. *)

Older(age) == IF age < Window THEN age + 1 ELSE age

(* What is due has happened; nothing is timed once the harness closes. *)
TickDone ==
    /\ "prometheus" \in running => scrapeIn > 0 /\ evaluateIn > 0
    /\ ~gaugeDue
    /\ step \notin {"close", "ended"}

Tick ==
    /\ TickDone
    /\ incidentAge' = Older(incidentAge)
    /\ failureAge' = Older(failureAge)
    /\ IF "prometheus" \in running
         THEN scrapeIn' = scrapeIn - 1 /\ evaluateIn' = evaluateIn - 1
         ELSE UNCHANGED <<scrapeIn, evaluateIn>>
    /\ scraped' = [scraped EXCEPT !.incident = Older(@), !.failure = Older(@)]
    /\ pendingFor' = IF pendingFor \in 1 .. HoldFor THEN pendingFor + 1 ELSE pendingFor
    /\ waited' = IF step \in Waits /\ waited < Timeout(step) THEN waited + 1 ELSE waited
    /\ UNCHANGED <<running, batch, gaugeDue, crashes, firing, step, request, trial,
                   outcome>>

-----------------------------------------------------------------------------
Next ==
    \/ Compose \/ AcceptBatch \/ PollOutbox \/ ProcessBatch \/ SetIncidentLastSeen
    \/ WorkerCrashes
    \/ Scrape \/ Evaluate
    \/ Harness
    \/ Tick

Spec == Init /\ [][Next]_vars

(* A command of docker is running: subprocess.run has no timeout. *)
InDocker ==
    \/ step \in Commands \cup {"close"}
    \/ step = "recovery" /\ request # "none"

(* Time passes, what is due happens, and the requests of httpx end.  A     *)
(* command of docker may hang, and a batch may never be delivered.         *)
FairSpec ==
    /\ Spec
    /\ SF_vars(Tick)
    /\ WF_vars(Scrape) /\ WF_vars(Evaluate) /\ WF_vars(SetIncidentLastSeen)
    /\ WF_vars(~InDocker /\ Harness)

-----------------------------------------------------------------------------
(* Properties. *)

(* A trial measures its own incident: between its post and the commit of   *)
(* its incident no evaluation can find an older one, in the gauge or in    *)
(* what was last scraped, and the alert does not fire, however late the    *)
(* answers came that ended the waits before it.                            *)
TrialsAreIndependent ==
    (step \in {"trial_post", "wait_incident"} /\ batch # "processed")
        => /\ "incident" \notin firing
           /\ ~IsRecent(incidentAge) /\ ~IsRecent(scraped.incident)

(* No timestamp leaves its window unseen: two intervals after a worker set *)
(* INCIDENT_LAST_SEEN, or the relay OUTBOX_LAST_FAILURE, the alert fires,  *)
(* and it does so for the rest of the 15 seconds that slo.yml gives it,    *)
(* whatever the phases of scrapes and evaluations.  Only the crash of a    *)
(* worker takes its gauge, and so the alert, away.                         *)
GaugesAreAlerted ==
    /\ crashes = 0 /\ 2 * Interval < incidentAge /\ incidentAge < Window
         => "incident" \in firing
    /\ 2 * Interval < failureAge /\ failureAge < Window => "outbox" \in firing

(* Whatever fails, and if no batch or alert ever comes, the run ends by its *)
(* deadlines and reaches close, unless a command of docker hangs.          *)
DrillsEnd == []<>(~InDocker) => <>(step = "ended")

-----------------------------------------------------------------------------
(* The inductive invariants behind TrialsAreIndependent and                *)
(* GaugesAreAlerted.                                                       *)

TypeOK ==
    /\ step \in Steps
    /\ request \in {"none", "sent", "found", "missed"}
    /\ batch \in {"none", "stored", "published", "processed"}
    /\ gaugeDue \in BOOLEAN /\ crashes \in Nat
    /\ incidentAge \in 0 .. Window /\ failureAge \in 0 .. Window
    /\ scraped \in [up : BOOLEAN, incident : 0 .. Window, failure : 0 .. Window]
    /\ firing \subseteq Alerts

(* Only a wait has a request. *)
RequestInv == request # "none" => step \in Waits

(* No incident is or will be seen by Prometheus. *)
Quiet ==
    /\ ~gaugeDue
    /\ incidentAge = Window /\ scraped.incident = Window
    /\ "incident" \notin firing

(* From the commit of a trial's incident until its alert is over. *)
IncidentLive ==
    \/ step \in {"trial_post", "wait_incident"} /\ batch = "processed"
    \/ step \in {"trial_firing", "trial_over", "close", "ended"}

(* The alert of the trial was seen firing. *)
SeenFiring == step = "trial_over" \/ (step = "trial_firing" /\ request = "found")

(* The gauge, its last scrape and the alert tell of one incident at most:  *)
(* that of the trial in progress.                                          *)
GaugeInv ==
    /\ ~IncidentLive => Quiet
    /\ gaugeDue => /\ batch = "processed"
                   /\ incidentAge = Window /\ scraped.incident = Window
                   /\ "incident" \notin firing
    /\ scraped.incident < Window => incidentAge \in {Window, scraped.incident}
    /\ "incident" \in firing => incidentAge \in {Window, scraped.incident}
    /\ step \in {"trial_firing", "trial_over"} => batch = "processed"
    /\ step = "wait_incident" /\ request = "found" => batch = "processed"
    /\ SeenFiring /\ "incident" \notin firing => Quiet
    /\ step = "trial_over" /\ request = "found" => Quiet

DrillsInv == TypeOK /\ RequestInv /\ GaugeInv

(* Prometheus runs from the end of setup, before which no gauge is set. *)
PrometheusInv ==
    /\ scrapeIn \in 0 .. Interval /\ evaluateIn \in 0 .. Interval
    /\ step \notin {"setup", "close", "ended"} => "prometheus" \in running
    /\ step = "setup" => batch = "none" /\ failureAge = Window

(* A gauge younger than its last scrape is scraped within an interval, and *)
(* evaluated within another.                                               *)
Alerted(alert, age, seen) ==
    /\ age < Window /\ seen # age => age + scrapeIn <= Interval
    /\ age < Window /\ seen = age /\ alert \notin firing
         => age + evaluateIn <= 2 * Interval

AlertsInv ==
    /\ DrillsInv /\ PrometheusInv
    /\ crashes = 0 => Alerted("incident", incidentAge, scraped.incident)
    /\ Alerted("outbox", failureAge, scraped.failure)
=============================================================================
