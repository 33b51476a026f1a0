------------------------------ MODULE Assistant ------------------------------
(***************************************************************************)
(* The read-only incident assistant: AssistantService (assistant/          *)
(* service.py) between operators and an untrusted provider (assistant/     *)
(* providers.py), with its bounded in-memory registry of proposals.        *)
(*                                                                         *)
(* Requests interleave only where the code awaits the network: neither the *)
(* checks that follow the provider's answer nor a critical section of the  *)
(* registry's lock contains another await.  A text is whether it holds a   *)
(* secret, a citation the number of an evidence item, and an analysis id   *)
(* the request it was made for.                                            *)
(***************************************************************************)
EXTENDS Integers, Sequences, FiniteSets

CONSTANTS
    Analyses,       \* analysis requests, one analysis id each
    Evidence,       \* Evidence[a]: number of evidence items supplied
    Reviews,        \* review requests
    Target,         \* Target[v]: the analysis and the proposal it names
    Outputs,        \* well-formed outputs the remote provider may give
    MaxRetries,     \* max_retries of the remote provider
    RegistryLimit,  \* registry_limit (1000 in the code)
    MaxRestarts     \* bound: restarts of the service

(* A ProviderAnalysis: the evidence each claim and each proposal cites. *)
OutputType == [abstained : BOOLEAN, claims : Seq(SUBSET Nat), proposals : Seq(SUBSET Nat),
               secret : BOOLEAN]
Undecided == "undecided"

ASSUME AssistantAssumption ==
    /\ Evidence \in [Analyses -> Nat]
    /\ Undecided \notin Reviews
    /\ Outputs \subseteq OutputType
    /\ MaxRetries \in Nat
    /\ RegistryLimit \in Nat \ {0}
    /\ MaxRestarts \in Nat
    \* At most 20 remediations in an output.
    /\ \A out \in Outputs : Len(out.proposals) <= RegistryLimit

VARIABLES
    provider,    \* the configured provider
    stage,       \* stage[a]: what the request waits for
    attempt,     \* attempt[a]: of _post_with_retry
    answer,      \* answer[a]: the response
    registry,    \* _proposals, in insertion order
    outcome,     \* outcome[v]: the answer to a review
    restarts,
    registered   \* history: keys registered since the service started

vars == <<provider, stage, attempt, answer, registry, outcome, restarts, registered>>

NoAnswer == [abstained |-> TRUE, claims |-> <<>>, proposals |-> <<>>, secret |-> FALSE]
Keys(entries) == {entries[i].key : i \in DOMAIN entries}

Init ==
    /\ provider \in {"offline", "openai"}
    /\ stage = [a \in Analyses |-> "new"]
    /\ attempt = [a \in Analyses |-> 0]
    /\ answer = [a \in Analyses |-> NoAnswer]
    /\ registry = <<>>
    /\ outcome = [v \in Reviews |-> "new"]
    /\ restarts = 0
    /\ registered = <<>>

-----------------------------------------------------------------------------
(* analyze. *)

(* _redact_provider_output. *)
Redact(out) == [out EXCEPT !.secret = FALSE]

(* Mutant: the citations of proposals are not looked at. *)
CitationErrorClaims(out, n) ==
    \/ out.abstained /\ (out.claims # <<>> \/ out.proposals # <<>>)
    \/ /\ ~out.abstained
       /\ \/ out.claims = <<>>
          \/ \E i \in DOMAIN out.claims : ~(out.claims[i] \subseteq 1 .. n)

(* _citation_error, n items of evidence having been supplied. *)
CitationError(out, n) ==
    \/ out.abstained /\ (out.claims # <<>> \/ out.proposals # <<>>)
    \/ /\ ~out.abstained
       /\ \/ out.claims = <<>>
          \/ \E i \in DOMAIN out.claims : ~(out.claims[i] \subseteq 1 .. n)
          \/ \E i \in DOMAIN out.proposals : ~(out.proposals[i] \subseteq 1 .. n)

(* Mutant: new proposals are not registered once the limit is reached. *)
BoundedFirst(entries) ==
    IF Len(entries) <= RegistryLimit THEN entries ELSE SubSeq(entries, 1, RegistryLimit)

(* What is left when the oldest entries are dropped down to the limit. *)
Bounded(entries) ==
    IF Len(entries) <= RegistryLimit
      THEN entries
      ELSE SubSeq(entries, Len(entries) - RegistryLimit + 1, Len(entries))

Register(a, proposals) ==
    /\ registry' = Bounded(registry \o [i \in DOMAIN proposals |->
                                          [key |-> <<a, i>>, receipt |-> Undecided]])
    /\ registered' = registered \o [i \in DOMAIN proposals |-> <<a, i>>]

Abstain(a) ==
    /\ answer' = [answer EXCEPT ![a] = NoAnswer]
    /\ stage' = [stage EXCEPT ![a] = "answered"]
    /\ UNCHANGED <<registry, registered>>

(* From the provider's output to the response. *)
Conclude(a, out) ==
    LET safe == Redact(out) IN
    \/ /\ CitationError(safe, Evidence[a])
       /\ Abstain(a)
    \/ /\ ~CitationError(safe, Evidence[a])
       /\ answer' = [answer EXCEPT ![a] = safe]
       /\ stage' = [stage EXCEPT ![a] = "answered"]
       /\ Register(a, safe.proposals)

(* Without evidence no provider is asked. *)
Begin(a) ==
    /\ stage[a] = "new"
    /\ \/ Evidence[a] = 0 /\ Abstain(a)
       \/ /\ Evidence[a] > 0
          /\ stage' = [stage EXCEPT ![a] = "call"]
          /\ UNCHANGED <<answer, registry, registered>>
    /\ UNCHANGED <<provider, attempt, outcome, restarts>>

(* OfflineProvider cites the first item. *)
AnswerOffline(a) ==
    /\ stage[a] = "call" /\ provider = "offline"
    /\ Conclude(a, [abstained |-> FALSE, claims |-> <<{1}>>, proposals |-> <<{1}>>,
                    secret |-> FALSE])
    /\ UNCHANGED <<provider, attempt, outcome, restarts>>

(* The post is answered with an output. *)
PostAnswers(a) ==
    /\ stage[a] = "call" /\ provider = "openai"
    /\ \E out \in Outputs : Conclude(a, out)
    /\ UNCHANGED <<provider, attempt, outcome, restarts>>

(* A final status, or a body without a valid output: an exception analyze  *)
(* turns into an abstention.                                               *)
PostRefused(a) ==
    /\ stage[a] = "call" /\ provider = "openai"
    /\ Abstain(a)
    /\ UNCHANGED <<provider, attempt, outcome, restarts>>

(* Mutant: the attempt is not counted. *)
PostFailsUncounted(a) ==
    /\ stage[a] = "call" /\ provider = "openai"
    /\ stage' = [stage EXCEPT ![a] = "backoff"]
    /\ UNCHANGED <<provider, attempt, answer, registry, outcome, restarts, registered>>

(* A timeout, a network error or a status to be retried; the last attempt  *)
(* raises.                                                                 *)
PostFails(a) ==
    /\ stage[a] = "call" /\ provider = "openai"
    /\ \/ attempt[a] >= MaxRetries /\ Abstain(a) /\ UNCHANGED attempt
       \/ /\ attempt[a] < MaxRetries
          /\ stage' = [stage EXCEPT ![a] = "backoff"]
          /\ attempt' = [attempt EXCEPT ![a] = @ + 1]
          /\ UNCHANGED <<answer, registry, registered>>
    /\ UNCHANGED <<provider, outcome, restarts>>

(* asyncio.sleep ends. *)
Wake(a) ==
    /\ stage[a] = "backoff"
    /\ stage' = [stage EXCEPT ![a] = "call"]
    /\ UNCHANGED <<provider, attempt, answer, registry, outcome, restarts, registered>>

-----------------------------------------------------------------------------
(* review. *)

(* Mutant: a second decision replaces the first. *)
NeverDecided(v) == FALSE

AlreadyDecided(v) ==
    \E i \in DOMAIN registry :
        registry[i].key = Target[v] /\ registry[i].receipt # Undecided

Review(v) ==
    /\ outcome[v] = "new"
    /\ \/ /\ Target[v] \notin Keys(registry)
          /\ outcome' = [outcome EXCEPT ![v] = "unknown"]
          /\ UNCHANGED registry
       \/ /\ Target[v] \in Keys(registry) /\ AlreadyDecided(v)
          /\ outcome' = [outcome EXCEPT ![v] = "duplicate"]
          /\ UNCHANGED registry
       \/ /\ Target[v] \in Keys(registry) /\ ~AlreadyDecided(v)
          /\ outcome' = [outcome EXCEPT ![v] = "receipt"]
          /\ registry' = [i \in DOMAIN registry |->
                            IF registry[i].key = Target[v]
                              THEN [registry[i] EXCEPT !.receipt = v] ELSE registry[i]]
    /\ UNCHANGED <<provider, stage, attempt, answer, restarts, registered>>

(* The process restarts: requests in progress end, the registry is empty.  *)
Restart ==
    /\ restarts < MaxRestarts
    /\ restarts' = restarts + 1
    /\ registry' = <<>>
    /\ registered' = <<>>
    /\ stage' = [a \in Analyses |->
                   IF stage[a] \in {"call", "backoff"} THEN "aborted" ELSE stage[a]]
    /\ UNCHANGED <<provider, attempt, answer, outcome>>

Step(a) ==
    \/ Begin(a) \/ AnswerOffline(a) \/ PostAnswers(a) \/ PostRefused(a)
    \/ PostFails(a) \/ Wake(a)

Next ==
    \/ \E a \in Analyses : Step(a)
    \/ \E v \in Reviews : Review(v)
    \/ Restart

Spec == Init /\ [][Next]_vars

(* Posts have a deadline and sleeps end.  Nothing is assumed of reviewers. *)
FairSpec == Spec /\ \A a \in Analyses : WF_vars(Step(a))

-----------------------------------------------------------------------------
(* Properties. *)

TypeOK ==
    /\ provider \in {"offline", "openai"}
    /\ stage \in [Analyses -> {"new", "call", "backoff", "answered", "aborted"}]
    /\ attempt \in [Analyses -> 0 .. MaxRetries]
    /\ answer \in [Analyses -> OutputType]
    /\ registry \in Seq([key : Analyses \X Nat, receipt : Reviews \cup {Undecided}])
    /\ registered \in Seq(Analyses \X Nat)
    /\ outcome \in [Reviews -> {"new", "receipt", "unknown", "duplicate"}]
    /\ restarts \in 0 .. MaxRestarts

(* Fail closed (analyze): whatever the provider returns, a response that   *)
(* does not abstain has claims, every claim and proposal in it cites       *)
(* supplied evidence only, an abstention proposes nothing, and no response *)
(* holds a secret.                                                         *)
FailsClosed ==
    \A a \in Analyses :
        /\ ~answer[a].secret
        /\ answer[a].abstained => answer[a].claims = <<>> /\ answer[a].proposals = <<>>
        /\ ~answer[a].abstained =>
             /\ answer[a].claims # <<>>
             /\ \A i \in DOMAIN answer[a].claims :
                  answer[a].claims[i] \subseteq 1 .. Evidence[a]
             /\ \A i \in DOMAIN answer[a].proposals :
                  answer[a].proposals[i] \subseteq 1 .. Evidence[a]

(* A proposal is decided once at most, also across its eviction from the   *)
(* registry and restarts, and only a proposal some response contains is    *)
(* decided at all (review).                                                *)
OneDecision ==
    /\ \A v \in Reviews : outcome[v] = "receipt" =>
         /\ Target[v][1] \in Analyses
         /\ Target[v][2] \in DOMAIN answer[Target[v][1]].proposals
    /\ \A u, v \in Reviews :
         outcome[u] = "receipt" /\ outcome[v] = "receipt" /\ Target[u] = Target[v] => u = v

(* The registry holds the newest proposals up to its limit and no others:  *)
(* a proposal can be reviewed from its response on until registry_limit    *)
(* younger ones exist or the service restarts (_register).                 *)
RegistryHoldsNewest ==
    Keys(registry) = {registered[i] : i \in {j \in DOMAIN registered :
                                               j > Len(registered) - RegistryLimit}}

(* Every analysis ends, however the provider fails: with a response or     *)
(* with the process (_post_with_retry).                                    *)
AnalysesEnd == \A a \in Analyses : <>(stage[a] \in {"answered", "aborted"})

-----------------------------------------------------------------------------
(* The inductive invariant behind the safety properties. *)

(* The registry is the tail of what was registered, in the same order. *)
RegistryInv ==
    /\ Len(registry) = IF Len(registered) < RegistryLimit
                         THEN Len(registered) ELSE RegistryLimit
    /\ \A i \in DOMAIN registry :
         registry[i].key = registered[Len(registered) - Len(registry) + i]

(* The keys of the proposals that responses contain. *)
Proposed ==
    {k \in Analyses \X Nat : /\ stage[k[1]] = "answered"
                             /\ k[2] \in DOMAIN answer[k[1]].proposals}

(* What is registered or decided was proposed, and a decided proposal that *)
(* is still registered carries its receipt.                                *)
DecisionInv ==
    /\ \A i \in DOMAIN registry : registry[i].key \in Proposed
    /\ \A v \in Reviews : outcome[v] = "receipt" =>
         /\ Target[v] \in Proposed
         /\ \A i \in DOMAIN registry :
              registry[i].key = Target[v] => registry[i].receipt # Undecided

AssistantInv == TypeOK /\ FailsClosed /\ RegistryInv /\ DecisionInv /\ OneDecision
=============================================================================
