--------------------------- MODULE AssistantProofs ---------------------------
(***************************************************************************)
(* Proofs about Assistant: any number of requests and reviews, whatever    *)
(* the provider returns, and any restarts.                                 *)
(***************************************************************************)
EXTENDS Assistant, SequenceTheorems, TLAPS

USE AssistantAssumption

-----------------------------------------------------------------------------
(* Facts about the operators. *)

(* A list built by position is a sequence. *)
LEMMA ListIsSeq ==
  ASSUME NEW S, NEW n \in Nat, NEW f \in [1 .. n -> S]
  PROVE  f \in Seq(S) /\ Len(f) = n
  OBVIOUS

(* The positions of a concatenation. *)
LEMMA ConcatPositions ==
  ASSUME NEW S, NEW s \in Seq(S), NEW t \in Seq(S)
  PROVE  /\ s \o t \in Seq(S) /\ Len(s \o t) = Len(s) + Len(t)
         /\ \A i \in 1 .. Len(s) : (s \o t)[i] = s[i]
         /\ \A i \in 1 .. Len(t) : (s \o t)[Len(s) + i] = t[i]
<1> DEFINE c == s \o t
<1>1. Len(s) \in Nat /\ Len(t) \in Nat
  BY LenProperties
<1>2. \A i \in 1 .. Len(t) : /\ Len(s) + i \in 1 .. Len(s) + Len(t)
                             /\ ~(Len(s) + i <= Len(s)) /\ Len(s) + i - Len(s) = i
  BY <1>1
<1>3. \A i \in 1 .. Len(s) : i \in 1 .. Len(s) + Len(t) /\ i <= Len(s)
  BY <1>1
<1>4. \A i \in 1 .. Len(s) + Len(t) :
        c[i] = IF i <= Len(s) THEN s[i] ELSE t[i - Len(s)]
  BY ConcatProperties, Zenon
<1>5. s \o t \in Seq(S) /\ Len(s \o t) = Len(s) + Len(t)
  BY ConcatProperties, Zenon
<1> HIDE DEF c
<1>6. \A i \in 1 .. Len(s) : c[i] = s[i]
  BY <1>3, <1>4
<1>7. \A i \in 1 .. Len(t) : c[Len(s) + i] = t[i]
  BY <1>2, <1>4
<1>8. QED
  BY <1>5, <1>6, <1>7, Zenon DEF c

(* What remains of an output after redaction. *)
LEMMA RedactType ==
  ASSUME NEW out \in OutputType
  PROVE  /\ Redact(out) \in OutputType
         /\ ~Redact(out).secret
  BY DEF Redact, OutputType

(* The abstention is an output without claims, proposals or secrets. *)
LEMMA NoAnswerType ==
  /\ NoAnswer \in OutputType
  /\ NoAnswer.abstained /\ ~NoAnswer.secret
  /\ NoAnswer.claims = <<>> /\ NoAnswer.proposals = <<>>
<1>1. <<>> \in Seq(SUBSET Nat)
  OBVIOUS
<1>2. QED
  BY <1>1 DEF NoAnswer, OutputType

(* Dropping the oldest entries leaves the newest, in order. *)
LEMMA BoundedTail ==
  ASSUME NEW S, NEW entries \in Seq(S)
  PROVE  /\ Bounded(entries) \in Seq(S)
         /\ Len(Bounded(entries)) = IF Len(entries) < RegistryLimit
                                      THEN Len(entries) ELSE RegistryLimit
         /\ \A i \in 1 .. Len(Bounded(entries)) :
              Bounded(entries)[i] = entries[Len(entries) - Len(Bounded(entries)) + i]
<1>1. CASE Len(entries) <= RegistryLimit
  BY <1>1 DEF Bounded
<1>2. CASE Len(entries) > RegistryLimit
  <2> DEFINE low == Len(entries) - RegistryLimit + 1
  <2>1. low \in 1 .. Len(entries) /\ Len(entries) \in Nat
    BY <1>2
  <2>2. Bounded(entries) = SubSeq(entries, low, Len(entries))
    BY <1>2 DEF Bounded
  <2>3. /\ SubSeq(entries, low, Len(entries)) \in Seq(S)
        /\ Len(SubSeq(entries, low, Len(entries))) = RegistryLimit
        /\ \A i \in 1 .. RegistryLimit :
             SubSeq(entries, low, Len(entries))[i] = entries[low + i - 1]
    BY <2>1
  <2>4. QED
    BY <1>2, <2>1, <2>2, <2>3
<1>3. QED
  BY <1>1, <1>2

-----------------------------------------------------------------------------
(* Answers. *)

(* How a request becomes answered: the response is safe, and its proposals *)
(* are registered with it.                                                 *)
Answered(a) ==
    \E out \in OutputType :
        /\ ~out.secret
        /\ ~CitationError(out, Evidence[a])
        /\ answer' = [answer EXCEPT ![a] = out]
        /\ stage' = [stage EXCEPT ![a] = "answered"]
        /\ \/ out.proposals = <<>> /\ UNCHANGED <<registry, registered>>
           \/ Register(a, out.proposals)

(* An abstention is such a response. *)
LEMMA AbstainAnswers == ASSUME NEW a, Abstain(a) PROVE Answered(a)
<1>1. ~CitationError(NoAnswer, Evidence[a])
  BY NoAnswerType DEF CitationError
<1>2. QED
  BY <1>1, NoAnswerType DEF Abstain, Answered

(* So is whatever analyze makes of an output. *)
LEMMA ConcludeAnswers ==
  ASSUME NEW a, NEW out \in OutputType, Conclude(a, out) PROVE Answered(a)
<1>1. Redact(out) \in OutputType /\ ~Redact(out).secret
  BY RedactType
<1>2. CASE Abstain(a)
  BY <1>2, AbstainAnswers
<1>3. QED
  BY <1>1, <1>2 DEF Conclude, Answered

(* A step of a request answers it, or changes neither answers nor          *)
(* proposals.                                                              *)
LEMMA StepCases ==
  ASSUME TypeOK, NEW a \in Analyses, Step(a)
  PROVE  /\ stage[a] \in {"new", "call", "backoff"}
         /\ outcome' = outcome
         /\ \/ Answered(a)
            \/ /\ UNCHANGED <<answer, registry, registered>>
               /\ \E s \in {"call", "backoff"} : stage' = [stage EXCEPT ![a] = s]
<1>1. [abstained |-> FALSE, claims |-> <<{1}>>, proposals |-> <<{1}>>, secret |-> FALSE]
        \in OutputType
  <2>1. <<{1}>> \in Seq(SUBSET Nat)
    OBVIOUS
  <2>2. QED
    BY <2>1 DEF OutputType
<1>2. CASE Begin(a)
  BY <1>2, AbstainAnswers DEF Begin
<1>3. CASE AnswerOffline(a)
  BY <1>1, <1>3, ConcludeAnswers DEF AnswerOffline
<1>4. CASE PostAnswers(a)
  BY <1>4, ConcludeAnswers DEF PostAnswers
<1>5. CASE PostRefused(a)
  BY <1>5, AbstainAnswers DEF PostRefused
<1>6. CASE PostFails(a)
  BY <1>6, AbstainAnswers DEF PostFails
<1>7. CASE Wake(a)
  BY <1>7 DEF Wake
<1>8. QED
  BY <1>2, <1>3, <1>4, <1>5, <1>6, <1>7 DEF Step

(* A response is never taken back or replaced. *)
LEMMA AnswersStay ==
  ASSUME TypeOK, [Next]_vars, NEW b \in Analyses, stage[b] = "answered"
  PROVE  stage'[b] = "answered" /\ answer'[b] = answer[b]
<1>1. ASSUME NEW a \in Analyses, Step(a)
      PROVE  stage'[b] = "answered" /\ answer'[b] = answer[b]
  <2>1. a # b
    BY <1>1, StepCases
  <2>2. QED
    BY <1>1, <2>1, StepCases DEF Answered, TypeOK
<1>2. QED
  BY <1>1 DEF Next, vars, Review, Restart, TypeOK

(* What was proposed stays proposed. *)
LEMMA ProposedStays == ASSUME TypeOK, [Next]_vars PROVE Proposed \subseteq Proposed'
  BY AnswersStay DEF Proposed

(* What Register adds, entry by entry. *)
LEMMA RegisterEntries ==
  ASSUME TypeOK, NEW a \in Analyses, NEW proposals \in Seq(SUBSET Nat), Register(a, proposals),
         RegistryInv
  PROVE  /\ registry' \in Seq([key : Analyses \X Nat, receipt : Reviews \cup {Undecided}])
         /\ registered' \in Seq(Analyses \X Nat)
         /\ RegistryInv'
         /\ \A i \in DOMAIN registry' :
              \/ \E j \in DOMAIN registry : registry'[i] = registry[j]
              \/ \E j \in DOMAIN proposals :
                   registry'[i] = [key |-> <<a, j>>, receipt |-> Undecided]
<1> DEFINE E == [key : Analyses \X Nat, receipt : Reviews \cup {Undecided}]
           k == Len(proposals)
           new == [i \in DOMAIN proposals |-> [key |-> <<a, i>>, receipt |-> Undecided]]
           keys == [i \in DOMAIN proposals |-> <<a, i>>]
           all == registry \o new
           n == Len(registry)
           N == Len(registered)
<1>1. /\ k \in Nat /\ DOMAIN proposals = 1 .. k
      /\ new \in Seq(E) /\ Len(new) = k
      /\ keys \in Seq(Analyses \X Nat) /\ Len(keys) = k
  <2>1. k \in Nat /\ DOMAIN proposals = 1 .. k
    BY LenProperties
  <2> HIDE DEF k
  <2>2. new \in [1 .. k -> E] /\ keys \in [1 .. k -> Analyses \X Nat]
    BY <2>1
  <2> HIDE DEF new, keys, E
  <2>3. QED
    BY <2>1, <2>2, ListIsSeq
<1>2. registry \in Seq(E) /\ registered \in Seq(Analyses \X Nat) /\ n \in Nat /\ N \in Nat
  BY DEF TypeOK
<1>3. registry' = Bounded(all) /\ registered' = registered \o keys
  BY DEF Register
<1>4. /\ \A i \in 1 .. k : new[i] = [key |-> <<a, i>>, receipt |-> Undecided]
      /\ \A i \in 1 .. k : new[i].key = keys[i]
  BY <1>1
<1> HIDE DEF E, new, keys
<1>5. /\ all \in Seq(E) /\ Len(all) = n + k
      /\ \A i \in 1 .. n : all[i] = registry[i]
      /\ \A i \in 1 .. k : all[n + i] = new[i]
  <2>1. /\ registry \o new \in Seq(E) /\ Len(registry \o new) = Len(registry) + Len(new)
        /\ \A i \in 1 .. Len(registry) : (registry \o new)[i] = registry[i]
        /\ \A i \in 1 .. Len(new) : (registry \o new)[Len(registry) + i] = new[i]
    <3>1. registry \in Seq(E) /\ new \in Seq(E)
      BY <1>1, <1>2
    <3>2. \A i \in 1 .. Len(new) : (registry \o new)[Len(registry) + i] = new[i]
      BY <3>1, ConcatPositions, SMT
    <3>3. QED
      BY <3>1, <3>2, ConcatPositions, Zenon
  <2>2. Len(new) = k
    BY <1>1
  <2> HIDE DEF k
  <2>3. QED
    BY <2>1, <2>2, Zenon
<1>6. /\ registered' \in Seq(Analyses \X Nat) /\ Len(registered') = N + k
      /\ \A i \in 1 .. N : registered'[i] = registered[i]
      /\ \A i \in 1 .. k : registered'[N + i] = keys[i]
  <2>1. /\ registered \o keys \in Seq(Analyses \X Nat)
        /\ Len(registered \o keys) = Len(registered) + Len(keys)
        /\ \A i \in 1 .. Len(registered) : (registered \o keys)[i] = registered[i]
        /\ \A i \in 1 .. Len(keys) : (registered \o keys)[Len(registered) + i] = keys[i]
    <3>1. registered \in Seq(Analyses \X Nat) /\ keys \in Seq(Analyses \X Nat)
      BY <1>1, <1>2
    <3>2. \A i \in 1 .. Len(keys) : (registered \o keys)[Len(registered) + i] = keys[i]
      BY <3>1, ConcatPositions, SMT
    <3>3. \A i \in 1 .. Len(registered) : (registered \o keys)[i] = registered[i]
      BY <3>1, ConcatPositions, SMT
    <3>4. /\ registered \o keys \in Seq(Analyses \X Nat)
          /\ Len(registered \o keys) = Len(registered) + Len(keys)
      BY <3>1, ConcatPositions, SMT
    <3>5. QED
      BY <3>2, <3>3, <3>4, Zenon
  <2>2. Len(keys) = k /\ registered' = registered \o keys
    BY <1>1, <1>3
  <2> HIDE DEF k
  <2>3. QED
    BY <2>1, <2>2, Zenon
<1> HIDE DEF all
<1>7. /\ registry' \in Seq(E)
      /\ Len(registry') = IF n + k < RegistryLimit THEN n + k ELSE RegistryLimit
      /\ \A i \in 1 .. Len(registry') : registry'[i] = all[n + k - Len(registry') + i]
  <2>1. /\ Bounded(all) \in Seq(E)
        /\ Len(Bounded(all)) = IF Len(all) < RegistryLimit THEN Len(all) ELSE RegistryLimit
        /\ \A i \in 1 .. Len(Bounded(all)) :
             Bounded(all)[i] = all[Len(all) - Len(Bounded(all)) + i]
    BY <1>5, BoundedTail, Zenon
  <2> HIDE DEF n, k
  <2>2. registry' = Bounded(all) /\ Len(all) = n + k
    BY <1>3, <1>5
  <2>3. registry' \in Seq(E) /\ Len(registry') = Len(Bounded(all))
    BY <2>1, <2>2, Zenon
  <2>4. Len(registry') = IF n + k < RegistryLimit THEN n + k ELSE RegistryLimit
    BY <2>1, <2>2
  <2>5. ASSUME NEW i \in 1 .. Len(registry')
        PROVE  registry'[i] = all[n + k - Len(registry') + i]
    <3>1. i \in 1 .. Len(Bounded(all))
      BY <2>2, Zenon
    <3>2. Bounded(all)[i] = all[Len(all) - Len(Bounded(all)) + i]
      BY <2>1, <3>1, Zenon
    <3>3. Len(all) - Len(Bounded(all)) + i = n + k - Len(registry') + i
      <4>1. Len(Bounded(all)) = Len(registry')
        BY <2>2, Zenon
      <4>2. Len(all) = n + k
        BY <2>2, Zenon
      <4>3. n \in Nat /\ k \in Nat /\ Len(registry') \in Nat
        BY <1>1, <1>2, <2>3, LenProperties
      <4>4. QED
        BY <4>1, <4>2, <4>3
    <3>4. QED
      BY <2>2, <3>2, <3>3, Zenon
  <2>6. QED
    BY <2>3, <2>4, <2>5
<1>8. n = IF N < RegistryLimit THEN N ELSE RegistryLimit
  BY DEF RegistryInv
<1>9. \A j \in 1 .. n + k : all[j].key = registered'[N - n + j]
  <2> SUFFICES ASSUME NEW j \in 1 .. n + k PROVE all[j].key = registered'[N - n + j]
    OBVIOUS
  <2> HIDE DEF k, n, N
  <2>1. CASE j <= n
    <3>1. N - n + j \in 1 .. N
      BY <1>1, <1>2, <1>8, <2>1
    <3>2. registry[j].key = registered[N - n + j]
      <4>1. DOMAIN registry = 1 .. n /\ j \in 1 .. n
        BY <1>1, <1>2, <2>1, LenProperties DEF n
      <4>2. QED
        BY <4>1 DEF RegistryInv, n, N
    <3>3. QED
      <4>1. j \in 1 .. n
        BY <1>1, <1>2, <2>1
      <4>2. all[j] = registry[j] /\ registered'[N - n + j] = registered[N - n + j]
        BY <1>5, <1>6, <3>1, <4>1, Zenon
      <4>3. QED
        BY <3>2, <4>2, Zenon
  <2>2. CASE j > n
    <3> DEFINE i == j - n
    <3>1. i \in 1 .. k /\ j = n + i /\ N - n + j = N + i
      BY <1>1, <1>2, <2>2
    <3> HIDE DEF i
    <3>2. all[n + i] = new[i] /\ registered'[N + i] = keys[i] /\ new[i].key = keys[i]
      BY <1>4, <1>5, <1>6, <3>1, Zenon
    <3>3. QED
      BY <3>1, <3>2, Zenon
  <2>3. QED
    BY <1>1, <1>2, <2>1, <2>2
<1>10. RegistryInv'
  <2> HIDE DEF k, n, N
  <2>1. Len(registry') = IF Len(registered') < RegistryLimit
                           THEN Len(registered') ELSE RegistryLimit
    BY <1>1, <1>2, <1>6, <1>7, <1>8
  <2>2. ASSUME NEW i \in 1 .. Len(registry')
        PROVE  registry'[i].key = registered'[Len(registered') - Len(registry') + i]
    <3> DEFINE j == n + k - Len(registry') + i
    <3>1. j \in 1 .. n + k /\ Len(registry') \in Nat
      BY <1>1, <1>2, <1>7
    <3>2. registry'[i].key = registered'[N - n + j]
      BY <1>7, <1>9, <3>1
    <3>3. N - n + j = Len(registered') - Len(registry') + i
      BY <1>1, <1>2, <1>6, <3>1
    <3>4. QED
      BY <3>2, <3>3
  <2>3. DOMAIN registry' = 1 .. Len(registry')
    BY <1>7
  <2>4. QED
    BY <2>1, <2>2, <2>3 DEF RegistryInv
<1>11. ASSUME NEW i \in DOMAIN registry'
       PROVE  \/ \E j \in DOMAIN registry : registry'[i] = registry[j]
              \/ \E j \in DOMAIN proposals :
                   registry'[i] = [key |-> <<a, j>>, receipt |-> Undecided]
  <2> HIDE DEF k, n
  <2>0. i \in 1 .. Len(registry') /\ Len(registry') \in Nat
    BY <1>7
  <2> DEFINE j == n + k - Len(registry') + i
  <2>1. j \in 1 .. n + k /\ registry'[i] = all[j]
    BY <1>1, <1>2, <1>7, <2>0
  <2> HIDE DEF j
  <2>2. CASE j <= n
    <3>1. j \in DOMAIN registry /\ registry'[i] = registry[j]
      BY <1>1, <1>2, <1>5, <2>1, <2>2, LenProperties DEF n
    <3>2. QED
      BY <3>1
  <2>3. CASE j > n
    <3>1. j - n \in 1 .. k /\ j = n + (j - n)
      BY <1>1, <1>2, <2>1, <2>3
    <3>2. registry'[i] = [key |-> <<a, j - n>>, receipt |-> Undecided]
      BY <1>4, <1>5, <2>1, <3>1
    <3>3. QED
      BY <1>1, <3>1, <3>2
  <2>4. j <= n \/ j > n
    BY <1>1, <1>2, <2>1
  <2>5. QED
    BY <2>2, <2>3, <2>4, Zenon
<1>12. QED
  BY <1>6, <1>7, <1>10, <1>11 DEF E

-----------------------------------------------------------------------------
(* The inductive invariant. *)

(* It holds before the first request. *)
LEMMA InitInv == Init => AssistantInv
<1> SUFFICES ASSUME Init PROVE AssistantInv
  OBVIOUS
<1>1. TypeOK
  BY NoAnswerType DEF Init, TypeOK
<1>2. FailsClosed
  BY NoAnswerType DEF Init, FailsClosed
<1>3. RegistryInv
  BY DEF Init, RegistryInv
<1>4. DecisionInv /\ OneDecision
  BY DEF Init, DecisionInv, OneDecision
<1>5. QED
  BY <1>1, <1>2, <1>3, <1>4 DEF AssistantInv

(* The registry's entries are changed by reviews in their receipts only. *)
LEMMA ReviewEntries ==
  ASSUME TypeOK, NEW v \in Reviews, Review(v)
  PROVE  /\ registry' \in Seq([key : Analyses \X Nat, receipt : Reviews \cup {Undecided}])
         /\ Len(registry') = Len(registry) /\ DOMAIN registry' = DOMAIN registry
         /\ \A i \in DOMAIN registry :
              /\ registry'[i].key = registry[i].key
              /\ registry[i].receipt # Undecided => registry'[i].receipt # Undecided
         /\ outcome'[v] = "receipt" =>
              /\ \E i \in DOMAIN registry : registry[i].key = Target[v]
              /\ \A i \in DOMAIN registry : registry[i].key = Target[v]
                   => registry[i].receipt = Undecided /\ registry'[i].receipt # Undecided
         /\ \A u \in Reviews \ {v} : outcome'[u] = outcome[u]
<1> DEFINE E == [key : Analyses \X Nat, receipt : Reviews \cup {Undecided}]
<1>1. registry \in Seq(E) /\ outcome \in [Reviews -> {"new", "receipt", "unknown", "duplicate"}]
  BY DEF TypeOK
<1>2. \A u \in Reviews \ {v} : outcome'[u] = outcome[u]
  BY <1>1 DEF Review
<1> HIDE DEF E
<1>3. CASE UNCHANGED registry /\ outcome'[v] # "receipt"
  BY <1>1, <1>2, <1>3 DEF E
<1>4. CASE /\ Target[v] \in Keys(registry) /\ ~AlreadyDecided(v)
           /\ registry' = [i \in DOMAIN registry |->
                            IF registry[i].key = Target[v]
                              THEN [registry[i] EXCEPT !.receipt = v] ELSE registry[i]]
  <2>1. DOMAIN registry = 1 .. Len(registry) /\ Len(registry) \in Nat
        /\ \A i \in DOMAIN registry : registry[i] \in E
    BY <1>1, LenProperties, ElementOfSeq
  <2>2. \A i \in DOMAIN registry :
          registry'[i] = IF registry[i].key = Target[v]
                           THEN [registry[i] EXCEPT !.receipt = v] ELSE registry[i]
    BY <1>4
  <2>3. \A i \in DOMAIN registry : registry'[i] \in E
    BY <2>1, <2>2 DEF E
  <2>4. registry' \in Seq(E) /\ Len(registry') = Len(registry) /\ DOMAIN registry' = DOMAIN registry
    <3>1. registry' \in [1 .. Len(registry) -> E]
      BY <1>4, <2>1, <2>3
    <3>2. QED
      BY <2>1, <3>1, ListIsSeq
  <2>5. \A i \in DOMAIN registry :
          /\ registry'[i].key = registry[i].key
          /\ registry[i].key = Target[v] => registry'[i].receipt = v
          /\ registry[i].key # Target[v] => registry'[i] = registry[i]
    BY <2>1, <2>2 DEF E
  <2>6. /\ \E i \in DOMAIN registry : registry[i].key = Target[v]
        /\ \A i \in DOMAIN registry : registry[i].key = Target[v]
             => registry[i].receipt = Undecided
    BY <1>4 DEF Keys, AlreadyDecided
  <2>7. QED
    BY <1>2, <2>4, <2>5, <2>6 DEF E
<1>5. QED
  BY <1>1, <1>3, <1>4 DEF Review, E

(* Types and the order of the registry. *)
LEMMA NextRegistry ==
  ASSUME AssistantInv, [Next]_vars
  PROVE  TypeOK' /\ RegistryInv'
<1> USE DEF AssistantInv
<1>1. ASSUME NEW a \in Analyses, Step(a) PROVE TypeOK' /\ RegistryInv'
  <2>1. attempt' \in [Analyses -> 0 .. MaxRetries] /\ UNCHANGED <<provider, restarts>>
    BY <1>1 DEF Step, Begin, AnswerOffline, PostAnswers, PostRefused, PostFails, Wake, TypeOK
  <2>2. /\ registry' \in Seq([key : Analyses \X Nat, receipt : Reviews \cup {Undecided}])
        /\ registered' \in Seq(Analyses \X Nat)
        /\ RegistryInv'
        /\ answer' \in [Analyses -> OutputType]
    <3>1. CASE Answered(a)
      <4>1. PICK out \in OutputType :
              /\ answer' = [answer EXCEPT ![a] = out]
              /\ \/ UNCHANGED <<registry, registered>>
                 \/ Register(a, out.proposals)
        BY <3>1 DEF Answered
      <4>2. out.proposals \in Seq(SUBSET Nat)
        BY DEF OutputType
      <4>3. answer' \in [Analyses -> OutputType]
        BY <4>1 DEF TypeOK
      <4>4. CASE UNCHANGED <<registry, registered>>
        BY <4>3, <4>4 DEF TypeOK, RegistryInv
      <4>5. QED
        BY <4>1, <4>2, <4>3, <4>4, RegisterEntries
    <3>2. CASE UNCHANGED <<answer, registry, registered>>
      BY <3>2 DEF TypeOK, RegistryInv
    <3>3. QED
      BY <1>1, <3>1, <3>2, StepCases
  <2>3. stage' \in [Analyses -> {"new", "call", "backoff", "answered", "aborted"}]
        /\ outcome' = outcome
    BY <1>1, StepCases DEF Answered, TypeOK
  <2>4. QED
    BY <2>1, <2>2, <2>3 DEF TypeOK
<1>2. ASSUME NEW v \in Reviews, Review(v) PROVE TypeOK' /\ RegistryInv'
  <2>1. UNCHANGED <<provider, stage, attempt, answer, restarts, registered>>
        /\ outcome' \in [Reviews -> {"new", "receipt", "unknown", "duplicate"}]
    BY <1>2 DEF Review, TypeOK
  <2>2. TypeOK'
    BY <1>2, <2>1, ReviewEntries DEF TypeOK
  <2>3. RegistryInv'
    BY <1>2, <2>1, ReviewEntries DEF RegistryInv
  <2>4. QED
    BY <2>2, <2>3
<1>3. CASE Restart
  <2>1. registry' = <<>> /\ registered' = <<>>
    BY <1>3 DEF Restart
  <2>2. TypeOK'
    BY <1>3, <2>1 DEF Restart, TypeOK
  <2>3. RegistryInv'
    BY <2>1 DEF RegistryInv
  <2>4. QED
    BY <2>2, <2>3
<1>4. CASE UNCHANGED vars
  BY <1>4 DEF vars, TypeOK, RegistryInv
<1>5. QED
  BY <1>1, <1>2, <1>3, <1>4 DEF Next

(* Only a checked output becomes a response. *)
LEMMA NextFailsClosed ==
  ASSUME AssistantInv, [Next]_vars
  PROVE  FailsClosed'
<1> USE DEF AssistantInv
<1>1. ASSUME NEW a \in Analyses, Step(a) PROVE FailsClosed'
  <2>1. CASE Answered(a)
    <3>1. PICK out \in OutputType : /\ ~out.secret
                                    /\ ~CitationError(out, Evidence[a])
                                    /\ answer' = [answer EXCEPT ![a] = out]
      BY <2>1 DEF Answered
    <3>2. \A b \in Analyses : answer'[b] = IF b = a THEN out ELSE answer[b]
      BY <3>1 DEF TypeOK
    <3>3. QED
      BY <3>1, <3>2 DEF FailsClosed, CitationError
  <2>2. QED
    BY <1>1, <2>1, StepCases DEF FailsClosed
<1>2. CASE UNCHANGED answer
  BY <1>2 DEF FailsClosed
<1>3. QED
  BY <1>1, <1>2 DEF Next, vars, Review, Restart

(* A registered proposal is new, so it is not one decided before. *)
LEMMA NextDecisions ==
  ASSUME AssistantInv, TypeOK', [Next]_vars
  PROVE  DecisionInv' /\ OneDecision'
<1> USE DEF AssistantInv
<1>0. /\ \A i \in DOMAIN registry : registry[i].key \in Proposed'
      /\ \A v \in Reviews : outcome[v] = "receipt" => Target[v] \in Proposed'
  BY ProposedStays DEF DecisionInv
<1>1. ASSUME \A v \in Reviews : outcome'[v] = "receipt" => Target[v] \in Proposed'
      PROVE  \A v \in Reviews : outcome'[v] = "receipt" =>
               /\ Target[v][1] \in Analyses
               /\ Target[v][2] \in DOMAIN answer'[Target[v][1]].proposals
  BY <1>1 DEF Proposed
<1>2. ASSUME NEW a \in Analyses, Step(a) PROVE DecisionInv' /\ OneDecision'
  <2>1. outcome' = outcome /\ stage[a] # "answered"
    BY <1>2, StepCases
  <2>2. ASSUME NEW i \in DOMAIN registry'
        PROVE  /\ registry'[i].key \in Proposed'
               /\ \A v \in Reviews : outcome[v] = "receipt" /\ registry'[i].key = Target[v]
                    => registry'[i].receipt # Undecided
    <3>1. CASE \E j \in DOMAIN registry : registry'[i] = registry[j]
      BY <1>0, <3>1 DEF DecisionInv
    <3>2. ASSUME NEW out \in OutputType, Register(a, out.proposals),
                 answer' = [answer EXCEPT ![a] = out],
                 stage' = [stage EXCEPT ![a] = "answered"],
                 NEW j \in DOMAIN out.proposals,
                 registry'[i] = [key |-> <<a, j>>, receipt |-> Undecided]
          PROVE  /\ registry'[i].key \in Proposed'
                 /\ \A v \in Reviews : outcome[v] = "receipt" => registry'[i].key # Target[v]
      <4>1. answer'[a] = out /\ stage'[a] = "answered" /\ registry'[i].key = <<a, j>>
        BY <3>2 DEF TypeOK
      <4>2. <<a, j>> \in Proposed'
        <5>1. j \in Nat
          BY LenProperties DEF OutputType
        <5>2. QED
          BY <3>2, <4>1, <5>1 DEF Proposed
      <4>3. <<a, j>> \notin Proposed
        BY <2>1 DEF Proposed
      <4>4. QED
        BY <4>1, <4>2, <4>3 DEF DecisionInv
    <3>3. CASE Answered(a)
      <4>1. PICK out \in OutputType :
              /\ answer' = [answer EXCEPT ![a] = out]
              /\ stage' = [stage EXCEPT ![a] = "answered"]
              /\ \/ UNCHANGED <<registry, registered>>
                 \/ Register(a, out.proposals)
        BY <3>3 DEF Answered
      <4>2. out.proposals \in Seq(SUBSET Nat)
        BY DEF OutputType
      <4>3. CASE Register(a, out.proposals)
        <5>1. \/ \E j \in DOMAIN registry : registry'[i] = registry[j]
              \/ \E j \in DOMAIN out.proposals :
                   registry'[i] = [key |-> <<a, j>>, receipt |-> Undecided]
          BY <4>2, <4>3, RegisterEntries
        <5>2. QED
          BY <3>1, <3>2, <4>1, <4>3, <5>1
      <4>4. QED
        BY <3>1, <4>1, <4>3
    <3>4. QED
      BY <1>2, <3>1, <3>3, StepCases
  <2>3. DecisionInv'
    BY <1>0, <2>1, <2>2 DEF DecisionInv
  <2>4. OneDecision'
    BY <1>0, <1>1, <2>1 DEF OneDecision
  <2>5. QED
    BY <2>3, <2>4
<1>3. ASSUME NEW v \in Reviews, Review(v) PROVE DecisionInv' /\ OneDecision'
  <2>1. \A u \in Reviews \ {v} : outcome'[u] = outcome[u]
    BY <1>3, ReviewEntries
  <2>2. /\ DOMAIN registry' = DOMAIN registry
        /\ \A i \in DOMAIN registry :
             /\ registry'[i].key = registry[i].key
             /\ registry[i].receipt # Undecided => registry'[i].receipt # Undecided
    BY <1>3, ReviewEntries
  <2>3. outcome'[v] = "receipt" =>
          /\ \E i \in DOMAIN registry : registry[i].key = Target[v]
          /\ \A i \in DOMAIN registry : registry[i].key = Target[v]
               => registry[i].receipt = Undecided /\ registry'[i].receipt # Undecided
    BY <1>3, ReviewEntries
  <2>4. outcome'[v] = "receipt" => Target[v] \in Proposed'
    BY <1>0, <2>3
  <2>5. \A u \in Reviews : outcome'[u] = "receipt" => Target[u] \in Proposed'
    BY <1>0, <2>1, <2>4
  <2>6. \A u \in Reviews \ {v} :
          ~(outcome'[u] = "receipt" /\ outcome'[v] = "receipt" /\ Target[u] = Target[v])
    BY <2>1, <2>3 DEF DecisionInv
  <2>7. DecisionInv'
    BY <1>0, <2>1, <2>2, <2>3, <2>5 DEF DecisionInv
  <2>8. OneDecision'
    BY <1>1, <2>1, <2>5, <2>6 DEF OneDecision
  <2>9. QED
    BY <2>7, <2>8
<1>4. CASE Restart
  <2>1. DOMAIN registry' = {} /\ outcome' = outcome
    BY <1>4 DEF Restart
  <2>2. QED
    BY <1>0, <1>1, <2>1 DEF DecisionInv, OneDecision
<1>5. CASE UNCHANGED vars
  BY <1>5 DEF vars, DecisionInv, OneDecision, Proposed
<1>6. QED
  BY <1>2, <1>3, <1>4, <1>5 DEF Next

(* The inductive invariant of the service, for every provider. *)
THEOREM AssistantInductive == Spec => []AssistantInv
<1>1. AssistantInv /\ [Next]_vars => AssistantInv'
  <2> SUFFICES ASSUME AssistantInv, [Next]_vars PROVE AssistantInv'
    OBVIOUS
  <2>1. TypeOK' /\ RegistryInv'
    BY NextRegistry
  <2>2. QED
    BY <2>1, NextFailsClosed, NextDecisions DEF AssistantInv
<1>2. QED
  BY <1>1, InitInv, PTL DEF Spec

(* Whatever the provider returns, a response cites supplied evidence only, *)
(* abstentions propose nothing and no secret leaves (analyze).             *)
THEOREM ClosedFailure == Spec => []FailsClosed
<1>1. AssistantInv => FailsClosed
  BY DEF AssistantInv
<1>2. QED
  BY <1>1, AssistantInductive, PTL

(* A proposal is decided once at most, also after it was evicted or the    *)
(* service restarted, and only if a response contains it (review).         *)
THEOREM DecidedOnce == Spec => []OneDecision
<1>1. AssistantInv => OneDecision
  BY DEF AssistantInv
<1>2. QED
  BY <1>1, AssistantInductive, PTL

(* The registry's keys are the newest registered ones, up to the limit     *)
(* (_register).                                                            *)
THEOREM NewestRegistered == Spec => []RegistryHoldsNewest
<1>1. AssistantInv => RegistryHoldsNewest
  <2> SUFFICES ASSUME AssistantInv PROVE RegistryHoldsNewest
    OBVIOUS
  <2> DEFINE n == Len(registry)
             N == Len(registered)
             S == {registered[i] : i \in {j \in DOMAIN registered : j > N - RegistryLimit}}
  <2>1. /\ n \in Nat /\ DOMAIN registry = 1 .. n
        /\ N \in Nat /\ DOMAIN registered = 1 .. N
        /\ n = IF N < RegistryLimit THEN N ELSE RegistryLimit
        /\ \A i \in 1 .. n : registry[i].key = registered[N - n + i]
    <3>1. /\ n \in Nat /\ DOMAIN registry = 1 .. n
          /\ N \in Nat /\ DOMAIN registered = 1 .. N
      BY LenProperties DEF AssistantInv, TypeOK
    <3>2. QED
      BY <3>1 DEF AssistantInv, RegistryInv
  <2> HIDE DEF n, N
  <2>2. ASSUME NEW i \in 1 .. n PROVE registry[i].key \in S
    <3>1. N - n + i \in 1 .. N /\ N - n + i > N - RegistryLimit
      BY <2>1
    <3>2. QED
      BY <2>1, <3>1
  <2>3. ASSUME NEW j \in 1 .. N, j > N - RegistryLimit PROVE registered[j] \in Keys(registry)
    <3>1. j - (N - n) \in 1 .. n /\ N - n + (j - (N - n)) = j
      BY <2>1, <2>3
    <3>2. registry[j - (N - n)].key = registered[j]
      BY <2>1, <3>1
    <3>3. QED
      BY <2>1, <3>1, <3>2 DEF Keys
  <2>4. Keys(registry) \subseteq S
    BY <2>1, <2>2 DEF Keys
  <2>5. S \subseteq Keys(registry)
    BY <2>1, <2>3
  <2>6. QED
    BY <2>4, <2>5 DEF RegistryHoldsNewest, N
<1>2. QED
  BY <1>1, AssistantInductive, PTL
=============================================================================
