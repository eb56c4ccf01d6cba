------------------------- MODULE ProviderSendProofs ------------------------
(* Proofs about ProviderSend for any number of deliveries, attempts and    *)
(* credentials, and any timeouts and lives that fit TimeAssumption.        *)
EXTENDS ProviderSend, TLAPS

USE VendorAssumption, BoundAssumption, TimeAssumption

\* The constants that bound and time a behaviour are numbers.
LEMMA Numbers ==
    /\ MaxAttempt \in Nat /\ MaxTokens \in Nat /\ MaxTime \in Nat
    /\ Timeout \in Nat /\ Margin \in Nat /\ DefaultTtl \in Nat /\ Life \in Nat /\ Kept \in Nat
    /\ 0 \in 0..MaxTokens /\ 0 \in 0..MaxTime
OBVIOUS

-----------------------------------------------------------------------------
(* Answers and verdicts *)

\* What the providers make of an answer is a verdict, whatever the answer.
LEMMA VerdictValue ==
    ASSUME NEW v \in AllVendors, NEW a
    PROVE  Verdict(v, a) \in Verdicts
<1>1. Huawei(a) \in Verdicts
  BY DEF Huawei, Verdicts
<1>2. Oppo(a) \in Verdicts
  BY DEF Oppo, Verdicts
<1>3. Vivo(a) \in Verdicts
  BY DEF Vivo, Verdicts
<1>4. Xiaomi(a) \in Verdicts
  BY DEF Xiaomi, Verdicts
<1>5. Apns(a) \in Verdicts
  BY DEF Apns, Verdicts
<1>6. Fcm(a) \in Verdicts
  BY DEF Fcm, Verdicts
<1> QED  BY <1>1, <1>2, <1>3, <1>4, <1>5, <1>6 DEF Verdict, AllVendors

\* What the worker records of a verdict.
LEMMA RecordedValue ==
    ASSUME NEW d, NEW verdict \in Verdicts
    PROVE  /\ Recorded(d, verdict) \in {"retrying", "accepted", "failed"}
           /\ Recorded(d, verdict) = "retrying" => attempts[d] < MaxAttempt
           /\ verdict = "invalid" => Recorded(d, verdict) = "failed"
BY DEF Recorded, Verdicts

-----------------------------------------------------------------------------
(* Credentials *)

LEMMA SeqFacts ==
    ASSUME NEW S, NEW s \in Seq(S), NEW e \in S
    PROVE  /\ Len(s) \in Nat /\ DOMAIN s = 1..Len(s)
           /\ \A k \in DOMAIN s : s[k] \in S
           /\ Append(s, e) \in Seq(S)
           /\ Len(Append(s, e)) = Len(s) + 1
           /\ DOMAIN Append(s, e) = 1..(Len(s) + 1)
           /\ \A k \in DOMAIN s : Append(s, e)[k] = s[k]
           /\ Append(s, e)[Len(s) + 1] = e
OBVIOUS

\* A credential that is cached leaves the cache early enough for the request that
\* fetched it and the one that carries it, if it lives longer than the margin.
LEMMA KeptForBound ==
    ASSUME NEW life \in Nat, vendor # "huawei" => life = Life
    PROVE  KeptFor(life) \in Int /\ KeptFor(life) + 2 * Timeout <= life
BY DEF KeptFor

LEMMA LivesValue ==
    ASSUME NEW life \in Lives
    PROVE  life \in Nat /\ (vendor # "huawei" => life = Life)
BY DEF Lives

-----------------------------------------------------------------------------
(* Invariance *)

LEMMA InvInit == Init => Inv
<1> SUFFICES ASSUME Init PROVE Inv
  OBVIOUS
<1> USE DEF Init
<1>1. TypeOK
  BY DEF TypeOK, Empty
<1>2. RejectedNotReused
  BY DEF RejectedNotReused
<1>3. Progress /\ Deadlines /\ Credentials
  BY DEF Progress, Deadlines, Credentials, Empty
<1> QED  BY <1>1, <1>2, <1>3 DEF Inv

\* The worker settles its delivery, which was sending.
LEMMA SettleStep ==
    ASSUME Inv, NEW verdict \in Verdicts, Settle(verdict), pc # "idle",
           UNCHANGED <<attempts, cur>>
    PROVE  /\ status' \in [Deliveries -> {"pending", "sending", "retrying", "accepted", "failed"}]
           /\ invalid' \in SUBSET Deliveries
           /\ Progress'
<1> DEFINE r == Recorded(cur, verdict)
<1>1. /\ r \in {"retrying", "accepted", "failed"}
      /\ r = "retrying" => attempts[cur] < MaxAttempt
      /\ verdict = "invalid" => r = "failed"
  BY RecordedValue
<1>2. status' = [status EXCEPT ![cur] = r]
  BY DEF Settle
<1> HIDE DEF r
<1>3. cur \in Deliveries /\ status[cur] = "sending" /\ TypeOK
  BY DEF Inv, TypeOK, Progress
<1>4. status'[cur] = r /\ \A d \in Deliveries \ {cur} : status'[d] = status[d]
  BY <1>2, <1>3 DEF TypeOK
<1>5. status' \in [Deliveries -> {"pending", "sending", "retrying", "accepted", "failed"}]
  BY <1>1, <1>2, <1>3 DEF TypeOK
<1>6. cur \notin invalid /\ invalid \subseteq Deliveries
  BY <1>3 DEF Inv, TypeOK, Progress
<1>7. /\ invalid' \subseteq Deliveries
      /\ \A d \in invalid' : (d \in invalid /\ d # cur) \/ (d = cur /\ verdict = "invalid")
  BY <1>3, <1>6 DEF Settle
<1>8. Progress'
  <2>1. (pc # "idle" => status[cur] = "sending")'
    BY DEF Settle
  <2>2. (\A d \in Deliveries : status[d] \in {"pending", "retrying"} => attempts[d] < MaxAttempt)'
    BY <1>1, <1>4, <1>3 DEF Inv, Progress
  <2>3. (\A d \in invalid : status[d] = "failed")'
    BY <1>1, <1>4, <1>6, <1>7 DEF Inv, Progress
  <2> QED  BY <2>1, <2>2, <2>3 DEF Progress
<1> QED  BY <1>5, <1>7, <1>8

LEMMA BeginStep ==
    ASSUME Inv, NEW d \in Deliveries, Begin(d)
    PROVE  Inv'
<1>1. TypeOK /\ attempts[d] < MaxAttempt /\ d \notin invalid
  BY DEF Inv, Begin, Progress
<1>2. /\ status'[d] = "sending"
      /\ \A x \in Deliveries \ {d} :
             status'[x] = status[x] /\ attempts'[x] = attempts[x]
      /\ attempts'[d] = attempts[d] + 1
  BY <1>1 DEF Begin, TypeOK
<1>3. TypeOK'
  <2>1. attempts[d] + 1 \in 0..MaxAttempt
    <3>1. attempts[d] \in 0..MaxAttempt
      BY <1>1 DEF TypeOK
    <3> QED  BY <1>1, <3>1, Numbers
  <2>2. attempts' \in [Deliveries -> 0..MaxAttempt]
    BY <1>1, <2>1 DEF TypeOK, Begin
  <2> QED  BY <1>1, <2>2 DEF TypeOK, Begin, tokenVars
<1>6. RejectedNotReused'
  BY DEF RejectedNotReused, Begin
<1>7. Progress'
  <2>1. (pc # "idle" => status[cur] = "sending")'
    BY <1>2 DEF Begin
  <2>2. (\A x \in Deliveries : status[x] \in {"pending", "retrying"} => attempts[x] < MaxAttempt)'
    BY <1>2 DEF Inv, Progress
  <2>3. (\A x \in invalid : status[x] = "failed")'
    BY <1>1, <1>2 DEF Inv, Progress, Begin, TypeOK
  <2> QED  BY <2>1, <2>2, <2>3 DEF Progress
<1>8. Deadlines'
  BY DEF Deadlines, Begin
<1>9. Credentials'
  BY DEF Inv, Credentials, Begin, tokenVars
<1> QED  BY <1>3, <1>6, <1>7, <1>8, <1>9 DEF Inv

\* The worker settles its delivery without an answer: the device's token is
\* malformed, or there is no credential.
LEMMA SettleUnanswered ==
    ASSUME Inv, NEW verdict \in {"invalid", "retry"}, Settle(verdict), pc # "idle",
           UNCHANGED <<vendor, attempts, tokenVars, cache, cur, now>>
    PROVE  Inv'
<1>1. TypeOK /\ cur \in Deliveries
  BY DEF Inv, TypeOK
<1>2. verdict \in Verdicts
  BY DEF Verdicts
<1>3. /\ status' \in [Deliveries -> {"pending", "sending", "retrying", "accepted", "failed"}]
      /\ invalid' \in SUBSET Deliveries
      /\ Progress'
  BY <1>1, <1>2, SettleStep
<1>4. TypeOK'
  BY <1>1, <1>3, Numbers DEF TypeOK, Settle, tokenVars
<1>5. RejectedNotReused' /\ Deadlines'
  BY DEF RejectedNotReused, Deadlines, Settle
<1>6. Credentials'
  BY DEF Inv, Credentials, Settle, tokenVars
<1> QED  BY <1>3, <1>4, <1>5, <1>6 DEF Inv

\* What the invariant says of the credentials, one by one.
LEMMA CredentialFacts ==
    ASSUME Inv
    PROVE  /\ DOMAIN issued = 1..Len(issued) /\ Len(issued) \in Nat /\ Len(issued) <= MaxTokens
           /\ \A k \in DOMAIN issued :
                  /\ issued[k].life \in Nat /\ issued[k].until \in Nat
                  /\ k # 0 /\ k \in 0..MaxTokens
           /\ now \in Nat /\ since \in Nat /\ cache.expiry \in Int
<1>1. issued \in Seq([life : Nat, until : Nat]) /\ Len(issued) <= MaxTokens
  BY DEF Inv, TypeOK
<1>2. DOMAIN issued = 1..Len(issued) /\ Len(issued) \in Nat
  BY <1>1
<1>3. \A k \in DOMAIN issued : issued[k].life \in Nat /\ issued[k].until \in Nat
  <2>1. [life |-> 0, until |-> 0] \in [life : Nat, until : Nat]
    OBVIOUS
  <2>2. \A k \in DOMAIN issued : issued[k] \in [life : Nat, until : Nat]
    BY <1>1, <2>1, SeqFacts
  <2> QED  BY <2>2
<1>4. \A k \in DOMAIN issued : k # 0 /\ k \in 0..MaxTokens
  BY <1>1, <1>2, Numbers
<1>5. now \in Nat /\ since \in Nat /\ cache.expiry \in Int
  BY Numbers DEF Inv, TypeOK
<1> QED  BY <1>1, <1>2, <1>3, <1>4, <1>5

\* The steps between the beginning of an attempt and its answer leave the
\* deliveries alone.
LEMMA Undecided ==
    ASSUME Inv, pc # "idle", UNCHANGED <<vendor, deliveryVars, cur>>
    PROVE  Progress'
BY DEF Inv, Progress, deliveryVars

\* A request is sent with a credential that is in the cache, or with none.
LEMMA NoCredentialStep ==
    ASSUME Inv, NoCredential
    PROVE  Inv'
<1> USE DEF NoCredential, Post
<1>1. TypeOK'
  BY Numbers DEF Inv, TypeOK, deliveryVars, tokenVars
<1>2. Progress'
  BY Undecided
<1>3. RejectedNotReused'
  BY CredentialFacts DEF Inv, RejectedNotReused, Credentials, tokenVars
<1>4. Deadlines'
  BY CredentialFacts, Numbers DEF Deadlines
<1>5. Credentials'
  BY DEF Inv, Credentials, tokenVars
<1> QED  BY <1>1, <1>2, <1>3, <1>4, <1>5 DEF Inv

LEMMA UseCachedStep ==
    ASSUME Inv, UseCached
    PROVE  Inv'
<1> USE DEF UseCached, Cached, Post
<1>1. cache.token \in DOMAIN issued /\ cache.expiry + Timeout <= issued[cache.token].until
  BY DEF Inv, Credentials
<1>2. TypeOK'
  BY <1>1, CredentialFacts DEF Inv, TypeOK, deliveryVars, tokenVars
<1>3. Progress'
  BY Undecided
<1>4. RejectedNotReused'
  BY DEF Inv, RejectedNotReused, Credentials, tokenVars
<1>5. now + Timeout < issued[cache.token].until
  BY <1>1, CredentialFacts, Numbers
<1>6. Deadlines'
  BY <1>1, <1>5, CredentialFacts, Numbers DEF Deadlines, tokenVars
<1>7. Credentials'
  BY DEF Inv, Credentials, tokenVars
<1> QED  BY <1>2, <1>3, <1>4, <1>6, <1>7 DEF Inv

LEMMA IssueStep ==
    ASSUME Inv, NEW life \in Lives, Issue(life)
    PROVE  Inv'
<1> USE DEF Issue
<1>1. life \in Nat /\ (vendor # "huawei" => life = Life)
  BY LivesValue
<1>2. issued \in Seq([life : Nat, until : Nat])
  BY DEF Inv, TypeOK
<1> PICK fresh \in [life : Nat, until : Nat] : fresh = [life |-> life, until |-> now + life]
  <2>1. now + life \in Nat
    BY SMTT(30), <1>1, CredentialFacts
  <2> QED  BY <1>1, <2>1
<1>3. /\ issued' \in Seq([life : Nat, until : Nat])
      /\ Len(issued') = Len(issued) + 1 /\ DOMAIN issued' = 1..(Len(issued) + 1)
      /\ \A k \in DOMAIN issued : issued'[k] = issued[k]
      /\ issued'[Len(issued) + 1] = fresh
  <2>1. issued' = Append(issued, fresh)
    OBVIOUS
  <2> DEFINE Credential == [life : Nat, until : Nat]
  <2>2. issued \in Seq(Credential) /\ fresh \in Credential
    BY <1>2
  <2> HIDE DEF Credential
  <2>3. /\ issued' \in Seq(Credential)
        /\ Len(issued') = Len(issued) + 1 /\ DOMAIN issued' = 1..(Len(issued) + 1)
        /\ \A k \in DOMAIN issued : issued'[k] = issued[k]
        /\ issued'[Len(issued) + 1] = fresh
    BY SMTT(30), <2>1, <2>2, SeqFacts
  <2> QED  BY <2>3 DEF Credential
<1>4. /\ Len(issued) + 1 \in DOMAIN issued' /\ Len(issued) + 1 \notin DOMAIN issued
      /\ DOMAIN issued' = DOMAIN issued \cup {Len(issued) + 1}
      /\ issued'[Len(issued) + 1].life = life /\ issued'[Len(issued) + 1].until = now + life
      /\ Len(issued) + 1 \in 0..MaxTokens
  BY <1>3, CredentialFacts, Numbers
<1>5. TypeOK'
  <2>1. issued' \in Seq([life : Nat, until : Nat]) /\ Len(issued') <= MaxTokens
    BY <1>3, CredentialFacts, Numbers
  <2> QED  BY <1>4, <2>1 DEF Inv, TypeOK, deliveryVars
<1>6. Progress'
  BY Undecided
<1>7. RejectedNotReused'
  BY DEF RejectedNotReused
<1>8. rejected \subseteq DOMAIN issued
  BY DEF Inv, Credentials
<1>9. Deadlines'
  BY <1>1, <1>4, <1>8, CredentialFacts, Numbers DEF Deadlines
<1>10. Credentials'
  <2>1. (vendor \notin Caching => cache.token = 0 /\ token = 0)'
    BY DEF Inv, Credentials
  <2>2. (vendor # "huawei" => \A k \in DOMAIN issued : issued[k].life = Life)'
    BY <1>1, <1>3, <1>4 DEF Inv, Credentials
  <2>3. (cache.token # 0 => /\ cache.token \in DOMAIN issued
                            /\ cache.expiry + Timeout <= issued[cache.token].until)'
    BY <1>3, <1>4 DEF Inv, Credentials
  <2>4. (cache.token \in rejected => vendor = "apns")' /\ (rejected \subseteq DOMAIN issued)'
    BY <1>4 DEF Inv, Credentials
  <2> QED  BY <2>1, <2>2, <2>3, <2>4 DEF Credentials
<1> QED  BY <1>5, <1>6, <1>7, <1>9, <1>10 DEF Inv

\* The credential that arrives outlives its stay in the cache by a request, even
\* when its own request took as long as it may.
LEMMA FetchedStep ==
    ASSUME Inv, Fetched
    PROVE  Inv'
<1> USE DEF Fetched, Post
<1>1. /\ token \in DOMAIN issued /\ token \notin rejected
      /\ issued[token].until = since + issued[token].life
      /\ now <= since + Timeout
  BY DEF Inv, Deadlines
<1>2. PICK life \in Nat : life = issued[token].life
  BY <1>1, CredentialFacts
<1>3. vendor # "huawei" => life = Life
  BY <1>1, <1>2 DEF Inv, Credentials
<1>4. KeptFor(life) \in Int /\ KeptFor(life) + 2 * Timeout <= life
  BY <1>3, KeptForBound
<1>5. cache' = [token |-> token, expiry |-> now + KeptFor(life)]
  BY <1>2
<1>6. now + KeptFor(life) \in Int /\ now + KeptFor(life) + Timeout <= issued[token].until
  <2>1. PICK kept \in Int : kept = KeptFor(life) /\ kept + 2 * Timeout <= life
    BY <1>4
  <2>2. PICK until \in Nat : until = issued[token].until /\ until = since + life
    BY <1>1, <1>2, CredentialFacts
  <2>3. now \in Nat /\ since \in Nat /\ Timeout \in Nat /\ now <= since + Timeout
    BY <1>1, CredentialFacts, Numbers
  <2>4. now + kept \in Int /\ now + kept + Timeout <= until
    <3> HIDE VendorAssumption, BoundAssumption, TimeAssumption DEF Fetched
    <3> QED  BY <2>1, <2>2, <2>3
  <2> QED  BY <2>1, <2>2, <2>4
<1>7. TypeOK'
  <2>1. cache' \in [token : 0..MaxTokens, expiry : Int]
    BY <1>1, <1>5, <1>6, CredentialFacts
  <2> QED  BY <1>1, <2>1, CredentialFacts DEF Inv, TypeOK, deliveryVars, tokenVars
<1>8. Progress'
  BY Undecided
<1>9. RejectedNotReused'
  BY <1>1 DEF RejectedNotReused, tokenVars
<1>10. now + Timeout < issued[token].until \/ issued[token].life <= Margin
  BY SMTT(30), <1>1, <1>2, CredentialFacts, Numbers
<1>11. Deadlines'
  BY <1>1, <1>10, CredentialFacts, Numbers DEF Deadlines, tokenVars
<1>12. Credentials'
  BY <1>1, <1>5, <1>6, CredentialFacts DEF Inv, Credentials, tokenVars
<1> QED  BY <1>7, <1>8, <1>9, <1>11, <1>12 DEF Inv

LEMMA AnswerStep ==
    ASSUME Inv, NEW a \in Answers, Answer(a)
    PROVE  Inv'
<1>2. vendor \in AllVendors /\ TypeOK
  BY DEF Inv, TypeOK
<1>3. PICK verdict \in Verdicts : verdict = Verdict(vendor, a)
  BY <1>2, VerdictValue
<1>4. Settle(verdict) /\ pc = "post" /\ UNCHANGED <<attempts, cur>>
  BY <1>3 DEF Answer
<1>5. /\ status' \in [Deliveries -> {"pending", "sending", "retrying", "accepted", "failed"}]
      /\ invalid' \in SUBSET Deliveries
      /\ Progress'
  BY <1>3, <1>4, SettleStep
<1>6. /\ rejected' \subseteq DOMAIN issued /\ rejected' \subseteq Tokens
      /\ a.http \notin Refused => rejected' = rejected
  <2>1. rejected \subseteq DOMAIN issued /\ rejected \subseteq Tokens
    BY <1>2 DEF Inv, Credentials, TypeOK
  <2>2. token # 0 => token \in DOMAIN issued /\ token \in Tokens
    BY <1>2, <1>4, CredentialFacts, Numbers DEF Inv, Deadlines, Tokens
  <2> QED  BY <2>1, <2>2 DEF Answer
<1>7. cache' = cache \/ (cache' = Empty /\ a.http \in Refused)
  BY DEF Answer, Invalidated
<1>8. TypeOK'
  <2>1. cache' \in [token : 0..MaxTokens, expiry : Int]
    BY <1>2, <1>7, Numbers DEF TypeOK, Empty
  <2> QED  BY <1>2, <1>4, <1>5, <1>6, <2>1, Numbers DEF TypeOK, Settle, Answer
<1>9. RejectedNotReused' /\ Deadlines'
  BY <1>4 DEF RejectedNotReused, Deadlines, Settle
<1>10. Credentials'
  <2>1. issued' = issued /\ vendor' = vendor /\ token' = 0
    BY <1>4 DEF Answer, Settle
  <2>2. cache'.token # 0 => cache' = cache
    BY <1>7 DEF Empty
  <2>3. (cache.token \in rejected => vendor = "apns")'
    <3>1. CASE a.http \notin Refused
      BY <1>6, <1>7, <2>1, <3>1 DEF Inv, Credentials
    <3>2. CASE a.http \in Refused
      <4>1. cache'.token # 0 => vendor = "apns"
        BY <1>2, <2>2, <3>2 DEF Answer, Invalidated, Inv, Credentials, Caching, AllVendors, Empty
      <4>2. 0 \notin rejected'
        BY <1>6, CredentialFacts
      <4> QED  BY <2>1, <4>1, <4>2
    <3> QED  BY <3>1, <3>2
  <2>4. (vendor \notin Caching => cache.token = 0 /\ token = 0)'
    BY <2>1, <2>2 DEF Inv, Credentials
  <2>5. (cache.token # 0 => /\ cache.token \in DOMAIN issued
                            /\ cache.expiry + Timeout <= issued[cache.token].until)'
    BY <2>1, <2>2 DEF Inv, Credentials
  <2> QED  BY <1>6, <2>1, <2>3, <2>4, <2>5 DEF Inv, Credentials
<1> QED  BY <1>5, <1>8, <1>9, <1>10 DEF Inv

LEMMA TickStep ==
    ASSUME Inv, Tick
    PROVE  Inv'
<1> USE DEF Tick, deliveryVars, tokenVars, workerVars
<1>1. TypeOK'
  BY CredentialFacts, Numbers DEF Inv, TypeOK
<1>2. RejectedNotReused'
  BY DEF Inv, RejectedNotReused
<1>3. Progress' /\ Credentials'
  BY DEF Inv, Progress, Credentials
<1>4. Deadlines'
  BY CredentialFacts, Numbers DEF Inv, Deadlines
<1> QED  BY <1>1, <1>2, <1>3, <1>4 DEF Inv

LEMMA StutterStep ==
    ASSUME Inv, UNCHANGED vars
    PROVE  Inv'
<1> USE DEF vars
<1>1. TypeOK'
  BY DEF Inv, TypeOK
<1>2. RejectedNotReused'
  BY DEF Inv, RejectedNotReused
<1>3. Progress' /\ Deadlines' /\ Credentials'
  BY DEF Inv, Progress, Deadlines, Credentials
<1> QED  BY <1>1, <1>2, <1>3 DEF Inv

LEMMA InvNext == Inv /\ [Next]_vars => Inv'
<1> SUFFICES ASSUME Inv, [Next]_vars PROVE Inv'
  OBVIOUS
<1>1. CASE \E d \in Deliveries : Begin(d)
  BY <1>1, BeginStep
<1>2. CASE Malformation
  BY <1>2, SettleUnanswered DEF Malformation
<1>3. CASE NoCredential
  BY <1>3, NoCredentialStep
<1>4. CASE UseCached
  BY <1>4, UseCachedStep
<1>5. CASE \E life \in Lives : Issue(life)
  BY <1>5, IssueStep
<1>6. CASE Fetched
  BY <1>6, FetchedStep
<1>7. CASE FetchFails
  BY <1>7, SettleUnanswered DEF FetchFails
<1>8. CASE \E a \in Answers : Answer(a)
  BY <1>8, AnswerStep
<1>9. CASE Tick
  BY <1>9, TickStep
<1>10. CASE UNCHANGED vars
  BY <1>10, StutterStep
<1> QED
  BY <1>1, <1>2, <1>3, <1>4, <1>5, <1>6, <1>7, <1>8, <1>9, <1>10 DEF Next

-----------------------------------------------------------------------------
(* Theorems *)

\* The inductive invariant holds in every state of the providers and the worker.
THEOREM Invariance == Spec => []Inv
BY InvInit, InvNext, PTL DEF Spec

\* Every variable keeps its type: no delivery is tried more often than MaxAttempt.
THEOREM TypeCorrect == Spec => []TypeOK
<1>1. Inv => TypeOK
  BY DEF Inv
<1> QED  BY Invariance, <1>1, PTL

\* The margins of the token caches cover a fetch and a request that each take the
\* whole timeout, for every timeout, margin and life that fit TimeAssumption.
THEOREM Freshness == Spec => []FreshToken
<1>1. Inv => FreshToken
  <2> SUFFICES ASSUME Inv, pc = "post", token # 0
               PROVE  issued[token].until > now \/ issued[token].life <= Margin
    BY DEF FreshToken
  <2>1. /\ now <= since + Timeout
        /\ token \in DOMAIN issued
        /\ since + Timeout < issued[token].until \/ issued[token].life <= Margin
    BY DEF Inv, Deadlines
  <2> QED  BY <2>1, CredentialFacts, Numbers
<1> QED  BY Invariance, <1>1, PTL

\* invalidateToken and invalidateAuth drop a rejected credential before any later
\* attempt can pick it up; only APNs keeps its own.
THEOREM Rejection == Spec => []RejectedNotReused
<1>1. Inv => RejectedNotReused
  BY DEF Inv
<1> QED  BY Invariance, <1>1, PTL

=============================================================================
