---------------------------- MODULE ProviderSend ---------------------------
(***************************************************************************)
(* The push providers (internal/provider) as the worker of one process     *)
(* uses them (internal/queue/worker.go), one delivery after another.       *)
(* Huawei, OPPO, vivo and APNs cache a credential; Xiaomi sends a fixed    *)
(* secret and FCM leaves that to its SDK.  The vendors are external: they  *)
(* issue credentials that expire, and answer as they please: any status    *)
(* with any body, whatever the credential.  Providers share nothing, so    *)
(* the deliveries of a behaviour are those of one provider, any of them.   *)
(*                                                                         *)
(* An answer is a class of HTTP status and a class of body; a provider     *)
(* turns it into a verdict, and the worker the verdict into a status.  The *)
(* classes of bodies are the lists of codes and words in the provider's    *)
(* own code; whether a list names the right codes of its vendor is not     *)
(* something the model can tell.                                           *)
(* When a retry is due, and what happens to rows, is in PushQueue.         *)
(***************************************************************************)
EXTENDS Integers, Sequences, FiniteSets

CONSTANTS
    Deliveries,
    Vendors,     \* bound on the providers
    Malformed,   \* deliveries to devices whose token fails ValidateToken
    MaxAttempt,
    Timeout,     \* of an HTTP request (30 s)
    Margin,      \* by which Huawei's credential is renewed early (60 s)
    Ttls,        \* what Huawei may say of a credential's life; 0: nothing
    DefaultTtl,  \* the life that is assumed if it says nothing (55 min)
    Life, Kept,  \* of the others' credentials: at the vendor, and in the cache
    MaxTokens, MaxTime   \* bounds

AllVendors == {"huawei", "oppo", "vivo", "xiaomi", "apns", "fcm"}

ASSUME VendorAssumption == Vendors \subseteq AllVendors /\ Malformed \subseteq Deliveries
ASSUME BoundAssumption == MaxAttempt \in Nat \ {0} /\ {MaxTokens, MaxTime} \subseteq Nat
\* A credential is fetched in one request and used in another.  OPPO keeps one
\* for 20 of 24 hours, vivo for 2 of 24, APNs for 50 of 60 minutes.
ASSUME TimeAssumption ==
    /\ {Timeout, Margin, DefaultTtl, Life, Kept} \subseteq Nat /\ Ttls \subseteq Int
    /\ 2 * Timeout <= Margin /\ Margin < DefaultTtl
    /\ Kept + 2 * Timeout <= Life

VARIABLES
    vendor,      \* the provider of this behaviour
    status,      \* status[d]
    attempts,    \* attempts[d]
    invalid,     \* deliveries whose device was marked invalid
    issued,      \* credentials that vendors have issued, in order
    rejected,    \* credentials that were answered with HTTP 401 or 403
    cache,       \* the cached credential (0: none) and its local expiry
    pc, cur, token, since,   \* the worker: its position, delivery, credential, and
                             \* when its request began
    now

deliveryVars == <<status, attempts, invalid>>
tokenVars == <<issued, rejected>>
workerVars == <<pc, cur, token, since>>
vars == <<vendor, status, attempts, invalid, issued, rejected, cache,
          pc, cur, token, since, now>>

-----------------------------------------------------------------------------
(* Answers and verdicts *)

\* No answer, 200, another 2xx, 400, 401, 403, 410, 429, 5xx, any other status.
Statuses == {"none", "ok", "success", "bad", "unauthorized", "forbidden", "gone",
             "rate", "server", "other"}
\* The body has what the provider reads as a success, or names an error that it
\* lists as one of the device's token, of the server's credential, of a limit, as
\* final, or does not list; or it has no code: it may even be no JSON.
Bodies == {"success", "token", "auth", "rate", "final", "other", "nocode"}
Answers == [http : Statuses, body : Bodies]
Verdicts == {"accept", "retry", "fail", "invalid"}

Refused == {"unauthorized", "forbidden"}
Passing == {"none", "rate", "server"}

\* Send and mapPushResponse of Huawei: 80300007, 80100003, 80200001 and 80200003
\* are errors of the token; an error that is not listed is final.
Huawei(a) ==
    IF a.http \in Passing \cup Refused THEN "retry"
    ELSE CASE a.body = "success" -> "accept"
           [] a.body = "token" -> "invalid"
           [] a.body \in {"auth", "rate"} -> "retry"
           [] a.body = "nocode" -> IF a.http \in {"ok", "success"} THEN "accept" ELSE "retry"
           [] OTHER -> "fail"

\* Send and mapResponse of OPPO: 11, 33, 10000 and three phrases are errors of the
\* token; without a code the code is 0, which is success.
Oppo(a) ==
    IF a.http \in Passing \cup Refused THEN "retry"
    ELSE CASE a.body \in {"success", "nocode"} -> "accept"
           [] a.body = "token" -> "invalid"
           [] OTHER -> "retry"

\* Send and mapResponse of vivo: 10302, 10307 and two phrases are errors of the
\* token; without a result the result is 0, which is success.
Vivo(a) ==
    IF a.http \in Passing \cup Refused THEN "retry"
    ELSE CASE a.body \in {"success", "nocode"} -> "accept"
           [] a.body = "token" -> "invalid"
           [] OTHER -> "retry"

\* Send and mapResponse of Xiaomi: success is the result "ok" or the code 0, so
\* that a result "error" without a code is one too; 401, 403 and the errors of the
\* secret are final, and so is an unlisted code with a result that is not "error".
Xiaomi(a) ==
    IF a.http \in Refused THEN "fail"
    ELSE IF a.http \in Passing THEN "retry"
    ELSE CASE a.body \in {"success", "nocode"} -> "accept"
           [] a.body = "token" -> "invalid"
           [] a.body \in {"auth", "final"} -> "fail"
           [] OTHER -> "retry"

\* Send and mapAPNsError: 200, then the reason, then the status; 410 is about the
\* token whatever the reason.
Apns(a) ==
    IF a.http = "none" THEN "retry"
    ELSE IF a.http = "ok" THEN "accept"
    ELSE IF a.body = "token" \/ a.http = "gone" THEN "invalid"
    ELSE IF a.http \in {"bad", "forbidden"} THEN "fail"
    ELSE "retry"

\* Send and mapSendError: the SDK returns an id or an error, unregistered first,
\* then an invalid argument, a quota, unavailable, and the credential; an error
\* that is none of these is retried.
Fcm(a) ==
    IF a.http = "none" THEN "retry"
    ELSE IF a.http \in {"ok", "success"} THEN "accept"
    ELSE CASE a.body = "token" -> "invalid"
           [] a.body = "final" -> "fail"
           [] a.body = "auth" /\ a.http \notin Passing -> "fail"
           [] OTHER -> "retry"

\* Registry.Get: the provider of the device's channel.
Verdict(v, a) ==
    CASE v = "huawei" -> Huawei(a) [] v = "oppo" -> Oppo(a) [] v = "vivo" -> Vivo(a)
      [] v = "xiaomi" -> Xiaomi(a) [] v = "apns" -> Apns(a) [] v = "fcm" -> Fcm(a)

-----------------------------------------------------------------------------
(* State *)

Tokens == 1..MaxTokens
Caching == {"huawei", "oppo", "vivo", "apns"}
Empty == [token |-> 0, expiry |-> 0]

TypeOK ==
    /\ vendor \in Vendors
    /\ status \in [Deliveries -> {"pending", "sending", "retrying", "accepted", "failed"}]
    /\ attempts \in [Deliveries -> 0..MaxAttempt]
    /\ invalid \in SUBSET Deliveries
    /\ issued \in Seq([life : Nat, until : Nat]) /\ Len(issued) <= MaxTokens
    /\ rejected \in SUBSET Tokens
    /\ cache \in [token : 0..MaxTokens, expiry : Int]
    /\ pc \in {"idle", "token", "fetch", "post"}
    /\ cur \in Deliveries
    /\ token \in 0..MaxTokens
    /\ since \in 0..MaxTime /\ now \in 0..MaxTime

Init ==
    /\ vendor \in Vendors
    /\ status = [d \in Deliveries |-> "pending"]
    /\ attempts = [d \in Deliveries |-> 0]
    /\ invalid = {}
    /\ issued = <<>>
    /\ rejected = {}
    /\ cache = Empty
    /\ pc = "idle"
    /\ cur \in Deliveries
    /\ token = 0
    /\ since = 0
    /\ now = 0

\* ShouldRetry and the rest of processDelivery: what becomes of the delivery.
Recorded(d, verdict) ==
    CASE verdict = "accept" -> "accepted"
      [] verdict = "retry" /\ attempts[d] < MaxAttempt -> "retrying"
      [] OTHER -> "failed"

\* The worker has a verdict on cur and goes on to the next delivery.
Settle(verdict) ==
    /\ status' = [status EXCEPT ![cur] = Recorded(cur, verdict)]
    /\ invalid' = IF verdict = "invalid" THEN invalid \cup {cur} ELSE invalid
    /\ pc' = "idle"
    /\ token' = 0
    /\ since' = 0

-----------------------------------------------------------------------------
(* One attempt *)

\* ClaimReady: a delivery that is pending, or whose retry is due.
Begin(d) ==
    /\ pc = "idle"
    /\ status[d] \in {"pending", "retrying"}
    /\ status' = [status EXCEPT ![d] = "sending"]
    /\ attempts' = [attempts EXCEPT ![d] = @ + 1]
    /\ cur' = d
    /\ pc' = "token"
    /\ UNCHANGED <<vendor, invalid, tokenVars, cache, token, since, now>>

\* ValidateToken fails: the vendor is not asked.
Malformation ==
    /\ pc = "token" /\ cur \in Malformed
    /\ Settle("invalid")
    /\ UNCHANGED <<vendor, attempts, tokenVars, cache, cur, now>>

\* The request to send begins, with the credential k.
Post(k) ==
    /\ pc' = "post"
    /\ token' = k
    /\ since' = now

\* Xiaomi and FCM.
NoCredential ==
    /\ pc = "token" /\ cur \notin Malformed
    /\ vendor \notin Caching
    /\ Post(0)
    /\ UNCHANGED <<vendor, deliveryVars, tokenVars, cache, cur, now>>

\* getAccessToken, getAuthToken and bearerToken: there is a credential that has
\* not expired.
Cached == cache.token # 0 /\ now < cache.expiry

UseCached ==
    /\ pc = "token" /\ cur \notin Malformed
    /\ vendor \in Caching /\ Cached
    /\ Post(cache.token)
    /\ UNCHANGED <<vendor, deliveryVars, tokenVars, cache, cur, now>>

\* How long a credential lives; of Huawei's, what it says.
Lives == IF vendor = "huawei" THEN {IF ttl <= 0 THEN DefaultTtl ELSE ttl : ttl \in Ttls} ELSE {Life}

\* The vendor issues a credential; the answer is on its way.
Issue(life) ==
    /\ pc = "token" /\ cur \notin Malformed
    /\ vendor \in Caching /\ ~Cached
    /\ life \in Lives
    /\ Len(issued) < MaxTokens
    /\ issued' = Append(issued, [life |-> life, until |-> now + life])
    /\ pc' = "fetch"
    /\ token' = Len(issued) + 1
    /\ since' = now
    /\ UNCHANGED <<vendor, deliveryVars, rejected, cache, cur, now>>

\* Mutant: the margin covers one request.
KeptFor_OneRequest(life) == IF vendor = "huawei" THEN life - Timeout ELSE Kept

\* How long a credential stays in the cache.
KeptFor(life) == IF vendor = "huawei" THEN life - Margin ELSE Kept

\* The credential arrives: it is cached and used.  APNs signs its own, at once.
Fetched ==
    /\ pc = "fetch"
    /\ vendor = "apns" => now = since
    /\ cache' = [token |-> token, expiry |-> now + KeptFor(issued[token].life)]
    /\ Post(token)
    /\ UNCHANGED <<vendor, deliveryVars, tokenVars, cur, now>>

\* No credential: a status other than 200, a body that cannot be used, or a
\* timeout.  The attempt is retried.
FetchFails ==
    /\ pc \in {"token", "fetch"} /\ cur \notin Malformed
    /\ vendor \in Caching /\ ~Cached
    /\ Settle("retry")
    /\ UNCHANGED <<vendor, attempts, tokenVars, cache, cur, now>>

\* Mutant: a credential that was rejected stays.
Invalidated_Kept(a) == cache

\* 401 and 403: invalidateToken and invalidateAuth.  APNs keeps its own.
Invalidated(a) ==
    IF a.http \in Refused /\ vendor \in {"huawei", "oppo", "vivo"} THEN Empty ELSE cache

\* The answer to the request: Send returns its verdict.
Answer(a) ==
    /\ pc = "post"
    /\ cache' = Invalidated(a)
    /\ rejected' = IF a.http \in Refused /\ token # 0 THEN rejected \cup {token} ELSE rejected
    /\ Settle(Verdict(vendor, a))
    /\ UNCHANGED <<vendor, attempts, issued, cur, now>>

-----------------------------------------------------------------------------
(* Environment *)

\* Time passes; a request ends within its timeout.
Tick ==
    /\ now < MaxTime
    /\ pc \in {"fetch", "post"} => now - since < Timeout
    /\ now' = now + 1
    /\ UNCHANGED <<vendor, deliveryVars, tokenVars, cache, workerVars>>

Next ==
    \/ \E d \in Deliveries : Begin(d)
    \/ Malformation \/ NoCredential \/ UseCached
    \/ \E life \in Lives : Issue(life)
    \/ Fetched \/ FetchFails
    \/ \E a \in Answers : Answer(a)
    \/ Tick

Spec == Init /\ [][Next]_vars

-----------------------------------------------------------------------------
(* Safety *)

\* A credential is still good when the request that carries it arrives, unless the
\* vendor made it shorter than the margin: the fetch (getAccessToken, getAuthToken)
\* and the request may both take as long as they are allowed to.
FreshToken ==
    pc = "post" /\ token # 0 =>
        issued[token].until > now \/ issued[token].life <= Margin

\* A credential that was answered with 401 or 403 is not used again, except by
\* APNs, which keeps it until it expires.
RejectedNotReused ==
    pc = "post" /\ token \in rejected => vendor = "apns"

-----------------------------------------------------------------------------
(* The inductive invariant behind them *)

\* The worker's delivery is "sending", one that waits has an attempt left, and
\* one whose device was given up has failed for good.
Progress ==
    /\ pc # "idle" => status[cur] = "sending"
    /\ \A d \in Deliveries : status[d] \in {"pending", "retrying"} => attempts[d] < MaxAttempt
    /\ \A d \in invalid : status[d] = "failed"

\* A request is within its timeout; a credential that was fetched lives from the
\* beginning of its request, and one that is sent outlives the request.
Deadlines ==
    /\ pc \in {"fetch", "post"} => since <= now /\ now <= since + Timeout
    /\ pc = "fetch" => /\ token \in DOMAIN issued /\ token \notin rejected
                       /\ issued[token].until = since + issued[token].life
    /\ pc = "post" /\ token # 0 =>
           /\ token \in DOMAIN issued
           /\ since + Timeout < issued[token].until \/ issued[token].life <= Margin

\* A credential leaves the cache a request before its end, or with its rejection.
Credentials ==
    /\ vendor \notin Caching => cache.token = 0 /\ token = 0
    /\ vendor # "huawei" => \A k \in DOMAIN issued : issued[k].life = Life
    /\ cache.token # 0 => /\ cache.token \in DOMAIN issued
                          /\ cache.expiry + Timeout <= issued[cache.token].until
    /\ cache.token \in rejected => vendor = "apns"
    /\ rejected \subseteq DOMAIN issued

Inv ==
    /\ TypeOK
    /\ RejectedNotReused
    /\ Progress
    /\ Deadlines
    /\ Credentials

=============================================================================
