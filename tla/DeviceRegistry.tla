--------------------------- MODULE DeviceRegistry --------------------------
(***************************************************************************)
(* Device rows and the choice of targets: the device handlers of           *)
(* internal/api/server.go over internal/service/device.go and              *)
(* internal/repository/device.go, filterDevicesForMessage and              *)
(* selectProviderForMessage of internal/service/message.go, and the worker *)
(* that sends to a row and may mark it invalid.                            *)
(*                                                                         *)
(* An installation has one row per provider (migrations/003).  A token     *)
(* belongs to a provider and has a generation; the vendor takes the latest *)
(* one of its own.  All rows are of one application; PushQueue has the     *)
(* move of a row to another one, and how deliveries are stored.            *)
(***************************************************************************)
EXTENDS Naturals, FiniteSets

CONSTANTS
    Installs,    \* installations
    Platform,    \* Platform[i]: "ios" or "android"
    Providers,   \* bound on the providers that installations register with
    Users, NoUser,
    MaxGen       \* bound on the generations of a token

AllProviders == {"huawei", "xiaomi", "oppo", "vivo", "fcm", "apns", "apns_voip"}

ASSUME RegistryAssumption ==
    /\ Platform \in [Installs -> {"ios", "android"}]
    /\ Providers \subseteq AllProviders
    /\ NoUser \notin Users
    /\ MaxGen \in Nat

VARIABLES
    rows,        \* rows[i][p]: the row of i for p, or NoRow
    gen,         \* gen[i][p]: the generation of the token that p gave to i
    login,       \* login[i]: the user whom the client of i is set to
    refresh,     \* a token update that found no row: what it has read of the others
    todo,        \* the deliveries of the message that is being sent
    sending,     \* the delivery that the worker is sending, with the token it read
    unsure,      \* installations whose user changed under a refresh, before there was
                 \* a row, or in a request that was lost
    replaced,    \* rows whose token was replaced since the worker read it
    rung         \* whom the latest call is for and the rows that it rang, until
                 \* it is cancelled or ends

registryVars == <<rows, gen, login, refresh>>
sendVars == <<todo, sending>>
ghostVars == <<unsure, replaced, rung>>
vars == <<rows, gen, login, refresh, todo, sending, unsure, replaced, rung>>

-----------------------------------------------------------------------------
(* Rows *)

NoRow == [status |-> "none"]
Statuses == {"active", "invalid", "disabled"}
Tokens == [provider : Providers, gen : 0..MaxGen]
Rows == [user : Users \cup {NoUser}, token : Tokens, status : Statuses]
Targets == [install : Installs, provider : Providers, via : AllProviders]
Idle == [stage |-> "idle"]
NoDelivery == [stage |-> "none"]

\* Whom a message is for: a user, or (NoUser) an installation whoever uses it.
Addressees == Users \cup {NoUser}
NoRing == [whom |-> NoUser, rows |-> {}]

TypeOK ==
    /\ rows \in [Installs -> [Providers -> Rows \cup {NoRow}]]
    /\ gen \in [Installs -> [Providers -> 0..MaxGen]]
    /\ login \in [Installs -> Users \cup {NoUser}]
    /\ refresh \in {Idle} \cup
            [stage : {"find"}, install : Installs, provider : Providers] \cup
            [stage : {"register"}, install : Installs, provider : Providers, user : Users \cup {NoUser}]
    /\ todo \in SUBSET Targets
    /\ sending \in {NoDelivery} \cup [target : Targets, token : Tokens]
    /\ unsure \in SUBSET Installs
    /\ replaced \in SUBSET (Installs \X Providers)
    /\ rung \in [whom : Addressees, rows : SUBSET (Installs \X Providers)]

Init ==
    /\ rows = [i \in Installs |-> [p \in Providers |-> NoRow]]
    /\ gen = [i \in Installs |-> [p \in Providers |-> 0]]
    /\ login = [i \in Installs |-> NoUser]
    /\ refresh = Idle
    /\ todo = {}
    /\ sending = NoDelivery
    /\ unsure = {}
    /\ replaced = {}
    /\ rung = NoRing

Exists(i, p) == rows[i][p] # NoRow
Current(i, p) == [provider |-> p, gen |-> gen[i][p]]

\* A row with columns set.
SetColumns(row, columns) == [c \in DOMAIN row |-> IF c \in DOMAIN columns THEN columns[c] ELSE row[c]]

\* The rows after an UPDATE that sets columns of those of i that belong to ps.
Update(i, ps, columns) ==
    [rows EXCEPT ![i] =
        [p \in Providers |->
            IF Exists(i, p) /\ p \in ps THEN SetColumns(rows[i][p], columns) ELSE rows[i][p]]]

\* Upsert: a row that is there keeps its user if none is given.
Upsert(i, p, u, t) ==
    rows' = [rows EXCEPT ![i][p] =
                [user |-> IF u = NoUser /\ Exists(i, p) THEN @.user ELSE u,
                 token |-> t, status |-> "active"]]

\* New tokens in rows of i, among them perhaps the one that the worker has read.
Replace(i, ps) ==
    replaced' = (replaced \ ({i} \X ps)) \cup
        {x \in {i} \X ps : sending # NoDelivery /\ x = <<sending.target.install, sending.target.provider>>}

-----------------------------------------------------------------------------
(* Device requests *)

\* The vendor gives the installation a new token; the client will report it.
Rotate(i, p) ==
    /\ gen[i][p] < MaxGen
    /\ gen' = [gen EXCEPT ![i][p] = @ + 1]
    /\ UNCHANGED <<rows, login, refresh, sendVars, ghostVars>>

\* handleRegisterDevice, with the user that the client is set to.
Register(i, p) ==
    /\ Upsert(i, p, login[i], Current(i, p))
    /\ Replace(i, {p})
    /\ UNCHANGED <<gen, login, refresh, sendVars, unsure, rung>>

\* handleUpdateToken of a row that is there.
UpdateToken(i, p) ==
    /\ Exists(i, p)
    /\ rows' = Update(i, {p}, [token |-> Current(i, p), status |-> "active"])
    /\ Replace(i, {p})
    /\ UNCHANGED <<gen, login, refresh, sendVars, unsure, rung>>

\* handleUpdateToken without a provider: every row of the installation.
UpdateTokenLegacy(i, p) ==
    /\ \E q \in Providers : Exists(i, q)
    /\ rows' = Update(i, Providers, [token |-> Current(i, p), status |-> "active"])
    /\ Replace(i, Providers)
    /\ UNCHANGED <<gen, login, refresh, sendVars, unsure, rung>>

\* handleUpdateToken of a row that is not there: the update finds nothing.
UpdateTokenMisses(i, p) ==
    /\ refresh = Idle
    /\ ~Exists(i, p)
    /\ refresh' = [stage |-> "find", install |-> i, provider |-> p]
    /\ UNCHANGED <<rows, gen, login, sendVars, ghostVars>>

\* FindByInstallationID: any row that is not apns_voip before that one.
Primary(i) ==
    LET ps == {p \in Providers : Exists(i, p)}
    IN  IF ps = {} THEN {} ELSE IF ps = {"apns_voip"} THEN ps ELSE ps \ {"apns_voip"}

FindExisting(i, p) ==
    /\ refresh = [stage |-> "find", install |-> i, provider |-> p]
    /\ \E u \in Users \cup {NoUser} :
        /\ IF Primary(i) = {} THEN u = NoUser ELSE \E q \in Primary(i) : u = rows[i][q].user
        /\ refresh' = [stage |-> "register", install |-> i, provider |-> p, user |-> u]
    /\ UNCHANGED <<rows, gen, login, sendVars, ghostVars>>

\* Then the row is made, with the user that was read.
RegisterMissing(i, p) ==
    /\ refresh.stage = "register" /\ refresh.install = i /\ refresh.provider = p
    /\ Upsert(i, p, refresh.user, Current(i, p))
    /\ refresh' = Idle
    /\ Replace(i, {p})
    /\ UNCHANGED <<gen, login, sendVars, unsure, rung>>

\* The user of i changes where there is no row yet, or under a refresh of i that
\* has read the user already; a change without either is sure again.
Overlap(i) ==
    unsure' = IF \/ \A p \in Providers : ~Exists(i, p)
                 \/ refresh.stage = "register" /\ refresh.install = i
              THEN unsure \cup {i} ELSE unsure \ {i}

\* Mutant: only the first row is bound.
Bound_Primary(i, u) == Update(i, Primary(i), [user |-> u])

\* SetUserID and ClearUserID: all rows of the installation.
Bound(i, u) == Update(i, Providers, [user |-> u])

\* handleSetUser and handleClearUser (u = NoUser); without a row the answer is
\* DEVICE_NOT_FOUND and the client has remembered the user.
SetUser(i, u) ==
    /\ u # login[i]
    /\ login' = [login EXCEPT ![i] = u]
    /\ rows' = Bound(i, u)
    /\ Overlap(i)
    /\ UNCHANGED <<gen, refresh, sendVars, replaced, rung>>

\* The client has forgotten its user, or has another, and the request is lost.
SetUserLost(i, u) ==
    /\ u # login[i]
    /\ login' = [login EXCEPT ![i] = u]
    /\ unsure' = unsure \cup {i}
    /\ UNCHANGED <<rows, gen, refresh, sendVars, replaced, rung>>

\* handleUnregister: all rows of the installation.
Unregister(i) ==
    /\ \E p \in Providers : Exists(i, p)
    /\ rows' = Update(i, Providers, [status |-> "disabled"])
    /\ UNCHANGED <<gen, login, refresh, sendVars, ghostVars>>

-----------------------------------------------------------------------------
(* Targets of a message *)

\* The types that are not about a call are treated alike.
Types == {"incoming_call", "call_cancelled", "call_ended", "other"}
CallTypes == {"incoming_call", "call_cancelled", "call_ended"}

\* ListActiveByInstallationIDs: the providers of i's rows that are active.
Active(i) == {p \in Providers : Exists(i, p) /\ rows[i][p].status = "active"}

\* ListActiveByUserIDs, for one user.
ActiveOf(i, u) == {p \in Active(i) : rows[i][p].user = u}

\* Mutant: only the ring prefers VoIP.
Filtered_RingOnly(i, ps, type) ==
    IF Platform[i] # "ios" \/ Cardinality(ps) <= 1 THEN ps
    ELSE IF type = "incoming_call" THEN IF "apns_voip" \in ps THEN {"apns_voip"} ELSE ps
    ELSE IF "apns" \in ps THEN {"apns"} ELSE ps \ {"apns_voip"}

\* filterDevicesForMessage, for the rows ps of one installation.
Filtered(i, ps, type) ==
    IF Platform[i] # "ios" \/ Cardinality(ps) <= 1 THEN ps
    ELSE IF type \in CallTypes THEN IF "apns_voip" \in ps THEN {"apns_voip"} ELSE ps
    ELSE IF "apns" \in ps THEN {"apns"} ELSE ps \ {"apns_voip"}

\* selectProviderForMessage.
SelectProvider(i, p, type) ==
    IF Platform[i] = "ios" /\ type = "incoming_call"
    THEN IF p = "apns_voip" THEN "apns_voip" ELSE "apns"
    ELSE p

\* What enqueueDeliveries makes of the rows ps of i.
TargetsOf(i, ps, type) ==
    {[install |-> i, provider |-> p, via |-> SelectProvider(i, p, type)] : p \in Filtered(i, ps, type)}

\* The rows of i that a message for a may go to.
Addressed(i, a) == IF a = NoUser THEN Active(i) ELSE ActiveOf(i, a)

\* What enqueueDeliveries makes of a message for a, among the installations is.
Deliveries(is, a, type) == UNION {TargetsOf(i, Addressed(i, a), type) : i \in is}

\* The rows that a call rings, until it is cancelled or ends.
Recall(is, a, type) ==
    rung' = CASE type = "incoming_call" ->
                     [whom |-> a,
                      rows |-> {<<t.install, t.provider>> : t \in Deliveries(is, a, type)}]
              [] type \in {"call_cancelled", "call_ended"} /\ a = rung.whom -> NoRing
              [] OTHER -> rung

\* The rest of Send: no device is an error; else the deliveries are pending.
Enqueue(is, a, type) ==
    /\ todo = {} /\ sending = NoDelivery
    /\ Deliveries(is, a, type) # {}
    /\ todo' = Deliveries(is, a, type)
    /\ Recall(is, a, type)
    /\ UNCHANGED <<registryVars, sending, unsure, replaced>>

\* Send to a user, and to an installation.
SendToUser(u, type) == Enqueue(Installs, u, type)
SendToInstall(i, type) == Enqueue({i}, NoUser, type)

\* The worker reads the row of a delivery, whatever its status is by now.
Pick(t) ==
    /\ sending = NoDelivery
    /\ t \in todo
    /\ todo' = todo \ {t}
    /\ sending' = [target |-> t, token |-> rows[t.install][t.provider].token]
    /\ replaced' = replaced \ {<<t.install, t.provider>>}
    /\ UNCHANGED <<registryVars, unsure, rung>>

\* registerProviders: every provider has an entry, a real one or a noop.
Registered == AllProviders

\* The vendor takes the token: it is one of its own, and the latest.
Takes(via, i, t) == via \in Registered /\ t.provider = via /\ t.gen = gen[i][t.provider]

\* Mutant: the rows of the installation are marked.
MarkInvalid_Installation(i, p) == Update(i, Providers, [status |-> "invalid"])

\* MarkInvalid: the row, whatever its token is by now.
MarkInvalid(i, p) == Update(i, {p}, [status |-> "invalid"])

\* The attempt is over: a token that is not taken may cost the row.  How the
\* vendors' answers are read, and what is retried, is in ProviderSend.
Answer ==
    /\ sending # NoDelivery
    /\ \/ rows' = rows
       \/ /\ ~Takes(sending.target.via, sending.target.install, sending.token)
          /\ rows' = MarkInvalid(sending.target.install, sending.target.provider)
    /\ sending' = NoDelivery
    /\ UNCHANGED <<gen, login, refresh, todo, ghostVars>>

-----------------------------------------------------------------------------
(* Specification *)

DeviceNext(i) ==
    \/ \E p \in Providers :
        \/ Rotate(i, p) \/ Register(i, p)
        \/ UpdateToken(i, p) \/ UpdateTokenLegacy(i, p) \/ UpdateTokenMisses(i, p)
        \/ FindExisting(i, p) \/ RegisterMissing(i, p)
    \/ \E u \in Users \cup {NoUser} : SetUser(i, u) \/ SetUserLost(i, u)
    \/ Unregister(i)

Next ==
    \/ \E i \in Installs : DeviceNext(i)
    \/ \E u \in Users, type \in Types : SendToUser(u, type)
    \/ \E i \in Installs, type \in Types : SendToInstall(i, type)
    \/ \E t \in todo : Pick(t)
    \/ Answer

Spec == Init /\ [][Next]_vars

-----------------------------------------------------------------------------
(* Safety *)

\* What became of the rows of a phone between its ring and the cancel or end of the
\* call (filterDevicesForMessage chooses anew each time): a row that rang and can
\* still be addressed gets the cancel too, unless a VoIP row has come up since,
\* which then gets it alone; and where the row that rang is gone, another row of
\* the phone gets it, if there is one.
CancelFollowsRing ==
    \A i \in Installs, type \in {"call_cancelled", "call_ended"} :
        LET rang == {p \in Providers : <<i, p>> \in rung.rows}
            now == Addressed(i, rung.whom)
        IN  /\ \/ rang \cap now \subseteq Filtered(i, now, type)
               \/ "apns_voip" \in now \ rang
            /\ rang # {} /\ now # {} => Filtered(i, now, type) # {}

\* A row that is invalid holds a token that its vendor would not take: a device
\* that can be reached is not given up, unless its token was replaced while the
\* worker was sending to the old one.
InvalidIsDead ==
    \A i \in Installs, p \in Providers :
        Exists(i, p) /\ rows[i][p].status = "invalid" /\ rows[i][p].token = Current(i, p)
            => \/ <<i, p>> \in replaced
               \/ Platform[i] = "ios" /\ p \notin {"apns", "apns_voip"}

\* The rows of an installation belong to the user that its client is set to: who
\* has logged out of a phone is not called there.  A refresh that has read the
\* user before, or a request that was lost, is the exception.
BindingFollowsLogin ==
    \A i \in Installs \ unsure, p \in Providers : Exists(i, p) => rows[i][p].user = login[i]

-----------------------------------------------------------------------------
(* The inductive invariant behind them *)

\* No row has a token that its vendor has yet to give.
TokensGiven ==
    \A i \in Installs, p \in Providers :
        Exists(i, p) => rows[i][p].token.gen <= gen[i][rows[i][p].token.provider]

\* A delivery goes by the provider of its row, or by apns to an iPhone's row of
\* a provider that is neither apns nor apns_voip.
Routed(t) ==
    t.via = t.provider \/ (Platform[t.install] = "ios" /\ t.provider \notin {"apns", "apns_voip"})

SameRow(s, t) == s.install = t.install /\ s.provider = t.provider

\* The rows of a message are picked once each, and none of them has been given up.
Queued ==
    \A t \in todo :
        /\ Exists(t.install, t.provider)
        /\ rows[t.install][t.provider].status # "invalid"
        /\ Routed(t)
        /\ \A s \in todo : SameRow(s, t) => s = t
        /\ sending # NoDelivery => ~SameRow(sending.target, t)

\* The token that the worker has read is that of the row, until it is replaced.
Held ==
    sending # NoDelivery =>
        LET t == sending.target IN
        /\ Exists(t.install, t.provider)
        /\ Routed(t)
        /\ <<t.install, t.provider>> \in replaced \/ rows[t.install][t.provider].token = sending.token

\* What a refresh has read is the user, if no one has changed it meanwhile, and
\* who has no row has no user, or not for sure.
Bindings ==
    /\ refresh.stage = "register" /\ refresh.install \notin unsure => refresh.user = login[refresh.install]
    /\ \A i \in Installs \ unsure : (\A p \in Providers : ~Exists(i, p)) => login[i] = NoUser

\* A VoIP row of an iPhone rings alone.
Rings ==
    \A i \in Installs :
        Platform[i] = "ios" /\ <<i, "apns_voip">> \in rung.rows =>
            \A p \in Providers : <<i, p>> \in rung.rows => p = "apns_voip"

Inv ==
    /\ TypeOK
    /\ InvalidIsDead
    /\ BindingFollowsLogin
    /\ TokensGiven
    /\ Queued
    /\ Held
    /\ Bindings
    /\ Rings

=============================================================================
