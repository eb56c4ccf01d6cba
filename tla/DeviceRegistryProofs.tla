------------------------ MODULE DeviceRegistryProofs -----------------------
(* Proofs about DeviceRegistry for any number of installations and users   *)
(* on any platforms, any providers and any number of tokens.               *)
EXTENDS DeviceRegistry, FiniteSetTheorems, TLAPS

USE RegistryAssumption

-----------------------------------------------------------------------------
(* Rows and updates *)

\* What each UPDATE leaves of a row.
LEMMA SetUserColumn ==
    ASSUME NEW row \in Rows, NEW u
    PROVE  SetColumns(row, [user |-> u]) = [user |-> u, token |-> row.token, status |-> row.status]
BY DEF Rows, SetColumns

LEMMA SetStatusColumn ==
    ASSUME NEW row \in Rows, NEW s
    PROVE  SetColumns(row, [status |-> s]) = [user |-> row.user, token |-> row.token, status |-> s]
BY DEF Rows, SetColumns

LEMMA SetTokenColumns ==
    ASSUME NEW row \in Rows, NEW t, NEW s
    PROVE  SetColumns(row, [token |-> t, status |-> s]) = [user |-> row.user, token |-> t, status |-> s]
BY DEF Rows, SetColumns

\* A row is a row of the table or missing.
LEMMA RowType ==
    ASSUME TypeOK, NEW i \in Installs, NEW p \in Providers
    PROVE  /\ rows[i][p] \in Rows \cup {NoRow}
           /\ Exists(i, p) => rows[i][p] \in Rows
           /\ Current(i, p) \in Tokens
           /\ gen[i][p] \in Nat
BY DEF TypeOK, Exists, Current, Tokens

LEMMA NoRowIsNone == NoRow \notin Rows
BY DEF NoRow, Rows

\* An UPDATE changes the rows it names and no others.
LEMMA UpdateValue ==
    ASSUME TypeOK, NEW i \in Installs, NEW ps, NEW columns, NEW j \in Installs, NEW q \in Providers
    PROVE  /\ j = i /\ Exists(j, q) /\ q \in ps =>
                Update(i, ps, columns)[j][q] = SetColumns(rows[j][q], columns)
           /\ ~(j = i /\ Exists(j, q) /\ q \in ps) => Update(i, ps, columns)[j][q] = rows[j][q]
BY DEF TypeOK, Update

\* An UPDATE whose columns are of their types keeps the table in its type.
LEMMA UpdateType ==
    ASSUME TypeOK, NEW i \in Installs, NEW ps, NEW columns,
           \A row \in Rows : SetColumns(row, columns) \in Rows
    PROVE  Update(i, ps, columns) \in [Installs -> [Providers -> Rows \cup {NoRow}]]
<1>1. \A p \in Providers : Exists(i, p) => SetColumns(rows[i][p], columns) \in Rows
    BY RowType
<1>2. [p \in Providers |->
            IF Exists(i, p) /\ p \in ps THEN SetColumns(rows[i][p], columns) ELSE rows[i][p]]
        \in [Providers -> Rows \cup {NoRow}]
    BY <1>1, RowType
<1> QED BY <1>2 DEF TypeOK, Update

\* Upsert writes one row.
LEMMA UpsertValue ==
    ASSUME TypeOK, NEW i \in Installs, NEW p \in Providers, NEW u \in Users \cup {NoUser},
           NEW t \in Tokens, Upsert(i, p, u, t)
    PROVE  /\ rows' \in [Installs -> [Providers -> Rows \cup {NoRow}]]
           /\ rows'[i][p] \in Rows /\ rows'[i][p].token = t /\ rows'[i][p].status = "active"
           /\ u # NoUser \/ ~Exists(i, p) => rows'[i][p].user = u
           /\ u = NoUser /\ Exists(i, p) => rows'[i][p].user = rows[i][p].user
           /\ \A j \in Installs, q \in Providers : j # i \/ q # p => rows'[j][q] = rows[j][q]
<1> DEFINE user == IF u = NoUser /\ Exists(i, p) THEN rows[i][p].user ELSE u
           row == [user |-> user, token |-> t, status |-> "active"]
<1>1. user \in Users \cup {NoUser}
    BY RowType DEF Rows
<1>2. row \in Rows
    BY <1>1 DEF Rows, Statuses
<1>3. rows' = [rows EXCEPT ![i][p] = row]
    BY DEF Upsert
<1>4. row.user = user /\ row.token = t /\ row.status = "active"
    OBVIOUS
<1>5. /\ u # NoUser \/ ~Exists(i, p) => user = u
      /\ u = NoUser /\ Exists(i, p) => user = rows[i][p].user
    OBVIOUS
<1> HIDE DEF row, user
<1>6. /\ rows' \in [Installs -> [Providers -> Rows \cup {NoRow}]]
      /\ rows'[i][p] = row
      /\ \A j \in Installs, q \in Providers : j # i \/ q # p => rows'[j][q] = rows[j][q]
    BY <1>2, <1>3 DEF TypeOK
<1> QED BY <1>2, <1>4, <1>5, <1>6

-----------------------------------------------------------------------------
(* The choice of rows *)

\* filterDevicesForMessage picks from the rows it is given.
LEMMA FilteredSubset ==
    ASSUME NEW i, NEW ps, NEW type
    PROVE  Filtered(i, ps, type) \subseteq ps
BY DEF Filtered

\* There are finitely many providers.
LEMMA FiniteProviders == IsFiniteSet(AllProviders)
<1>1. IsFiniteSet({})
    BY FS_EmptySet
<1>2. IsFiniteSet({"huawei"}) /\ IsFiniteSet({"apns_voip"})
    BY FS_Singleton
<1>3. IsFiniteSet({"huawei", "xiaomi"})
    <2>1. IsFiniteSet({"huawei"} \cup {"xiaomi"})
        BY <1>2, FS_AddElement
    <2>2. {"huawei"} \cup {"xiaomi"} = {"huawei", "xiaomi"}
        OBVIOUS
    <2> QED BY <2>1, <2>2
<1>4. IsFiniteSet({"huawei", "xiaomi"} \cup {"oppo"})
    BY <1>3, FS_AddElement
<1>5. IsFiniteSet({"huawei", "xiaomi"} \cup {"oppo"} \cup {"vivo"})
    BY <1>4, FS_AddElement
<1>6. IsFiniteSet({"huawei", "xiaomi"} \cup {"oppo"} \cup {"vivo"} \cup {"fcm"})
    BY <1>5, FS_AddElement
<1>7. IsFiniteSet({"huawei", "xiaomi"} \cup {"oppo"} \cup {"vivo"} \cup {"fcm"} \cup {"apns"})
    BY <1>6, FS_AddElement
<1>8. IsFiniteSet({"huawei", "xiaomi"} \cup {"oppo"} \cup {"vivo"} \cup {"fcm"} \cup {"apns"} \cup {"apns_voip"})
    BY <1>7, FS_AddElement
<1>9. AllProviders =
      {"huawei", "xiaomi"} \cup {"oppo"} \cup {"vivo"} \cup {"fcm"} \cup {"apns"} \cup {"apns_voip"}
    BY DEF AllProviders
<1> QED BY <1>8, <1>9

\* An iPhone with a VoIP row gets what is about a call there and nowhere else.
LEMMA VoipAlone ==
    ASSUME NEW i \in Installs, NEW ps \in SUBSET Providers, NEW type \in CallTypes,
           Platform[i] = "ios", "apns_voip" \in ps
    PROVE  Filtered(i, ps, type) = {"apns_voip"}
<1>1. IsFiniteSet(ps)
    <2>1. ps \subseteq AllProviders
        OBVIOUS
    <2> QED BY <2>1, FiniteProviders, FS_Subset
<1>2. CASE Cardinality(ps) <= 1
    <2>1. Cardinality(ps) \in Nat
        BY <1>1, FS_CardinalityType
    <2>2. /\ IsFiniteSet(ps \ {"apns_voip"})
          /\ Cardinality(ps \ {"apns_voip"}) = Cardinality(ps) - 1
        BY <1>1, FS_RemoveElement
    <2>3. Cardinality(ps \ {"apns_voip"}) = 0
        BY <1>2, <2>1, <2>2, FS_CardinalityType
    <2>4. ps \ {"apns_voip"} = {}
        BY <2>2, <2>3, FS_EmptySet
    <2> QED BY <1>2, <2>4 DEF Filtered
<1>3. CASE ~(Cardinality(ps) <= 1)
    BY <1>3 DEF Filtered
<1> QED BY <1>2, <1>3

\* Without one, or on another platform, all rows get it.
LEMMA NoVoip ==
    ASSUME NEW i, NEW ps, NEW type \in CallTypes, Platform[i] # "ios" \/ "apns_voip" \notin ps
    PROVE  Filtered(i, ps, type) = ps
BY DEF Filtered

\* The rows that a message for a may go to are active rows of the installation.
LEMMA AddressedActive ==
    ASSUME NEW i, NEW a
    PROVE  Addressed(i, a) \subseteq Active(i) /\ Active(i) \subseteq Providers
BY DEF Addressed, ActiveOf, Active

\* The deliveries of a message go to rows that are given, one each, and by the
\* row's provider or by apns.
LEMMA TargetsOfValue ==
    ASSUME NEW i \in Installs, NEW ps \in SUBSET Providers, NEW type
    PROVE  \A t \in TargetsOf(i, ps, type) :
               /\ t \in Targets /\ t.install = i /\ t.provider \in ps
               /\ t.via = SelectProvider(i, t.provider, type) /\ Routed(t)
<1> SUFFICES ASSUME NEW p \in Filtered(i, ps, type),
                    NEW t, t = [install |-> i, provider |-> p, via |-> SelectProvider(i, p, type)]
             PROVE  /\ t \in Targets /\ t.install = i /\ t.provider \in ps
                    /\ t.via = SelectProvider(i, t.provider, type) /\ Routed(t)
    BY DEF TargetsOf
<1>1. p \in ps /\ p \in Providers /\ p \in AllProviders
    BY FilteredSubset
<1>2. SelectProvider(i, p, type) \in AllProviders
    BY <1>1 DEF SelectProvider, AllProviders
<1>3. \/ SelectProvider(i, p, type) = p
      \/ Platform[i] = "ios" /\ p \notin {"apns", "apns_voip"}
    BY DEF SelectProvider
<1> QED BY <1>1, <1>2, <1>3 DEF Targets, Routed

-----------------------------------------------------------------------------
(* Steps that write tokens *)

\* Some rows of i get token t and are active again: what is said of tokens, of
\* deliveries and of invalid rows stays true.
LEMMA TokenStep ==
    ASSUME Inv, NEW i \in Installs, NEW ps \in SUBSET Providers, NEW p \in Providers,
           \A j \in Installs, q \in Providers : j # i \/ q \notin ps => rows'[j][q] = rows[j][q],
           \A q \in ps : \/ rows[i][q] = NoRow /\ rows'[i][q] = NoRow
                         \/ /\ rows'[i][q] \in Rows
                            /\ rows'[i][q].token = Current(i, p) /\ rows'[i][q].status = "active",
           Replace(i, ps), UNCHANGED <<gen, todo, sending>>
    PROVE  InvalidIsDead' /\ TokensGiven' /\ Queued' /\ Held'
<1> USE DEF Exists
<1>t. TypeOK
    BY DEF Inv
<1>1. NoRow \notin Rows
    BY NoRowIsNone
<1>2. \A j \in Installs, q \in Providers : Exists(j, q) => Exists(j, q)'
    BY <1>1
<1>3. \A x : x \notin {i} \X ps => (x \in replaced <=> x \in replaced')
    BY DEF Replace
<1>4. InvalidIsDead'
    <2> SUFFICES ASSUME NEW j \in Installs, NEW q \in Providers,
                        Exists(j, q)', rows'[j][q].status = "invalid", rows'[j][q].token = Current(j, q)'
                 PROVE  <<j, q>> \in replaced' \/ (Platform[j] = "ios" /\ q \notin {"apns", "apns_voip"})
        BY DEF InvalidIsDead
    <2>1. j # i \/ q \notin ps
        BY <1>1
    <2>2. rows'[j][q] = rows[j][q] /\ Current(j, q)' = Current(j, q)
        BY <2>1 DEF Current
    <2>3. <<j, q>> \in replaced \/ (Platform[j] = "ios" /\ q \notin {"apns", "apns_voip"})
        BY <2>2 DEF Inv, InvalidIsDead
    <2> QED BY <1>3, <2>1, <2>3
<1>5. TokensGiven'
    <2> SUFFICES ASSUME NEW j \in Installs, NEW q \in Providers, Exists(j, q)'
                 PROVE  rows'[j][q].token.gen <= gen[j][rows'[j][q].token.provider]
        BY DEF TokensGiven
    <2>1. CASE j # i \/ q \notin ps
        BY <2>1 DEF Inv, TokensGiven
    <2>2. CASE j = i /\ q \in ps
        <3>1. rows'[j][q].token = Current(i, p) /\ gen[i][p] \in Nat
            BY <1>t, <2>2, RowType
        <3> QED BY <2>2, <3>1 DEF Current
    <2> QED BY <2>1, <2>2
<1>6. Queued'
    <2> SUFFICES ASSUME NEW t \in todo
                 PROVE  /\ Exists(t.install, t.provider)'
                        /\ rows'[t.install][t.provider].status # "invalid"
        BY DEF Queued, Inv, SameRow, Routed
    <2>1. /\ t.install \in Installs /\ t.provider \in Providers
          /\ Exists(t.install, t.provider) /\ rows[t.install][t.provider].status # "invalid"
        BY <1>t DEF Inv, Queued, TypeOK, Targets
    <2> QED BY <1>2, <2>1
<1>7. Held'
    <2> SUFFICES ASSUME sending # NoDelivery
                 PROVE  /\ Exists(sending.target.install, sending.target.provider)'
                        /\ \/ <<sending.target.install, sending.target.provider>> \in replaced'
                           \/ rows'[sending.target.install][sending.target.provider].token = sending.token
        BY DEF Held, Inv, Routed
    <2>1. /\ sending.target.install \in Installs /\ sending.target.provider \in Providers
          /\ Exists(sending.target.install, sending.target.provider)
          /\ \/ <<sending.target.install, sending.target.provider>> \in replaced
             \/ rows[sending.target.install][sending.target.provider].token = sending.token
        BY <1>t DEF Inv, Held, TypeOK, Targets
    <2>2. CASE sending.target.install = i /\ sending.target.provider \in ps
        <3>1. <<sending.target.install, sending.target.provider>> \in {i} \X ps
            BY <2>2
        <3>2. <<sending.target.install, sending.target.provider>> \in replaced'
            BY <3>1 DEF Replace
        <3> QED BY <1>2, <2>1, <3>2
    <2>3. CASE ~(sending.target.install = i /\ sending.target.provider \in ps)
        BY <1>2, <1>3, <2>1, <2>3
    <2> QED BY <2>2, <2>3
<1> QED BY <1>4, <1>5, <1>6, <1>7

\* An UPDATE that leaves tokens alone, and marks no row invalid.
LEMMA ColumnStep ==
    ASSUME Inv,
           \A j \in Installs, q \in Providers :
               /\ Exists(j, q) <=> Exists(j, q)'
               /\ Exists(j, q) => /\ rows'[j][q].token = rows[j][q].token
                                  /\ rows'[j][q].status = "invalid" => rows[j][q].status = "invalid",
           UNCHANGED <<gen, todo, sending, replaced>>
    PROVE  InvalidIsDead' /\ TokensGiven' /\ Queued' /\ Held'
<1>t. TypeOK
    BY DEF Inv
<1>1. InvalidIsDead' /\ TokensGiven'
    BY DEF Inv, InvalidIsDead, TokensGiven, Current
<1>2. Queued'
    <2> SUFFICES ASSUME NEW t \in todo
                 PROVE  /\ Exists(t.install, t.provider)'
                        /\ rows'[t.install][t.provider].status # "invalid"
        BY DEF Queued, Inv, SameRow, Routed
    <2>1. /\ t.install \in Installs /\ t.provider \in Providers
          /\ Exists(t.install, t.provider) /\ rows[t.install][t.provider].status # "invalid"
        BY <1>t DEF Inv, Queued, TypeOK, Targets
    <2> QED BY <2>1
<1>3. Held'
    <2> SUFFICES ASSUME sending # NoDelivery
                 PROVE  /\ Exists(sending.target.install, sending.target.provider)'
                        /\ \/ <<sending.target.install, sending.target.provider>> \in replaced'
                           \/ rows'[sending.target.install][sending.target.provider].token = sending.token
        BY DEF Held, Inv, Routed
    <2>1. /\ sending.target.install \in Installs /\ sending.target.provider \in Providers
          /\ Exists(sending.target.install, sending.target.provider)
          /\ \/ <<sending.target.install, sending.target.provider>> \in replaced
             \/ rows[sending.target.install][sending.target.provider].token = sending.token
        BY <1>t DEF Inv, Held, TypeOK, Targets
    <2> QED BY <2>1
<1> QED BY <1>1, <1>2, <1>3

-----------------------------------------------------------------------------
(* The requests *)

\* What a call has rung does not depend on the rows.
LEMMA RungKept == Inv /\ UNCHANGED rung => Rings'
BY DEF Inv, Rings

\* The vendor's new token is in no row yet.
LEMMA RotateStep ==
    ASSUME Inv, NEW i \in Installs, NEW p \in Providers, Rotate(i, p)
    PROVE  Inv'
<1> USE DEF sendVars, ghostVars
<1>t. TypeOK
    BY DEF Inv
<1>1. /\ gen' = [gen EXCEPT ![i][p] = @ + 1] /\ gen[i][p] \in 0..MaxGen /\ gen[i][p] < MaxGen
      /\ UNCHANGED <<rows, login, refresh, todo, sending, unsure, replaced, rung>>
    BY <1>t DEF Rotate, TypeOK
<1>r. Rings'
    BY <1>1, RungKept
<1>2. \A j \in Installs, q \in Providers :
          /\ j = i /\ q = p => gen'[j][q] = gen[j][q] + 1
          /\ j # i \/ q # p => gen'[j][q] = gen[j][q]
    BY <1>t, <1>1 DEF TypeOK
<1>3. TypeOK'
    <2>1. gen' \in [Installs -> [Providers -> 0..MaxGen]]
        BY <1>t, <1>1 DEF TypeOK
    <2> QED BY <1>t, <1>1, <2>1 DEF TypeOK
<1>4. InvalidIsDead' /\ TokensGiven'
    <2> SUFFICES ASSUME NEW j \in Installs, NEW q \in Providers, rows[j][q] # NoRow
                 PROVE  /\ rows[j][q].token.gen <= gen'[j][rows[j][q].token.provider]
                        /\ rows[j][q].token = Current(j, q)' => rows[j][q].token = Current(j, q)
        BY <1>1 DEF Inv, InvalidIsDead, TokensGiven, Exists
    <2>1. rows[j][q].token \in Tokens
        BY <1>t, RowType DEF Exists, Rows
    <2>2. /\ rows[j][q].token.gen \in Nat /\ rows[j][q].token.provider \in Providers
          /\ rows[j][q].token.gen <= gen[j][rows[j][q].token.provider]
        BY <2>1 DEF Tokens, Inv, TokensGiven, Exists
    <2>3. rows[j][q].token.gen <= gen'[j][rows[j][q].token.provider]
        BY <1>t, <1>1, <1>2, <2>2, RowType
    <2>4. ASSUME rows[j][q].token = Current(j, q)' PROVE rows[j][q].token = Current(j, q)
        <3>1. rows[j][q].token.provider = q /\ rows[j][q].token.gen = gen'[j][q]
            BY <2>4 DEF Current
        <3>2. gen'[j][q] = gen[j][q]
            BY <1>1, <1>2, <2>2, <3>1
        <3> QED BY <2>4, <3>2 DEF Current
    <2> QED BY <2>3, <2>4
<1>5. BindingFollowsLogin' /\ Bindings'
    BY <1>1 DEF Inv, BindingFollowsLogin, Bindings, Exists
<1>6. Queued' /\ Held'
    BY <1>1 DEF Inv, Queued, Held, Exists, Routed, SameRow
<1> QED BY <1>3, <1>4, <1>5, <1>6, <1>r DEF Inv

\* A request that writes tokens keeps the ghosts in their types.
LEMMA ReplaceType ==
    ASSUME TypeOK, NEW i \in Installs, NEW ps \in SUBSET Providers, Replace(i, ps)
    PROVE  replaced' \in SUBSET (Installs \X Providers)
BY DEF TypeOK, Replace

\* Register writes the row for the user that the client is set to.
LEMMA RegisterStep ==
    ASSUME Inv, NEW i \in Installs, NEW p \in Providers, Register(i, p)
    PROVE  Inv'
<1> USE DEF sendVars
<1>t. TypeOK
    BY DEF Inv
<1>u. login[i] \in Users \cup {NoUser} /\ Current(i, p) \in Tokens
    BY <1>t, RowType DEF TypeOK
<1>1. /\ Upsert(i, p, login[i], Current(i, p)) /\ Replace(i, {p})
      /\ UNCHANGED <<gen, login, refresh, todo, sending, unsure, rung>>
    BY DEF Register
<1>r. Rings'
    BY <1>1, RungKept
<1>2. /\ rows' \in [Installs -> [Providers -> Rows \cup {NoRow}]]
      /\ rows'[i][p] \in Rows /\ rows'[i][p].token = Current(i, p) /\ rows'[i][p].status = "active"
      /\ login[i] # NoUser \/ ~Exists(i, p) => rows'[i][p].user = login[i]
      /\ login[i] = NoUser /\ Exists(i, p) => rows'[i][p].user = rows[i][p].user
      /\ \A j \in Installs, q \in Providers : j # i \/ q # p => rows'[j][q] = rows[j][q]
    BY <1>t, <1>u, <1>1, UpsertValue
<1>3. TypeOK'
    BY <1>t, <1>1, <1>2, ReplaceType DEF TypeOK
<1>4. InvalidIsDead' /\ TokensGiven' /\ Queued' /\ Held'
    <2>1. /\ \A j \in Installs, q \in Providers : j # i \/ q \notin {p} => rows'[j][q] = rows[j][q]
          /\ \A q \in {p} : /\ rows'[i][q] \in Rows
                            /\ rows'[i][q].token = Current(i, p) /\ rows'[i][q].status = "active"
        BY <1>2
    <2> QED BY <1>1, <2>1, TokenStep
<1>5. BindingFollowsLogin'
    BY <1>1, <1>2 DEF Inv, BindingFollowsLogin, Exists
<1>6. Bindings'
    <2>1. Exists(i, p)'
        BY <1>2, NoRowIsNone DEF Exists
    <2>2. \A j \in Installs, q \in Providers : Exists(j, q) => Exists(j, q)'
        BY <1>2, <2>1 DEF Exists
    <2> QED BY <1>1, <2>2 DEF Inv, Bindings
<1> QED BY <1>3, <1>4, <1>5, <1>6, <1>r DEF Inv

\* UpdateToken, of one row or of all that an installation has.
LEMMA UpdateTokenStep ==
    ASSUME Inv, NEW i \in Installs, NEW p \in Providers, UpdateToken(i, p) \/ UpdateTokenLegacy(i, p)
    PROVE  Inv'
<1> USE DEF sendVars
<1>t. TypeOK
    BY DEF Inv
<1>1. PICK ps \in SUBSET Providers :
          rows' = Update(i, ps, [token |-> Current(i, p), status |-> "active"]) /\ Replace(i, ps)
    BY DEF UpdateToken, UpdateTokenLegacy
<1>2. UNCHANGED <<gen, login, refresh, todo, sending, unsure, rung>>
    BY DEF UpdateToken, UpdateTokenLegacy
<1>r. Rings'
    BY <1>2, RungKept
<1>3. PICK t \in Tokens : t = Current(i, p)
    BY <1>t, RowType
<1>4. rows' = Update(i, ps, [token |-> t, status |-> "active"])
    BY <1>1, <1>3
<1>5. \A row \in Rows :
          SetColumns(row, [token |-> t, status |-> "active"]) =
              [user |-> row.user, token |-> t, status |-> "active"]
    BY SetTokenColumns
<1>6. \A row \in Rows : SetColumns(row, [token |-> t, status |-> "active"]) \in Rows
    <2>1. \A row \in Rows : [user |-> row.user, token |-> t, status |-> "active"] \in Rows
        BY DEF Rows, Statuses
    <2> QED BY <1>5, <2>1
<1>7. \A j \in Installs, q \in Providers :
          /\ j = i /\ Exists(j, q) /\ q \in ps =>
                 /\ rows'[j][q] \in Rows /\ rows'[j][q].user = rows[j][q].user
                 /\ rows'[j][q].token = t /\ rows'[j][q].status = "active"
          /\ ~(j = i /\ Exists(j, q) /\ q \in ps) => rows'[j][q] = rows[j][q]
    <2> SUFFICES ASSUME NEW j \in Installs, NEW q \in Providers
                 PROVE  /\ j = i /\ Exists(j, q) /\ q \in ps =>
                               /\ rows'[j][q] \in Rows /\ rows'[j][q].user = rows[j][q].user
                               /\ rows'[j][q].token = t /\ rows'[j][q].status = "active"
                        /\ ~(j = i /\ Exists(j, q) /\ q \in ps) => rows'[j][q] = rows[j][q]
        OBVIOUS
    <2>1. Exists(j, q) => rows[j][q] \in Rows
        BY <1>t, RowType
    <2>2. /\ j = i /\ Exists(j, q) /\ q \in ps =>
                rows'[j][q] = SetColumns(rows[j][q], [token |-> t, status |-> "active"])
          /\ ~(j = i /\ Exists(j, q) /\ q \in ps) => rows'[j][q] = rows[j][q]
        BY <1>t, <1>4, UpdateValue
    <2>3. CASE j = i /\ Exists(j, q) /\ q \in ps
        <3>1. /\ rows'[j][q] \in Rows
              /\ rows'[j][q] = [user |-> rows[j][q].user, token |-> t, status |-> "active"]
            BY <1>5, <1>6, <2>1, <2>2, <2>3
        <3> QED BY <2>3, <3>1
    <2> QED BY <2>2, <2>3
<1>8. TypeOK'
    <2>1. rows' \in [Installs -> [Providers -> Rows \cup {NoRow}]]
        BY <1>t, <1>4, <1>6, UpdateType
    <2> QED BY <1>t, <1>1, <1>2, <2>1, ReplaceType DEF TypeOK
<1>9. InvalidIsDead' /\ TokensGiven' /\ Queued' /\ Held'
    <2>1. \A j \in Installs, q \in Providers : j # i \/ q \notin ps => rows'[j][q] = rows[j][q]
        BY <1>7
    <2>2. \A q \in ps : \/ rows[i][q] = NoRow /\ rows'[i][q] = NoRow
                        \/ /\ rows'[i][q] \in Rows
                           /\ rows'[i][q].token = Current(i, p) /\ rows'[i][q].status = "active"
        BY <1>3, <1>7 DEF Exists
    <2> QED BY <1>1, <1>2, <2>1, <2>2, TokenStep
<1>10. \A j \in Installs, q \in Providers :
           (Exists(j, q) <=> Exists(j, q)') /\ (Exists(j, q) => rows'[j][q].user = rows[j][q].user)
    BY <1>7, NoRowIsNone DEF Exists
<1>11. BindingFollowsLogin' /\ Bindings'
    BY <1>2, <1>10 DEF Inv, BindingFollowsLogin, Bindings
<1> QED BY <1>8, <1>9, <1>11, <1>r DEF Inv

\* A token update that finds no row reads the user of another.
LEMMA RefreshStep ==
    ASSUME Inv, NEW i \in Installs, NEW p \in Providers, UpdateTokenMisses(i, p) \/ FindExisting(i, p)
    PROVE  Inv'
<1> USE DEF sendVars, ghostVars
<1>t. TypeOK
    BY DEF Inv
<1>1. UNCHANGED <<rows, gen, login, todo, sending, unsure, replaced, rung>>
    BY DEF UpdateTokenMisses, FindExisting
<1>r. Rings'
    BY <1>1, RungKept
<1>2. InvalidIsDead' /\ TokensGiven' /\ BindingFollowsLogin'
    BY <1>1 DEF Inv, InvalidIsDead, TokensGiven, BindingFollowsLogin, Exists, Current
<1>3. Queued' /\ Held'
    BY <1>1 DEF Inv, Queued, Held, Exists, Routed, SameRow
<1>4. CASE UpdateTokenMisses(i, p)
    <2>1. refresh' = [stage |-> "find", install |-> i, provider |-> p]
        BY <1>4 DEF UpdateTokenMisses
    <2>2. TypeOK'
        BY <1>t, <1>1, <2>1 DEF TypeOK
    <2>3. Bindings'
        BY <1>1, <2>1 DEF Inv, Bindings, Exists
    <2> QED BY <1>2, <1>3, <2>2, <2>3, <1>r DEF Inv
<1>5. CASE FindExisting(i, p)
    <2>1. PICK u \in Users \cup {NoUser} :
              /\ IF Primary(i) = {} THEN u = NoUser ELSE \E q \in Primary(i) : u = rows[i][q].user
              /\ refresh' = [stage |-> "register", install |-> i, provider |-> p, user |-> u]
        BY <1>5 DEF FindExisting
    <2>2. TypeOK'
        BY <1>t, <1>1, <2>1 DEF TypeOK
    <2>3. i \notin unsure => u = login[i]
        <3>1. CASE Primary(i) = {}
            <4>1. \A q \in Providers : ~Exists(i, q)
                BY <3>1 DEF Primary
            <4> QED BY <2>1, <3>1, <4>1 DEF Inv, Bindings
        <3>2. CASE Primary(i) # {}
            <4>1. PICK q \in Primary(i) : u = rows[i][q].user
                BY <2>1, <3>2
            <4>2. q \in Providers /\ Exists(i, q)
                BY DEF Primary
            <4> QED BY <4>1, <4>2 DEF Inv, BindingFollowsLogin
        <3> QED BY <3>1, <3>2
    <2>4. Bindings'
        BY <1>1, <2>1, <2>3 DEF Inv, Bindings, Exists
    <2> QED BY <1>2, <1>3, <2>2, <2>4, <1>r DEF Inv
<1> QED BY <1>4, <1>5

\* RegisterMissing writes the row for the user that the refresh has read.
LEMMA RegisterMissingStep ==
    ASSUME Inv, NEW i \in Installs, NEW p \in Providers, RegisterMissing(i, p)
    PROVE  Inv'
<1> USE DEF sendVars
<1>t. TypeOK
    BY DEF Inv
<1>0. refresh.stage = "register" /\ refresh.install = i
    BY DEF RegisterMissing
<1>u. PICK u \in Users \cup {NoUser} : u = refresh.user
    BY <1>t, <1>0 DEF TypeOK, Idle
<1>c. Current(i, p) \in Tokens
    BY <1>t, RowType
<1>1. /\ Upsert(i, p, u, Current(i, p)) /\ Replace(i, {p}) /\ refresh' = Idle
      /\ UNCHANGED <<gen, login, todo, sending, unsure, rung>>
    BY <1>u DEF RegisterMissing
<1>r. Rings'
    BY <1>1, RungKept
<1>2. /\ rows' \in [Installs -> [Providers -> Rows \cup {NoRow}]]
      /\ rows'[i][p] \in Rows /\ rows'[i][p].token = Current(i, p) /\ rows'[i][p].status = "active"
      /\ u # NoUser \/ ~Exists(i, p) => rows'[i][p].user = u
      /\ u = NoUser /\ Exists(i, p) => rows'[i][p].user = rows[i][p].user
      /\ \A j \in Installs, q \in Providers : j # i \/ q # p => rows'[j][q] = rows[j][q]
    BY <1>t, <1>c, <1>1, UpsertValue
<1>3. TypeOK'
    BY <1>t, <1>1, <1>2, ReplaceType DEF TypeOK
<1>4. InvalidIsDead' /\ TokensGiven' /\ Queued' /\ Held'
    <2>1. /\ \A j \in Installs, q \in Providers : j # i \/ q \notin {p} => rows'[j][q] = rows[j][q]
          /\ \A q \in {p} : /\ rows'[i][q] \in Rows
                            /\ rows'[i][q].token = Current(i, p) /\ rows'[i][q].status = "active"
        BY <1>2
    <2> QED BY <1>1, <2>1, TokenStep
<1>5. i \notin unsure => u = login[i]
    BY <1>0, <1>u DEF Inv, Bindings
<1>6. BindingFollowsLogin'
    BY <1>1, <1>2, <1>5 DEF Inv, BindingFollowsLogin, Exists
<1>7. Bindings'
    <2>1. Exists(i, p)'
        BY <1>2, NoRowIsNone DEF Exists
    <2>2. \A j \in Installs, q \in Providers : Exists(j, q) => Exists(j, q)'
        BY <1>2, <2>1 DEF Exists
    <2>3. refresh'.stage # "register"
        BY <1>1 DEF Idle
    <2> QED BY <1>1, <2>2, <2>3 DEF Inv, Bindings
<1> QED BY <1>3, <1>4, <1>6, <1>7, <1>r DEF Inv

\* SetUser binds all rows of the installation: a refresh that has read the user
\* before is what it cannot reach.
LEMMA SetUserStep ==
    ASSUME Inv, NEW i \in Installs, NEW u \in Users \cup {NoUser}, SetUser(i, u)
    PROVE  Inv'
<1> USE DEF sendVars
<1>t. TypeOK
    BY DEF Inv
<1>1. /\ login' = [login EXCEPT ![i] = u] /\ rows' = Update(i, Providers, [user |-> u]) /\ Overlap(i)
      /\ UNCHANGED <<gen, refresh, todo, sending, replaced, rung>>
    BY DEF SetUser, Bound
<1>r. Rings'
    BY <1>1, RungKept
<1>2. \A row \in Rows :
          /\ SetColumns(row, [user |-> u]) = [user |-> u, token |-> row.token, status |-> row.status]
          /\ [user |-> u, token |-> row.token, status |-> row.status] \in Rows
    BY SetUserColumn DEF Rows
<1>3. \A row \in Rows : SetColumns(row, [user |-> u]) \in Rows
    BY <1>2
<1>4. \A j \in Installs, q \in Providers :
          /\ j = i /\ Exists(j, q) =>
                 /\ rows'[j][q] \in Rows /\ rows'[j][q].user = u
                 /\ rows'[j][q].token = rows[j][q].token /\ rows'[j][q].status = rows[j][q].status
          /\ ~(j = i /\ Exists(j, q)) => rows'[j][q] = rows[j][q]
    <2> SUFFICES ASSUME NEW j \in Installs, NEW q \in Providers
                 PROVE  /\ j = i /\ Exists(j, q) =>
                             /\ rows'[j][q] \in Rows /\ rows'[j][q].user = u
                             /\ rows'[j][q].token = rows[j][q].token
                             /\ rows'[j][q].status = rows[j][q].status
                        /\ ~(j = i /\ Exists(j, q)) => rows'[j][q] = rows[j][q]
        OBVIOUS
    <2>1. Exists(j, q) => rows[j][q] \in Rows
        BY <1>t, RowType
    <2>2. /\ j = i /\ Exists(j, q) => rows'[j][q] = SetColumns(rows[j][q], [user |-> u])
          /\ ~(j = i /\ Exists(j, q)) => rows'[j][q] = rows[j][q]
        BY <1>t, <1>1, UpdateValue
    <2>3. CASE j = i /\ Exists(j, q)
        <3>1. /\ rows'[j][q] \in Rows
              /\ rows'[j][q] = [user |-> u, token |-> rows[j][q].token, status |-> rows[j][q].status]
            BY <1>2, <2>1, <2>2, <2>3
        <3> QED BY <2>3, <3>1
    <2> QED BY <2>2, <2>3
<1>5. TypeOK'
    <2>1. rows' \in [Installs -> [Providers -> Rows \cup {NoRow}]]
        BY <1>t, <1>1, <1>3, UpdateType
    <2> QED BY <1>t, <1>1, <2>1 DEF TypeOK, Overlap
<1>6. \A j \in Installs, q \in Providers :
          /\ Exists(j, q) <=> Exists(j, q)'
          /\ Exists(j, q) => /\ rows'[j][q].token = rows[j][q].token
                             /\ rows'[j][q].status = rows[j][q].status
                             /\ j = i => rows'[j][q].user = u
                             /\ j # i => rows'[j][q].user = rows[j][q].user
    BY <1>4, NoRowIsNone DEF Exists
<1>7. InvalidIsDead' /\ TokensGiven' /\ Queued' /\ Held'
    BY <1>1, <1>6, ColumnStep
<1>8. \A j \in Installs : (j = i => login'[j] = u) /\ (j # i => login'[j] = login[j])
    BY <1>t, <1>1 DEF TypeOK
<1>9. /\ \A j \in Installs \ {i} : j \in unsure' <=> j \in unsure
      /\ (\A p \in Providers : ~Exists(i, p)) => i \in unsure'
      /\ refresh.stage = "register" /\ refresh.install = i => i \in unsure'
    BY <1>1 DEF Overlap
<1>10. BindingFollowsLogin'
    BY <1>6, <1>8, <1>9 DEF Inv, BindingFollowsLogin
<1>11. Bindings'
    <2>1. refresh.stage = "register" => refresh.install \in Installs
        BY <1>t DEF TypeOK, Idle
    <2> QED BY <1>1, <1>6, <1>8, <1>9, <2>1 DEF Inv, Bindings
<1> QED BY <1>5, <1>7, <1>10, <1>11, <1>r DEF Inv

\* A request that is lost leaves the rows to the user who was there.
LEMMA SetUserLostStep ==
    ASSUME Inv, NEW i \in Installs, NEW u \in Users \cup {NoUser}, SetUserLost(i, u)
    PROVE  Inv'
<1> USE DEF sendVars
<1>t. TypeOK
    BY DEF Inv
<1>1. /\ login' = [login EXCEPT ![i] = u] /\ unsure' = unsure \cup {i}
      /\ UNCHANGED <<rows, gen, refresh, todo, sending, replaced, rung>>
    BY <1>t DEF SetUserLost, TypeOK
<1>r. Rings'
    BY <1>1, RungKept
<1>2. TypeOK'
    BY <1>t, <1>1 DEF TypeOK
<1>3. InvalidIsDead' /\ TokensGiven' /\ Queued' /\ Held'
    BY <1>1, ColumnStep DEF Exists
<1>4. \A j \in Installs \ {i} : login'[j] = login[j]
    BY <1>t, <1>1 DEF TypeOK
<1>5. BindingFollowsLogin'
    BY <1>1, <1>4 DEF Inv, BindingFollowsLogin, Exists
<1>6. Bindings'
    <2>1. refresh.stage = "register" => refresh.install \in Installs
        BY <1>t DEF TypeOK, Idle
    <2> QED BY <1>1, <1>4, <2>1 DEF Inv, Bindings, Exists
<1> QED BY <1>2, <1>3, <1>5, <1>6, <1>r DEF Inv

\* Unregister and MarkInvalid set the status of rows and nothing else.
LEMMA StatusValue ==
    ASSUME TypeOK, NEW i \in Installs, NEW ps, NEW s \in Statuses, rows' = Update(i, ps, [status |-> s])
    PROVE  /\ rows' \in [Installs -> [Providers -> Rows \cup {NoRow}]]
           /\ \A j \in Installs, q \in Providers :
                 /\ Exists(j, q) <=> Exists(j, q)'
                 /\ Exists(j, q) => /\ rows'[j][q].token = rows[j][q].token
                                    /\ rows'[j][q].user = rows[j][q].user
                                    /\ rows'[j][q].status = s \/ rows'[j][q].status = rows[j][q].status
                 /\ j # i \/ q \notin ps => rows'[j][q] = rows[j][q]
<1>1. \A row \in Rows :
          /\ SetColumns(row, [status |-> s]) = [user |-> row.user, token |-> row.token, status |-> s]
          /\ [user |-> row.user, token |-> row.token, status |-> s] \in Rows
    BY SetStatusColumn DEF Rows
<1>2. \A row \in Rows : SetColumns(row, [status |-> s]) \in Rows
    BY <1>1
<1>3. rows' \in [Installs -> [Providers -> Rows \cup {NoRow}]]
    BY <1>2, UpdateType
<1>4. ASSUME NEW j \in Installs, NEW q \in Providers
      PROVE  /\ Exists(j, q) <=> Exists(j, q)'
             /\ Exists(j, q) => /\ rows'[j][q].token = rows[j][q].token
                                /\ rows'[j][q].user = rows[j][q].user
                                /\ rows'[j][q].status = s \/ rows'[j][q].status = rows[j][q].status
             /\ j # i \/ q \notin ps => rows'[j][q] = rows[j][q]
    <2>1. Exists(j, q) => rows[j][q] \in Rows
        BY RowType
    <2>2. /\ j = i /\ Exists(j, q) /\ q \in ps => rows'[j][q] = SetColumns(rows[j][q], [status |-> s])
          /\ ~(j = i /\ Exists(j, q) /\ q \in ps) => rows'[j][q] = rows[j][q]
        BY UpdateValue
    <2>3. CASE j = i /\ Exists(j, q) /\ q \in ps
        <3>1. /\ rows'[j][q] \in Rows
              /\ rows'[j][q] = [user |-> rows[j][q].user, token |-> rows[j][q].token, status |-> s]
            BY <1>1, <2>1, <2>2, <2>3
        <3>2. Exists(j, q)'
            BY <3>1, NoRowIsNone DEF Exists
        <3> QED BY <2>3, <3>1, <3>2
    <2>4. CASE ~(j = i /\ Exists(j, q) /\ q \in ps)
        BY <2>2, <2>4 DEF Exists
    <2> QED BY <2>3, <2>4
<1> QED BY <1>3, <1>4

\* Unregister disables rows; their tokens and users stay.
LEMMA UnregisterStep ==
    ASSUME Inv, NEW i \in Installs, Unregister(i)
    PROVE  Inv'
<1> USE DEF sendVars, ghostVars
<1>t. TypeOK
    BY DEF Inv
<1>1. /\ rows' = Update(i, Providers, [status |-> "disabled"])
      /\ UNCHANGED <<gen, login, refresh, todo, sending, unsure, replaced, rung>>
    BY DEF Unregister
<1>r. Rings'
    BY <1>1, RungKept
<1>2. "disabled" \in Statuses
    BY DEF Statuses
<1>3. /\ rows' \in [Installs -> [Providers -> Rows \cup {NoRow}]]
      /\ \A j \in Installs, q \in Providers :
            /\ Exists(j, q) <=> Exists(j, q)'
            /\ Exists(j, q) =>
                  /\ rows'[j][q].token = rows[j][q].token
                  /\ rows'[j][q].user = rows[j][q].user
                  /\ rows'[j][q].status = "disabled" \/ rows'[j][q].status = rows[j][q].status
    BY <1>t, <1>1, <1>2, StatusValue
<1>4. TypeOK'
    BY <1>t, <1>1, <1>3 DEF TypeOK
<1>5. InvalidIsDead' /\ TokensGiven' /\ Queued' /\ Held'
    BY <1>1, <1>3, ColumnStep
<1>6. BindingFollowsLogin' /\ Bindings'
    BY <1>1, <1>3 DEF Inv, BindingFollowsLogin, Bindings
<1> QED BY <1>4, <1>5, <1>6, <1>r DEF Inv

-----------------------------------------------------------------------------
(* Sending *)

\* The deliveries of a message are for rows that are active and may have it, one
\* each.
LEMMA DeliveriesValue ==
    ASSUME NEW is \in SUBSET Installs, NEW a, NEW type
    PROVE  /\ \A t \in Deliveries(is, a, type) :
                  /\ t \in Targets /\ t.install \in is /\ t.provider \in Active(t.install)
                  /\ t.provider \in Filtered(t.install, Addressed(t.install, a), type) /\ Routed(t)
           /\ \A s, t \in Deliveries(is, a, type) : SameRow(s, t) => s = t
<1>1. ASSUME NEW t \in Deliveries(is, a, type)
      PROVE  /\ t \in Targets /\ t.install \in is /\ t.provider \in Active(t.install)
             /\ t.provider \in Filtered(t.install, Addressed(t.install, a), type) /\ Routed(t)
             /\ t.via = SelectProvider(t.install, t.provider, type)
    <2>1. PICK i \in is : t \in TargetsOf(i, Addressed(i, a), type)
        BY DEF Deliveries
    <2>2. Addressed(i, a) \in SUBSET Providers /\ Addressed(i, a) \subseteq Active(i)
        BY AddressedActive
    <2>3. i \in Installs
        OBVIOUS
    <2>4. /\ t \in Targets /\ t.install = i /\ t.provider \in Addressed(i, a)
          /\ t.via = SelectProvider(i, t.provider, type) /\ Routed(t)
        BY <2>1, <2>2, <2>3, TargetsOfValue
    <2>5. t.provider \in Filtered(i, Addressed(i, a), type)
        BY <2>1 DEF TargetsOf
    <2> QED BY <2>2, <2>4, <2>5
<1>2. ASSUME NEW s \in Deliveries(is, a, type), NEW t \in Deliveries(is, a, type), SameRow(s, t)
      PROVE  s = t
    <2>1. /\ t = [install |-> t.install, provider |-> t.provider, via |-> t.via]
          /\ s = [install |-> s.install, provider |-> s.provider, via |-> s.via]
        BY <1>1 DEF Targets
    <2>2. s.via = t.via
        BY <1>1, <1>2 DEF SameRow
    <2> QED BY <1>2, <2>1, <2>2 DEF SameRow
<1> QED BY <1>1, <1>2

\* A call rings rows of the installations, and on an iPhone a VoIP row alone.
LEMMA RecallStep ==
    ASSUME Inv, NEW is \in SUBSET Installs, NEW a \in Addressees, NEW type, Recall(is, a, type)
    PROVE  rung' \in [whom : Addressees, rows : SUBSET (Installs \X Providers)] /\ Rings'
<1>t. rung \in [whom : Addressees, rows : SUBSET (Installs \X Providers)]
    BY DEF Inv, TypeOK
<1> DEFINE rows1 == {<<t.install, t.provider>> : t \in Deliveries(is, a, type)}
<1>1. CASE type = "incoming_call"
    <2>1. rung' = [whom |-> a, rows |-> rows1]
        BY <1>1 DEF Recall
    <2>2. \A i, p : <<i, p>> \in rows1 =>
              /\ i \in Installs /\ p \in Providers
              /\ p \in Filtered(i, Addressed(i, a), type)
        <3> SUFFICES ASSUME NEW t \in Deliveries(is, a, type)
                     PROVE  /\ t.install \in Installs /\ t.provider \in Providers
                            /\ t.provider \in Filtered(t.install, Addressed(t.install, a), type)
            OBVIOUS
        <3> QED BY DeliveriesValue DEF Targets
    <2>3. rows1 \in SUBSET (Installs \X Providers)
        BY DeliveriesValue DEF Targets
    <2> HIDE DEF rows1
    <2>4. Rings'
        <3> SUFFICES ASSUME NEW i \in Installs, Platform[i] = "ios", <<i, "apns_voip">> \in rows1,
                            NEW p \in Providers, <<i, p>> \in rows1
                     PROVE  p = "apns_voip"
            BY <2>1 DEF Rings
        <3>1. Addressed(i, a) \in SUBSET Providers
            BY AddressedActive
        <3>2. "apns_voip" \in Addressed(i, a)
            BY <2>2, FilteredSubset
        <3>3. Filtered(i, Addressed(i, a), type) = {"apns_voip"}
            BY <1>1, <3>1, <3>2, VoipAlone DEF CallTypes
        <3> QED BY <2>2, <3>3
    <2> QED BY <2>1, <2>3, <2>4
<1>2. CASE rung' = NoRing
    <2>1. NoRing \in [whom : Addressees, rows : SUBSET (Installs \X Providers)]
        BY DEF NoRing, Addressees
    <2> QED BY <1>2, <2>1 DEF NoRing, Rings
<1>3. CASE rung' = rung
    BY <1>t, <1>3, RungKept
<1> QED BY <1>1, <1>2, <1>3 DEF Recall

\* A message is queued for rows that are active, each once.
LEMMA EnqueueStep ==
    ASSUME Inv, NEW is \in SUBSET Installs, NEW a \in Addressees, NEW type, Enqueue(is, a, type)
    PROVE  Inv'
<1> USE DEF registryVars
<1>t. TypeOK
    BY DEF Inv
<1>1. /\ sending = NoDelivery /\ todo' = Deliveries(is, a, type)
      /\ UNCHANGED <<rows, gen, login, refresh, sending, unsure, replaced>>
    BY DEF Enqueue
<1>2. /\ rung' \in [whom : Addressees, rows : SUBSET (Installs \X Providers)]
      /\ Rings'
    BY RecallStep DEF Enqueue
<1>3. /\ \A t \in todo' : /\ t \in Targets /\ t.provider \in Active(t.install) /\ Routed(t)
                          /\ \A s \in todo' : SameRow(s, t) => s = t
    BY <1>1, DeliveriesValue
<1>4. TypeOK'
    <2>1. todo' \in SUBSET Targets
        BY <1>3
    <2> QED BY <1>t, <1>1, <1>2, <2>1 DEF TypeOK
<1>5. InvalidIsDead' /\ TokensGiven' /\ BindingFollowsLogin' /\ Bindings'
    BY <1>1 DEF Inv, InvalidIsDead, TokensGiven, BindingFollowsLogin, Bindings, Exists, Current
<1>6. Queued'
    BY <1>1, <1>3 DEF Queued, Active, Exists, Routed, SameRow
<1>7. Held'
    BY <1>1 DEF Held
<1> QED BY <1>2, <1>4, <1>5, <1>6, <1>7 DEF Inv

\* Send, to a user or to an installation.
LEMMA SendStep ==
    ASSUME Inv, NEW type,
           \/ \E u \in Users : SendToUser(u, type)
           \/ \E i \in Installs : SendToInstall(i, type)
    PROVE  Inv'
<1>1. ASSUME NEW u \in Users, SendToUser(u, type) PROVE Inv'
    <2>1. u \in Addressees /\ Installs \in SUBSET Installs
        BY DEF Addressees
    <2> QED BY <1>1, <2>1, EnqueueStep DEF SendToUser
<1>2. ASSUME NEW i \in Installs, SendToInstall(i, type) PROVE Inv'
    <2>1. NoUser \in Addressees /\ {i} \in SUBSET Installs
        BY DEF Addressees
    <2> QED BY <1>2, <2>1, EnqueueStep DEF SendToInstall
<1> QED BY <1>1, <1>2

\* The worker picks a delivery: its row is not picked again for this message.
LEMMA PickStep ==
    ASSUME Inv, NEW t \in todo, Pick(t)
    PROVE  Inv'
<1> USE DEF registryVars
<1>t. TypeOK
    BY DEF Inv
<1>1. /\ sending = NoDelivery /\ todo' = todo \ {t}
      /\ sending' = [target |-> t, token |-> rows[t.install][t.provider].token]
      /\ replaced' = replaced \ {<<t.install, t.provider>>}
      /\ UNCHANGED <<rows, gen, login, refresh, unsure, rung>>
    BY DEF Pick
<1>r. Rings'
    BY <1>1, RungKept
<1>2. /\ t \in Targets /\ t.install \in Installs /\ t.provider \in Providers
      /\ Exists(t.install, t.provider) /\ rows[t.install][t.provider].status # "invalid" /\ Routed(t)
      /\ \A s \in todo : SameRow(s, t) => s = t
    BY <1>t DEF Inv, Queued, TypeOK, Targets
<1>3. rows[t.install][t.provider].token \in Tokens
    BY <1>t, <1>2, RowType DEF Rows
<1>4. TypeOK'
    BY <1>t, <1>1, <1>2, <1>3 DEF TypeOK
<1>5. InvalidIsDead'
    BY <1>1, <1>2 DEF Inv, InvalidIsDead, Exists, Current
<1>6. TokensGiven' /\ BindingFollowsLogin' /\ Bindings'
    BY <1>1 DEF Inv, TokensGiven, BindingFollowsLogin, Bindings, Exists
<1>7. sending'.target = t /\ sending'.token = rows[t.install][t.provider].token
    BY <1>1
<1>8. Queued'
    BY <1>1, <1>2, <1>7 DEF Inv, Queued, Exists, Routed, SameRow
<1>9. Held'
    BY <1>1, <1>2, <1>7 DEF Held, Exists, Routed
<1> QED BY <1>4, <1>5, <1>6, <1>8, <1>9, <1>r DEF Inv

\* The vendor has answered: if the row is marked invalid and holds the current
\* token, that is not the token that was sent, or it went by another provider.
LEMMA AnswerStep ==
    ASSUME Inv, Answer
    PROVE  Inv'
<1> USE DEF ghostVars
<1>t. TypeOK
    BY DEF Inv
<1>1. /\ sending # NoDelivery /\ sending' = NoDelivery
      /\ UNCHANGED <<gen, login, refresh, todo, unsure, replaced, rung>>
    BY DEF Answer
<1>r. Rings'
    BY <1>1, RungKept
<1>2. PICK t \in Targets, k \in Tokens : sending = [target |-> t, token |-> k]
    BY <1>t, <1>1 DEF TypeOK
<1>3. /\ t.install \in Installs /\ t.provider \in Providers /\ t.via \in AllProviders
      /\ sending.target = t /\ sending.token = k
    BY <1>2 DEF Targets
<1>4. /\ Exists(t.install, t.provider) /\ Routed(t)
      /\ <<t.install, t.provider>> \in replaced \/ rows[t.install][t.provider].token = k
    BY <1>1, <1>3 DEF Inv, Held
<1>5. Held'
    BY <1>1 DEF Held
<1>6. CASE rows' = rows
    <2>1. TypeOK'
        BY <1>t, <1>1, <1>6 DEF TypeOK
    <2>2. InvalidIsDead' /\ TokensGiven' /\ BindingFollowsLogin' /\ Bindings'
        BY <1>1, <1>6 DEF Inv, InvalidIsDead, TokensGiven, BindingFollowsLogin, Bindings, Exists, Current
    <2>3. Queued'
        BY <1>1, <1>6 DEF Inv, Queued, Exists, Routed, SameRow
    <2> QED BY <1>5, <2>1, <2>2, <2>3, <1>r DEF Inv
<1>7. CASE ~Takes(t.via, t.install, k) /\ rows' = MarkInvalid(t.install, t.provider)
    <2>0. PICK i \in Installs, ps \in SUBSET Providers : i = t.install /\ ps = {t.provider}
        BY <1>3
    <2>1. rows' = Update(i, ps, [status |-> "invalid"]) /\ "invalid" \in Statuses
        BY <1>7, <2>0 DEF MarkInvalid, Statuses
    <2>2. /\ rows' \in [Installs -> [Providers -> Rows \cup {NoRow}]]
          /\ \A j \in Installs, q \in Providers :
                /\ Exists(j, q) <=> Exists(j, q)'
                /\ Exists(j, q) => /\ rows'[j][q].token = rows[j][q].token
                                   /\ rows'[j][q].user = rows[j][q].user
                /\ j # i \/ q \notin ps => rows'[j][q] = rows[j][q]
        BY <1>t, <2>1, StatusValue
    <2>3. TypeOK'
        BY <1>t, <1>1, <2>2 DEF TypeOK
    <2>4. TokensGiven' /\ BindingFollowsLogin' /\ Bindings'
        <3>1. TokensGiven'
            BY <1>1, <2>2 DEF Inv, TokensGiven
        <3>2. BindingFollowsLogin'
            BY <1>1, <2>2 DEF Inv, BindingFollowsLogin
        <3>3. Bindings'
            <4>1. refresh' = refresh /\ login' = login /\ unsure' = unsure
                BY <1>1
            <4>2. Bindings
                BY DEF Inv
            <4>3. \A j \in Installs : (\A q \in Providers : ~Exists(j, q)') => \A q \in Providers : ~Exists(j, q)
                BY <2>2
            <4> QED BY <4>1, <4>2, <4>3 DEF Bindings
        <3> QED BY <3>1, <3>2, <3>3
    <2>5. InvalidIsDead'
        <3> SUFFICES ASSUME NEW j \in Installs, NEW q \in Providers, Exists(j, q)',
                            rows'[j][q].status = "invalid", rows'[j][q].token = Current(j, q)
                     PROVE  <<j, q>> \in replaced \/ (Platform[j] = "ios" /\ q \notin {"apns", "apns_voip"})
            BY <1>1 DEF InvalidIsDead, Current
        <3>1. CASE j # t.install \/ q # t.provider
            BY <2>0, <2>2, <3>1 DEF Inv, InvalidIsDead, Exists
        <3>2. CASE j = t.install /\ q = t.provider /\ <<j, q>> \notin replaced
            <4>1. k = Current(j, q)
                BY <1>4, <2>2, <3>2
            <4>2. k.provider = q /\ k.gen = gen[j][q]
                BY <4>1 DEF Current
            <4>3. t.via # t.provider
                BY <1>3, <1>7, <3>2, <4>2 DEF Takes, Registered
            <4> QED BY <1>4, <3>2, <4>3 DEF Routed
        <3> QED BY <3>1, <3>2
    <2>6. Queued'
        <3> SUFFICES ASSUME NEW s \in todo
                     PROVE  /\ Exists(s.install, s.provider)'
                            /\ rows'[s.install][s.provider].status # "invalid"
            BY <1>1 DEF Queued, Inv, SameRow, Routed
        <3>1. /\ s.install \in Installs /\ s.provider \in Providers
              /\ Exists(s.install, s.provider) /\ rows[s.install][s.provider].status # "invalid"
              /\ s.install # t.install \/ s.provider # t.provider
            BY <1>t, <1>1, <1>3 DEF Inv, Queued, TypeOK, Targets, SameRow
        <3> QED BY <2>0, <2>2, <3>1
    <2> QED BY <1>5, <2>3, <2>4, <2>5, <2>6, <1>r DEF Inv
<1> QED BY <1>3, <1>6, <1>7 DEF Answer

-----------------------------------------------------------------------------
(* The inductive invariant *)

LEMMA InitInv == Init => Inv
<1> SUFFICES ASSUME Init PROVE Inv
    OBVIOUS
<1>1. TypeOK
    BY DEF Init, TypeOK, NoRing, Addressees
<1>2. \A i \in Installs, p \in Providers : ~Exists(i, p)
    BY DEF Init, Exists
<1>3. InvalidIsDead /\ BindingFollowsLogin /\ TokensGiven
    BY <1>2 DEF InvalidIsDead, BindingFollowsLogin, TokensGiven
<1>4. Queued /\ Held /\ Bindings /\ Rings
    BY DEF Init, Queued, Held, Bindings, Idle, Rings, NoRing
<1> QED BY <1>1, <1>3, <1>4 DEF Inv

LEMMA NextInv == Inv /\ [Next]_vars => Inv'
<1> SUFFICES ASSUME Inv, [Next]_vars PROVE Inv'
    OBVIOUS
<1>1. ASSUME NEW i \in Installs, DeviceNext(i) PROVE Inv'
    <2>1. ASSUME NEW p \in Providers,
                 \/ Rotate(i, p) \/ Register(i, p)
                 \/ UpdateToken(i, p) \/ UpdateTokenLegacy(i, p) \/ UpdateTokenMisses(i, p)
                 \/ FindExisting(i, p) \/ RegisterMissing(i, p)
          PROVE  Inv'
        BY <2>1, RotateStep, RegisterStep, UpdateTokenStep, RefreshStep, RegisterMissingStep
    <2>2. ASSUME NEW u \in Users \cup {NoUser}, SetUser(i, u) \/ SetUserLost(i, u) PROVE Inv'
        BY <2>2, SetUserStep, SetUserLostStep
    <2>3. CASE Unregister(i)
        BY <2>3, UnregisterStep
    <2> QED BY <1>1, <2>1, <2>2, <2>3 DEF DeviceNext
<1>2. ASSUME NEW type \in Types,
             \/ \E u \in Users : SendToUser(u, type)
             \/ \E i \in Installs : SendToInstall(i, type)
      PROVE  Inv'
    BY <1>2, SendStep
<1>3. CASE (\E t \in todo : Pick(t)) \/ Answer
    BY <1>3, PickStep, AnswerStep
<1>4. CASE UNCHANGED vars
    <2>1. TypeOK'
        BY <1>4 DEF Inv, vars, TypeOK
    <2>2. InvalidIsDead' /\ TokensGiven' /\ BindingFollowsLogin' /\ Bindings'
        BY <1>4 DEF Inv, vars, InvalidIsDead, TokensGiven, BindingFollowsLogin, Bindings, Exists, Current
    <2>3. Queued' /\ Held'
        BY <1>4 DEF Inv, vars, Queued, Held, Exists, Routed, SameRow
    <2>4. Rings'
        BY <1>4, RungKept DEF vars
    <2> QED BY <2>1, <2>2, <2>3, <2>4 DEF Inv
<1> QED BY <1>1, <1>2, <1>3, <1>4 DEF Next

-----------------------------------------------------------------------------
(* Safety *)

\* Inv holds in every behaviour: rows, tokens, users, the message that is being
\* sent and the refresh that is in progress fit together.
THEOREM Invariance == Spec => []Inv
BY InitInv, NextInv, PTL DEF Spec

\* All variables of the registry keep their types: rows, tokens, deliveries.
THEOREM TypeCorrect == Spec => []TypeOK
<1>1. Inv => TypeOK
    BY DEF Inv
<1> QED BY <1>1, Invariance, PTL

\* MarkInvalid gives up no row whose token its vendor would take, unless the
\* token was replaced while the worker was sending to the old one.
THEOREM DeadRows == Spec => []InvalidIsDead
<1>1. Inv => InvalidIsDead
    BY DEF Inv
<1> QED BY <1>1, Invariance, PTL

\* The rows of an installation belong to the user that its client is set to.
THEOREM LoginBinding == Spec => []BindingFollowsLogin
<1>1. Inv => BindingFollowsLogin
    BY DEF Inv
<1> QED BY <1>1, Invariance, PTL

\* The cancel and the end of a call reach the rows that it rang, of those that can
\* still be addressed, whatever happened to the rows in between; the exception is
\* an iPhone whose VoIP row came up after the ring.
THEOREM CancelRoute == Spec => []CancelFollowsRing
<1>1. ASSUME Inv PROVE CancelFollowsRing
    <2> SUFFICES ASSUME NEW i \in Installs, NEW type \in {"call_cancelled", "call_ended"}
                 PROVE  LET rang == {p \in Providers : <<i, p>> \in rung.rows}
                            now == Addressed(i, rung.whom)
                        IN  /\ \/ rang \cap now \subseteq Filtered(i, now, type)
                               \/ "apns_voip" \in now \ rang
                            /\ rang # {} /\ now # {} => Filtered(i, now, type) # {}
        BY DEF CancelFollowsRing
    <2> DEFINE rang == {p \in Providers : <<i, p>> \in rung.rows}
               now == Addressed(i, rung.whom)
    <2>1. now \in SUBSET Providers /\ type \in CallTypes
        BY AddressedActive DEF CallTypes
    <2>2. CASE Platform[i] # "ios" \/ "apns_voip" \notin now
        <3>1. Filtered(i, now, type) = now
            BY <2>1, <2>2, NoVoip
        <3> QED BY <3>1
    <2>3. CASE Platform[i] = "ios" /\ "apns_voip" \in now
        <3>1. Filtered(i, now, type) = {"apns_voip"}
            BY <2>1, <2>3, VoipAlone
        <3>2. "apns_voip" \in rang => \A p \in rang : p = "apns_voip"
            BY <1>1, <2>3 DEF Inv, Rings
        <3> QED BY <2>3, <3>1, <3>2
    <2> QED BY <2>2, <2>3
<1> QED BY <1>1, Invariance, PTL

=============================================================================
