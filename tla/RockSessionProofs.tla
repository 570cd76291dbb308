--------------------------- MODULE RockSessionProofs ---------------------------
(***************************************************************************)
(* Proofs about RockSession for every set of profiles, servers and logins  *)
(* and any number of failures in a call.                                   *)
(***************************************************************************)
EXTENDS RockSession, TLAPS

MigrateSteps == {"migrate", "migrate_username", "migrate_password",
                 "migrate_check", "migrate_undo", "migrate_clear"}
SaveSteps == {"save_username", "save_password", "restore_username",
              "restore_password"}

(* Which method may be at which step, and what it then works on.           *)
CallWellFormed ==
    /\ call.op = "none" => At("start")
    /\ call.op \in {"set_profile", "remove_profile_credentials"} => call.profile \in Profiles
    /\ call.step \in MigrateSteps => call.op = "set_profile" /\ profile_id = call.profile
    /\ call.step \in SaveSteps => call.op = "configure"
    /\ At("clear_legacy") => call.op \in {"configure", "sign_out"}
    /\ call.op = "configure" /\ At("start") => call.profile = profile_id
    /\ call.op = "configure" /\ ~At("done") => \E l \in Logins : call.given = Whole(l)
    /\ call.op = "configure" /\ ~At("done") /\ ~At("start") => profile_id \in Profiles

Inv == TypeOK /\ CallWellFormed
-----------------------------------------------------------------------------
(* Records and keys.                                                       *)

LEMMA KeyTypes ==
    ASSUME NEW p \in Profiles
    PROVE  /\ Rock(p) \in Keys
           /\ Magnus(p) \in Keys
           /\ MagnusAt(OriginOf[p]) \in Keys
BY OriginsAssumption DEF Rock, Magnus, MagnusAt, Keys

LEMMA SpendTypes ==
    ASSUME faults \in 0 .. MaxFaults, NEW failed \in BOOLEAN, Spend(failed)
    PROVE  faults' \in 0 .. MaxFaults
BY FaultsAssumption DEF Spend

(* A step of Secret Service leaves it well typed, whatever fails.          *)
LEMMA StoreTypes ==
    ASSUME vault \in [Keys -> Pair], faults \in 0 .. MaxFaults,
           NEW key, NEW field, NEW value \in Secret, NEW failed \in BOOLEAN,
           StoreSecret(key, field, value, failed)
    PROVE  vault' \in [Keys -> Pair] /\ faults' \in 0 .. MaxFaults
<1>1. faults' \in 0 .. MaxFaults
    BY FaultsAssumption DEF StoreSecret, Spend
<1>2. ASSUME NEW pair \in Pair
      PROVE  [pair EXCEPT ![field] = value] \in Pair
    BY DEF Pair
<1>3. CASE vault' = vault
    BY <1>1, <1>3
<1>4. CASE vault' = [vault EXCEPT ![key] = [@ EXCEPT ![field] = value]]
    <2>1. CASE key \in Keys
        BY <1>1, <1>2, <1>4, <2>1
    <2>2. CASE key \notin Keys
        BY <1>1, <1>4, <2>2
    <2> QED BY <2>1, <2>2
<1> QED BY <1>3, <1>4 DEF StoreSecret

LEMMA ClearTypes ==
    ASSUME vault \in [Keys -> Pair], faults \in 0 .. MaxFaults,
           NEW keys, NEW failed \in BOOLEAN,
           ClearSecrets(keys, failed)
    PROVE  vault' \in [Keys -> Pair] /\ faults' \in 0 .. MaxFaults
<1>1. faults' \in 0 .. MaxFaults
    BY FaultsAssumption DEF ClearSecrets, Spend
<1>2. PICK gone \in SUBSET (keys \X Fields) :
        vault' = [k \in Keys |-> [f \in Fields |->
                    IF <<k, f>> \in gone THEN NoSecret ELSE vault[k][f]]]
    BY DEF ClearSecrets
<1>3. ASSUME NEW k \in Keys, NEW f \in Fields
      PROVE  (IF <<k, f>> \in gone THEN NoSecret ELSE vault[k][f]) \in Secret
    <2>1. vault[k] \in [Fields -> Secret]
        BY DEF Pair
    <2> QED BY <2>1 DEF Secret
<1>4. ASSUME NEW k \in Keys
      PROVE  [f \in Fields |-> IF <<k, f>> \in gone THEN NoSecret ELSE vault[k][f]] \in Pair
    BY <1>3 DEF Pair
<1> QED BY <1>1, <1>2, <1>4

(* What reading a pair returns is a pair.                                  *)
LEMMA SeenTypes ==
    ASSUME NEW key
    PROVE  Seen(key) \subseteq Pair
BY DEF Seen

(* The ways a method ends or goes on keep the record of the call typed.    *)
LEMMA CallTypes ==
    ASSUME call \in Call
    PROVE  /\ \A s \in Steps : [call EXCEPT !.step = s] \in Call
           /\ \A r \in Results : [call EXCEPT !.step = "done", !.result = r,
                                     !.given = Blank, !.old = Blank] \in Call
           /\ \A l \in Logins : [call EXCEPT !.step = "done", !.result = "ok",
                                    !.given = Whole(l)] \in Call
<1>1. Blank \in Pair /\ \A l \in Logins : Whole(l) \in Pair
    BY DEF Blank, Whole, Pair, Secret
<1> QED BY <1>1 DEF Call, Steps, Results

LEMMA InitInv == Init => Inv
<1> SUFFICES ASSUME Init PROVE Inv
    OBVIOUS
<1>1. Blank \in Pair /\ \A l \in Logins : Whole(l) \in Pair
    BY DEF Blank, Whole, Pair, Secret
<1>2. NoCall \in Call
    BY <1>1 DEF NoCall, Call, Ops, Steps, Results
<1>3. vault \in [Keys -> Pair]
    BY <1>1 DEF Init
<1>4. TypeOK
    <2>1. ack \in [Profiles -> Secret]
        BY DEF Init, Secret
    <2>2. /\ profile_id = NoProfile /\ cookie = NoCookie /\ armed = FALSE
          /\ callbacks = {} /\ call = NoCall /\ faults = 0
        BY DEF Init
    <2>3. faults \in 0 .. MaxFaults
        BY <2>2, FaultsAssumption
    <2>4. callbacks \in SUBSET {"current", "stale"}
        BY <2>2
    <2>5. profile_id \in Profiles \cup {NoProfile} /\ cookie \in Cookie \cup {NoCookie} /\ armed \in BOOLEAN
        BY <2>2
    <2>6. call \in Call
        BY <1>2, <2>2
    <2> QED BY <1>3, <2>1, <2>3, <2>4, <2>5, <2>6 DEF TypeOK
<1>5. CallWellFormed
    BY DEF Init, NoCall, CallWellFormed, At, MigrateSteps, SaveSteps
<1> QED BY <1>4, <1>5 DEF Inv

(* Calls begin and end without touching anything else.                     *)
LEMMA BeginInv ==
    ASSUME Inv, BeginCall \/ EndCall
    PROVE  Inv'
<1>1. Blank \in Pair /\ \A l \in Secret : Whole(l) \in Pair
    BY DEF Blank, Whole, Pair, Secret
<1>2. CASE EndCall
    <2>1. NoCall \in Call
        BY <1>1 DEF NoCall, Call, Ops, Steps, Results
    <2>2. TypeOK'
        BY <1>2, <2>1, FaultsAssumption DEF Inv, TypeOK, EndCall, cookieVars
    <2>3. CallWellFormed'
        BY <1>2 DEF EndCall, NoCall, CallWellFormed, At, MigrateSteps, SaveSteps
    <2> QED BY <2>2, <2>3 DEF Inv
<1>3. CASE BeginCall
    <2>1. PICK op \in Ops, p \in Profiles \cup {NoProfile}, l \in Secret :
            /\ Begin(op, p, l)
            /\ op # "none"
            /\ op \in {"set_profile", "remove_profile_credentials"} => p \in Profiles
            /\ op = "configure" => p = profile_id /\ l \in Logins
        <3>1. CASE \E p \in Profiles : Begin("set_profile", p, NoSecret)
            BY <3>1 DEF Ops, Secret
        <3>2. CASE \E p \in Profiles : Begin("remove_profile_credentials", p, NoSecret)
            BY <3>2 DEF Ops, Secret
        <3>3. CASE \E l \in Logins : Begin("configure", profile_id, l)
            BY <3>3 DEF Ops, Secret, Inv, TypeOK
        <3>4. CASE Begin("clear_profile", NoProfile, NoSecret)
            BY <3>4 DEF Ops, Secret
        <3>5. CASE \E op \in {"sign_out", "test_connection", "authenticated_cookie",
                               "invalidate_authenticated_cookie"} :
                      Begin(op, profile_id, NoSecret)
            BY <3>5 DEF Ops, Secret, Inv, TypeOK
        <3> QED BY <1>3, <3>1, <3>2, <3>3, <3>4, <3>5 DEF BeginCall
    <2>2. call' = [op |-> op, step |-> "start", profile |-> p,
                   given |-> Whole(l), old |-> Blank, result |-> "none"]
        BY <2>1 DEF Begin
    <2>3. call' \in Call
        BY <1>1, <2>1, <2>2 DEF Call, Steps, Results
    <2>4. TypeOK'
        BY <1>3, <2>1, <2>3, FaultsAssumption DEF Inv, TypeOK, BeginCall, Begin, cookieVars
    <2>5. CallWellFormed'
        BY <1>3, <2>1, <2>2 DEF CallWellFormed, BeginCall, At, MigrateSteps, SaveSteps
    <2> QED BY <2>4, <2>5 DEF Inv
<1> QED BY <1>2, <1>3
-----------------------------------------------------------------------------
(* The clocks of the cookie, and the death of the broker.                  *)
LEMMA TimerInv ==
    ASSUME Inv, Timer
    PROVE  Inv'
<1>1. CASE TimerElapses
    BY <1>1 DEF TimerElapses, Inv, TypeOK, CallWellFormed, At
<1>2. CASE ExpireCachedCookie
    BY <1>2 DEF ExpireCachedCookie, Inv, TypeOK, CallWellFormed, At
<1> QED BY <1>1, <1>2 DEF Timer

LEMMA CrashInv ==
    ASSUME Inv, Crash
    PROVE  Inv'
<1>1. NoCall \in Call
    <2>1. Blank \in Pair
        BY DEF Blank, Whole, Pair, Secret
    <2> QED BY <2>1 DEF NoCall, Call, Ops, Steps, Results
<1>2. ack' \in [Profiles -> Secret]
    BY DEF Crash, Inv, TypeOK, Secret
<1>3. TypeOK'
    <2>1. callbacks' \in SUBSET {"current", "stale"}
        BY DEF Crash
    <2>2. faults' \in 0 .. MaxFaults
        BY FaultsAssumption DEF Crash
    <2>3. /\ profile_id' \in Profiles \cup {NoProfile} /\ cookie' \in Cookie \cup {NoCookie}
          /\ armed' \in BOOLEAN /\ call' \in Call /\ vault' \in [Keys -> Pair]
        BY <1>1 DEF Crash, Inv, TypeOK
    <2> QED BY <1>2, <2>1, <2>2, <2>3 DEF TypeOK
<1>4. CallWellFormed'
    BY DEF Crash, NoCall, CallWellFormed, At, MigrateSteps, SaveSteps
<1> QED BY <1>3, <1>4 DEF Inv

(* Every part of the cookie's state stays typed.                           *)
LEMMA CookieTypes ==
    ASSUME callbacks \in SUBSET {"current", "stale"}
    PROVE  /\ ClearCookie => /\ cookie' = NoCookie /\ armed' \in BOOLEAN
                             /\ callbacks' \in SUBSET {"current", "stale"}
           /\ \A c : StoreCookie(c) => /\ cookie' = c /\ armed' \in BOOLEAN
                                       /\ callbacks' \in SUBSET {"current", "stale"}
BY DEF ClearCookie, StoreCookie, NewGeneration

(* set_profile, with the migration it ends with, and clear_profile.        *)
LEMMA SelectInv ==
    ASSUME Inv,
           \/ SetProfile \/ MigrateLegacyCredentials \/ MigrateUsername
           \/ MigratePassword \/ MigrateCheck \/ MigrateUndo \/ MigrateClear
           \/ ClearProfile
    PROVE  Inv'
<1> USE DEF At, Goto, Return
<1>0. /\ TypeOK /\ CallWellFormed
      /\ call \in Call /\ call.given \in Pair /\ \A f \in Fields : call.given[f] \in Secret
      /\ callbacks \in SUBSET {"current", "stale"}
    BY DEF Inv, TypeOK, Call, Pair
<1>1. CASE SetProfile
    <2>1. call' \in Call
        BY <1>0, <1>1, CallTypes DEF SetProfile, Steps
    <2>2. profile_id' \in Profiles
        BY <1>0, <1>1 DEF SetProfile, CallWellFormed
    <2>3. cookie' \in Cookie \cup {NoCookie} /\ armed' \in BOOLEAN
          /\ callbacks' \in SUBSET {"current", "stale"}
        <3>1. CASE ClearCookie
            BY <1>0, <3>1, CookieTypes
        <3>2. CASE UNCHANGED cookieVars
            BY <1>0, <3>2 DEF TypeOK, cookieVars
        <3> QED BY <1>1, <3>1, <3>2 DEF SetProfile
    <2>4. TypeOK'
        <3>1. UNCHANGED <<vault, faults, ack>>
            BY <1>1 DEF SetProfile
        <3> QED BY <1>0, <2>1, <2>2, <2>3, <3>1 DEF TypeOK
    <2>5. CallWellFormed'
        BY <1>0, <1>1 DEF SetProfile, CallWellFormed, MigrateSteps, SaveSteps, Call
    <2> QED BY <2>4, <2>5 DEF Inv
<1>2. CASE MigrateLegacyCredentials
    <2>1. PICK found \in Pair, s \in {"migrate_clear", "migrate_username", "done"}, r \in {"ok", "error"} :
            \/ call' = [call EXCEPT !.step = s]
            \/ call' = [call EXCEPT !.step = s, !.given = found]
            \/ call' = [call EXCEPT !.step = "done", !.result = r,
                                    !.given = Blank, !.old = Blank]
        BY <1>2, SeenTypes DEF MigrateLegacyCredentials
    <2>2. Blank \in Pair
        BY DEF Blank, Whole, Pair, Secret
    <2>3. call' \in Call
        BY <1>0, <2>1, <2>2 DEF Call, Steps, Results
    <2>4. faults' \in 0 .. MaxFaults
        <3>1. PICK failed \in BOOLEAN : Spend(failed)
            BY <1>2 DEF MigrateLegacyCredentials
        <3> QED BY <1>0, <3>1, SpendTypes DEF TypeOK
    <2>5. TypeOK'
        BY <1>0, <1>2, <2>3, <2>4 DEF MigrateLegacyCredentials, TypeOK, cookieVars
    <2>6. CallWellFormed'
        <3>1. /\ call.op = "set_profile" /\ call.profile = profile_id /\ profile_id \in Profiles
              /\ profile_id' = profile_id
            BY <1>0, <1>2 DEF MigrateLegacyCredentials, CallWellFormed, MigrateSteps, At, cookieVars
        <3>2. call'.op = call.op /\ call'.profile = call.profile
              /\ call'.step \in {"migrate_clear", "migrate_username", "done"}
            BY <1>0, <2>1 DEF Call
        <3> QED BY <3>1, <3>2 DEF CallWellFormed, MigrateSteps, SaveSteps
    <2> QED BY <2>5, <2>6 DEF Inv
<1>3. CASE MigrateUsername
    <2>1. PICK failed \in BOOLEAN :
            StoreSecret(Rock(profile_id), "username", call.given["username"], failed)
        BY <1>3 DEF MigrateUsername
    <2>2. vault' \in [Keys -> Pair] /\ faults' \in 0 .. MaxFaults
        BY <1>0, <2>1, StoreTypes DEF TypeOK, Fields
    <2>3. call' \in Call
        BY <1>0, <1>3, CallTypes DEF MigrateUsername, Steps
    <2>4. TypeOK'
        BY <1>0, <1>3, <2>2, <2>3 DEF MigrateUsername, TypeOK, cookieVars
    <2>5. CallWellFormed'
        BY <1>0, <1>3 DEF MigrateUsername, CallWellFormed, MigrateSteps, SaveSteps, Call
    <2> QED BY <2>4, <2>5 DEF Inv
<1>4. CASE MigratePassword
    <2>1. PICK failed \in BOOLEAN :
            StoreSecret(Rock(profile_id), "password", call.given["password"], failed)
        BY <1>4 DEF MigratePassword
    <2>2. vault' \in [Keys -> Pair] /\ faults' \in 0 .. MaxFaults
        BY <1>0, <2>1, StoreTypes DEF TypeOK, Fields
    <2>3. call' \in Call
        BY <1>0, <1>4, CallTypes DEF MigratePassword, Steps
    <2>4. TypeOK'
        BY <1>0, <1>4, <2>2, <2>3 DEF MigratePassword, TypeOK, cookieVars
    <2>5. CallWellFormed'
        BY <1>0, <1>4 DEF MigratePassword, CallWellFormed, MigrateSteps, SaveSteps, Call
    <2> QED BY <2>4, <2>5 DEF Inv
<1>5. CASE MigrateCheck
    <2>1. faults' \in 0 .. MaxFaults
        <3>1. PICK rock \in Pair : Spend(rock # vault[Rock(profile_id)])
            BY <1>5, SeenTypes DEF MigrateCheck
        <3> QED BY <1>0, <3>1, SpendTypes DEF TypeOK
    <2>2. call' \in Call
        BY <1>0, <1>5, CallTypes DEF MigrateCheck, Steps
    <2>3. TypeOK'
        BY <1>0, <1>5, <2>1, <2>2 DEF MigrateCheck, TypeOK, cookieVars
    <2>4. CallWellFormed'
        BY <1>0, <1>5 DEF MigrateCheck, CallWellFormed, MigrateSteps, SaveSteps, Call
    <2> QED BY <2>3, <2>4 DEF Inv
<1>6. CASE MigrateUndo
    <2>1. PICK failed \in BOOLEAN : ClearSecrets({Rock(profile_id)}, failed)
        BY <1>6 DEF MigrateUndo
    <2>2. vault' \in [Keys -> Pair] /\ faults' \in 0 .. MaxFaults
        BY <1>0, <2>1, ClearTypes DEF TypeOK
    <2>3. call' \in Call
        BY <1>0, <1>6, CallTypes DEF MigrateUndo, Results
    <2>4. TypeOK'
        BY <1>0, <1>6, <2>2, <2>3 DEF MigrateUndo, TypeOK, cookieVars
    <2>5. CallWellFormed'
        BY <1>0, <1>6 DEF MigrateUndo, CallWellFormed, MigrateSteps, SaveSteps, Call
    <2> QED BY <2>4, <2>5 DEF Inv
<1>7. CASE MigrateClear
    <2>1. PICK failed \in BOOLEAN : ClearSecrets(LegacyKeys(profile_id), failed)
        BY <1>7 DEF MigrateClear
    <2>2. vault' \in [Keys -> Pair] /\ faults' \in 0 .. MaxFaults
        BY <1>0, <2>1, ClearTypes DEF TypeOK
    <2>3. call' \in Call
        BY <1>0, <1>7, CallTypes DEF MigrateClear, Results
    <2>4. TypeOK'
        BY <1>0, <1>7, <2>2, <2>3 DEF MigrateClear, TypeOK, cookieVars
    <2>5. CallWellFormed'
        BY <1>0, <1>7 DEF MigrateClear, CallWellFormed, MigrateSteps, SaveSteps, Call
    <2> QED BY <2>4, <2>5 DEF Inv
<1>8. CASE ClearProfile
    <2>1. call' \in Call
        BY <1>0, <1>8, CallTypes DEF ClearProfile, Results
    <2>2. TypeOK'
        BY <1>0, <1>8, <2>1, CookieTypes DEF ClearProfile, TypeOK
    <2>3. CallWellFormed'
        BY <1>0, <1>8 DEF ClearProfile, CallWellFormed, MigrateSteps, SaveSteps, Call
    <2> QED BY <2>2, <2>3 DEF Inv
<1> QED BY <1>1, <1>2, <1>3, <1>4, <1>5, <1>6, <1>7, <1>8

(* configure, from the server's answer to the stored or restored login.    *)
LEMMA ConfigureInv ==
    ASSUME Inv,
           \/ ConfigureLogin \/ SaveUsername \/ SavePassword
           \/ ConfigureClearLegacy \/ RestoreUsername \/ RestorePassword
    PROVE  Inv'
<1> USE DEF At, Goto, Return
<1>0. /\ TypeOK /\ CallWellFormed
      /\ call \in Call /\ call.given \in Pair /\ call.old \in Pair
      /\ \A f \in Fields : call.given[f] \in Secret /\ call.old[f] \in Secret
      /\ callbacks \in SUBSET {"current", "stale"}
    BY DEF Inv, TypeOK, Call, Pair
<1>1. CASE ConfigureLogin
    <2>1. CASE Return("error") /\ UNCHANGED faults
        <3>1. call' \in Call
            BY <1>0, <2>1, CallTypes DEF Results
        <3>2. TypeOK'
            BY <1>0, <1>1, <2>1, <3>1 DEF ConfigureLogin, TypeOK, cookieVars
        <3>3. CallWellFormed'
            BY <1>0, <1>1, <2>1 DEF ConfigureLogin, CallWellFormed, MigrateSteps, SaveSteps, Call
        <3> QED BY <3>2, <3>3 DEF Inv
    <2>2. CASE profile_id # NoProfile /\ \E old \in Seen(Rock(profile_id)) :
                /\ Spend(old # vault[Rock(profile_id)])
                /\ call' = [call EXCEPT !.step = "save_username", !.old = old]
        <3>1. PICK old \in Pair :
                /\ Spend(old # vault[Rock(profile_id)])
                /\ call' = [call EXCEPT !.step = "save_username", !.old = old]
            BY <2>2, SeenTypes
        <3>2. call' \in Call
            BY <1>0, <3>1 DEF Call, Steps
        <3>3. faults' \in 0 .. MaxFaults
            BY <1>0, <3>1, SpendTypes DEF TypeOK
        <3>4. TypeOK'
            BY <1>0, <1>1, <3>2, <3>3 DEF ConfigureLogin, TypeOK, cookieVars
        <3>5. profile_id \in Profiles
            BY <1>0, <2>2 DEF TypeOK
        <3>6. CallWellFormed'
            BY <1>0, <1>1, <3>1, <3>5 DEF ConfigureLogin, CallWellFormed, MigrateSteps, SaveSteps, Call
        <3> QED BY <3>4, <3>6 DEF Inv
    <2> QED BY <1>1, <2>1, <2>2 DEF ConfigureLogin
<1>2. CASE SaveUsername
    <2>1. PICK failed \in BOOLEAN :
            StoreSecret(Rock(profile_id), "username", call.given["username"], failed)
        BY <1>2 DEF SaveUsername
    <2>2. vault' \in [Keys -> Pair] /\ faults' \in 0 .. MaxFaults
        BY <1>0, <2>1, StoreTypes DEF TypeOK, Fields
    <2>3. call' \in Call
        BY <1>0, <1>2, CallTypes DEF SaveUsername, Steps
    <2>4. TypeOK'
        BY <1>0, <1>2, <2>2, <2>3 DEF SaveUsername, TypeOK, cookieVars
    <2>5. CallWellFormed'
        BY <1>0, <1>2 DEF SaveUsername, CallWellFormed, MigrateSteps, SaveSteps, Call
    <2> QED BY <2>4, <2>5 DEF Inv
<1>3. CASE SavePassword
    <2>1. PICK failed \in BOOLEAN :
            StoreSecret(Rock(profile_id), "password", call.given["password"], failed)
        BY <1>3 DEF SavePassword
    <2>2. vault' \in [Keys -> Pair] /\ faults' \in 0 .. MaxFaults
        BY <1>0, <2>1, StoreTypes DEF TypeOK, Fields
    <2>3. call' \in Call
        BY <1>0, <1>3, CallTypes DEF SavePassword, Steps
    <2>4. TypeOK'
        BY <1>0, <1>3, <2>2, <2>3 DEF SavePassword, TypeOK, cookieVars
    <2>5. CallWellFormed'
        BY <1>0, <1>3 DEF SavePassword, CallWellFormed, MigrateSteps, SaveSteps, Call
    <2> QED BY <2>4, <2>5 DEF Inv
<1>4. CASE RestoreUsername
    <2>1. PICK failed \in BOOLEAN :
            StoreSecret(Rock(profile_id), "username", call.old["username"], failed)
        BY <1>4 DEF RestoreUsername
    <2>2. vault' \in [Keys -> Pair] /\ faults' \in 0 .. MaxFaults
        BY <1>0, <2>1, StoreTypes DEF TypeOK, Fields
    <2>3. call' \in Call
        BY <1>0, <1>4, CallTypes DEF RestoreUsername, Steps
    <2>4. TypeOK'
        BY <1>0, <1>4, <2>2, <2>3 DEF RestoreUsername, TypeOK, cookieVars
    <2>5. CallWellFormed'
        BY <1>0, <1>4 DEF RestoreUsername, CallWellFormed, MigrateSteps, SaveSteps, Call
    <2> QED BY <2>4, <2>5 DEF Inv
<1>5. CASE RestorePassword
    <2>1. PICK failed \in BOOLEAN :
            StoreSecret(Rock(profile_id), "password", call.old["password"], failed)
        BY <1>5 DEF RestorePassword
    <2>2. vault' \in [Keys -> Pair] /\ faults' \in 0 .. MaxFaults
        BY <1>0, <2>1, StoreTypes DEF TypeOK, Fields
    <2>3. call' \in Call
        BY <1>0, <1>5, CallTypes DEF RestorePassword, Results
    <2>4. TypeOK'
        BY <1>0, <1>5, <2>2, <2>3, CookieTypes DEF RestorePassword, TypeOK
    <2>5. CallWellFormed'
        BY <1>0, <1>5 DEF RestorePassword, CallWellFormed, MigrateSteps, SaveSteps, Call
    <2> QED BY <2>4, <2>5 DEF Inv
<1>6. CASE ConfigureClearLegacy
    <2>1. PICK failed \in BOOLEAN :
            /\ ClearSecrets(LegacyKeys(profile_id), failed)
            /\ IF failed
                 THEN Goto("restore_username") /\ UNCHANGED <<cookieVars, ack>>
                 ELSE /\ StoreCookie([profile |-> profile_id,
                                      login |-> call.given["username"]])
                      /\ ack' = [ack EXCEPT ![profile_id] = call.given["username"]]
                      /\ Return("ok")
        BY <1>6 DEF ConfigureClearLegacy
    <2>2. vault' \in [Keys -> Pair] /\ faults' \in 0 .. MaxFaults
        BY <1>0, <2>1, ClearTypes DEF TypeOK
    <2>3. call' \in Call
        BY <1>0, <2>1, CallTypes DEF Steps, Results
    <2>4. profile_id \in Profiles /\ call.given["username"] \in Logins
        BY <1>0, <1>6 DEF ConfigureClearLegacy, CallWellFormed, Whole, Fields
    <2>5. /\ cookie' \in Cookie \cup {NoCookie} /\ armed' \in BOOLEAN
          /\ callbacks' \in SUBSET {"current", "stale"}
          /\ ack' \in [Profiles -> Secret]
        <3>1. CASE failed
            BY <1>0, <2>1, <3>1 DEF TypeOK, cookieVars
        <3>2. CASE ~failed
            <4>1. [profile |-> profile_id, login |-> call.given["username"]] \in Cookie
                BY <2>4 DEF Cookie
            <4>2. StoreCookie([profile |-> profile_id, login |-> call.given["username"]])
                BY <2>1, <3>2
            <4>3. ack' \in [Profiles -> Secret]
                BY <1>0, <2>1, <2>4, <3>2 DEF TypeOK, Secret
            <4> QED BY <1>0, <4>1, <4>2, <4>3, CookieTypes
        <3> QED BY <3>1, <3>2
    <2>6. TypeOK'
        BY <1>0, <1>6, <2>2, <2>3, <2>5 DEF ConfigureClearLegacy, TypeOK
    <2>7. CallWellFormed'
        BY <1>0, <1>6, <2>1, <2>4 DEF ConfigureClearLegacy, CallWellFormed, MigrateSteps, SaveSteps, Call
    <2> QED BY <2>6, <2>7 DEF Inv
<1> QED BY <1>1, <1>2, <1>3, <1>4, <1>5, <1>6

(* sign_out and remove_profile_credentials.                                *)
LEMMA RemoveInv ==
    ASSUME Inv, SignOutCurrent \/ SignOutLegacy \/ RemoveProfileCredentials
    PROVE  Inv'
<1> USE DEF At, Goto, Return
<1>0. /\ TypeOK /\ CallWellFormed /\ call \in Call
      /\ callbacks \in SUBSET {"current", "stale"}
    BY DEF Inv, TypeOK
<1>1. CASE SignOutCurrent
    <2>1. CASE profile_id = NoProfile
        <3>1. call' \in Call
            BY <1>0, <1>1, <2>1, CallTypes DEF SignOutCurrent, Steps
        <3>2. TypeOK'
            BY <1>0, <1>1, <2>1, <3>1 DEF SignOutCurrent, TypeOK, cookieVars
        <3>3. CallWellFormed'
            BY <1>0, <1>1, <2>1 DEF SignOutCurrent, CallWellFormed, MigrateSteps, SaveSteps, Call
        <3> QED BY <3>2, <3>3 DEF Inv
    <2>2. CASE profile_id # NoProfile
        <3>1. PICK failed \in BOOLEAN :
                /\ ClearSecrets({Rock(profile_id)}, failed)
                /\ call' = [call EXCEPT !.step = "clear_legacy",
                              !.result = IF failed THEN "error" ELSE "none"]
            BY <1>1, <2>2 DEF SignOutCurrent
        <3>2. vault' \in [Keys -> Pair] /\ faults' \in 0 .. MaxFaults
            BY <1>0, <3>1, ClearTypes DEF TypeOK
        <3>3. call' \in Call
            BY <1>0, <3>1 DEF Call, Steps, Results
        <3>4. ack' \in [Profiles -> Secret]
            BY <1>0, <1>1, <2>2 DEF SignOutCurrent, TypeOK, Secret
        <3>5. TypeOK'
            BY <1>0, <1>1, <3>2, <3>3, <3>4 DEF SignOutCurrent, TypeOK, cookieVars
        <3>6. CallWellFormed'
            BY <1>0, <1>1, <3>1 DEF SignOutCurrent, CallWellFormed, MigrateSteps, SaveSteps, Call
        <3> QED BY <3>5, <3>6 DEF Inv
    <2> QED BY <2>1, <2>2
<1>2. CASE SignOutLegacy
    <2>1. vault' \in [Keys -> Pair] /\ faults' \in 0 .. MaxFaults /\ call' \in Call
        <3>1. CASE profile_id = NoProfile
            BY <1>0, <1>2, <3>1, CallTypes DEF SignOutLegacy, TypeOK, Results
        <3>2. CASE profile_id # NoProfile
            <4>1. PICK failed \in BOOLEAN :
                    /\ ClearSecrets(LegacyKeys(profile_id), failed)
                    /\ Return(IF failed \/ call.result = "error" THEN "error" ELSE "ok")
                BY <1>2, <3>2 DEF SignOutLegacy
            <4> QED BY <1>0, <4>1, ClearTypes, CallTypes DEF TypeOK, Results
        <3> QED BY <3>1, <3>2
    <2>2. TypeOK'
        BY <1>0, <1>2, <2>1, CookieTypes DEF SignOutLegacy, TypeOK
    <2>3. CallWellFormed'
        BY <1>0, <1>2 DEF SignOutLegacy, CallWellFormed, MigrateSteps, SaveSteps, Call
    <2> QED BY <2>2, <2>3 DEF Inv
<1>3. CASE RemoveProfileCredentials
    <2>1. PICK failed \in BOOLEAN :
            /\ ClearSecrets({Rock(call.profile), Magnus(call.profile)}, failed)
            /\ Return(IF failed THEN "error" ELSE "ok")
        BY <1>3 DEF RemoveProfileCredentials
    <2>2. vault' \in [Keys -> Pair] /\ faults' \in 0 .. MaxFaults
        BY <1>0, <2>1, ClearTypes DEF TypeOK
    <2>3. call' \in Call
        BY <1>0, <2>1, CallTypes DEF Results
    <2>4. /\ cookie' \in Cookie \cup {NoCookie} /\ armed' \in BOOLEAN
          /\ callbacks' \in SUBSET {"current", "stale"}
        <3>1. CASE ClearCookie
            BY <1>0, <3>1, CookieTypes
        <3>2. CASE UNCHANGED cookieVars
            BY <1>0, <3>2 DEF TypeOK, cookieVars
        <3> QED BY <1>3, <3>1, <3>2 DEF RemoveProfileCredentials
    <2>5. ack' \in [Profiles -> Secret] /\ UNCHANGED profile_id
        BY <1>0, <1>3 DEF RemoveProfileCredentials, TypeOK, Secret
    <2>6. TypeOK'
        BY <1>0, <2>2, <2>3, <2>4, <2>5 DEF TypeOK
    <2>7. CallWellFormed'
        BY <1>0, <1>3, <2>1 DEF RemoveProfileCredentials, CallWellFormed, MigrateSteps, SaveSteps, Call
    <2> QED BY <2>6, <2>7 DEF Inv
<1> QED BY <1>1, <1>2, <1>3

(* Login leaves a cookie of the selected profile or none.                  *)
LEMMA LoginEffect ==
    ASSUME TypeOK, Login
    PROVE  /\ faults' \in 0 .. MaxFaults
           /\ \/ ClearCookie /\ Return("error")
              \/ \E l \in Logins :
                    /\ profile_id \in Profiles
                    /\ StoreCookie([profile |-> profile_id, login |-> l])
                    /\ Yield(l)
<1>1. CASE profile_id = NoProfile
    BY <1>1 DEF Login, TypeOK
<1>2. CASE profile_id # NoProfile
    <2>1. PICK rock \in Pair, accepted \in BOOLEAN :
            /\ Spend(rock # vault[Rock(profile_id)])
            /\ \/ /\ accepted
                  /\ \E l \in Logins :
                        /\ rock = Whole(l)
                        /\ StoreCookie([profile |-> profile_id, login |-> l])
                        /\ Yield(l)
               \/ ClearCookie /\ Return("error")
        BY <1>2, SeenTypes DEF Login, LogIn
    <2>2. faults' \in 0 .. MaxFaults
        BY <2>1, SpendTypes DEF TypeOK
    <2> QED BY <1>2, <2>1, <2>2 DEF TypeOK
<1> QED BY <1>1, <1>2

(* The methods that hand out, renew or drop the cookie.                    *)
LEMMA CookieInv ==
    ASSUME Inv, AuthenticatedCookie \/ TestConnection \/ InvalidateAuthenticatedCookie
    PROVE  Inv'
<1> USE DEF At
<1>0. /\ TypeOK /\ CallWellFormed /\ call \in Call
      /\ callbacks \in SUBSET {"current", "stale"}
      /\ call.step = "start"
      /\ call.op \in {"authenticated_cookie", "test_connection",
                      "invalidate_authenticated_cookie"}
    BY DEF Inv, TypeOK, AuthenticatedCookie, TestConnection, InvalidateAuthenticatedCookie
<1>1. UNCHANGED <<vault, profile_id, ack>>
    BY DEF AuthenticatedCookie, TestConnection, InvalidateAuthenticatedCookie
<1>2. CASE Login
    <2>1. call' \in Call
        BY <1>0, <1>2, LoginEffect, CallTypes DEF Return, Yield, Results
    <2>2. cookie' \in Cookie \cup {NoCookie} /\ armed' \in BOOLEAN
          /\ callbacks' \in SUBSET {"current", "stale"}
        <3>1. CASE ClearCookie
            BY <1>0, <3>1, CookieTypes
        <3>2. ASSUME NEW l \in Logins, profile_id \in Profiles,
                     StoreCookie([profile |-> profile_id, login |-> l])
              PROVE  cookie' \in Cookie \cup {NoCookie} /\ armed' \in BOOLEAN
                     /\ callbacks' \in SUBSET {"current", "stale"}
            <4>1. [profile |-> profile_id, login |-> l] \in Cookie
                BY <3>2 DEF Cookie
            <4> QED BY <1>0, <3>2, <4>1, CookieTypes
        <3> QED BY <1>0, <1>2, <3>1, <3>2, LoginEffect
    <2>3. TypeOK'
        BY <1>0, <1>1, <1>2, <2>1, <2>2, LoginEffect DEF TypeOK
    <2>4. CallWellFormed'
        BY <1>0, <1>1, <1>2, LoginEffect DEF CallWellFormed, Return, Yield, MigrateSteps, SaveSteps, Call
    <2> QED BY <2>3, <2>4 DEF Inv
<1>3. CASE cookie # NoCookie /\ StoreCookie(cookie) /\ Yield(cookie.login) /\ UNCHANGED faults
    <2>1. cookie.login \in Logins
        BY <1>0, <1>3 DEF TypeOK, Cookie
    <2>2. call' \in Call
        BY <1>0, <1>3, <2>1, CallTypes DEF Yield
    <2>3. TypeOK'
        BY <1>0, <1>1, <1>3, <2>2, CookieTypes DEF TypeOK
    <2>4. CallWellFormed'
        BY <1>0, <1>1, <1>3 DEF CallWellFormed, Yield, MigrateSteps, SaveSteps, Call
    <2> QED BY <2>3, <2>4 DEF Inv
<1>4. CASE ClearCookie /\ Return("ok") /\ UNCHANGED faults
    <2>1. call' \in Call
        BY <1>0, <1>4, CallTypes DEF Return, Results
    <2>2. TypeOK'
        BY <1>0, <1>1, <1>4, <2>1, CookieTypes DEF TypeOK
    <2>3. CallWellFormed'
        BY <1>0, <1>1, <1>4 DEF CallWellFormed, Return, MigrateSteps, SaveSteps, Call
    <2> QED BY <2>2, <2>3 DEF Inv
<1> QED BY <1>2, <1>3, <1>4 DEF AuthenticatedCookie, TestConnection, InvalidateAuthenticatedCookie

LEMMA NextInv == Inv /\ [Next]_vars => Inv'
<1> SUFFICES ASSUME Inv, [Next]_vars PROVE Inv'
    OBVIOUS
<1>1. CASE UNCHANGED vars
    BY <1>1 DEF vars, Inv, TypeOK, CallWellFormed, At
<1>2. CASE Method
    BY <1>2, SelectInv, ConfigureInv, RemoveInv, CookieInv DEF Method
<1> QED BY <1>1, <1>2, BeginInv, TimerInv, CrashInv DEF Next

(* The session's state is well typed and a method is only ever at one of   *)
(* its own steps: the migration and the store never run for no profile.    *)
THEOREM Typed == Spec => []Inv
BY InitInv, NextInv, PTL DEF Spec

(* Every variable keeps its type.                                          *)
THEOREM TypeCorrect == Spec => []TypeOK
<1>1. Inv => TypeOK
    BY DEF Inv
<1> QED BY <1>1, Typed, PTL
-----------------------------------------------------------------------------
(* The cached cookie.  While a timer of the present cookie runs, no        *)
(* callback of the present generation waits: the two clauses of            *)
(* CookieHasTimer exclude each other.                                      *)
OneTimer == armed => "current" \notin callbacks

CookieSafe == CookieOfSelectedProfile /\ CookieHasTimer /\ OneTimer

LEMMA CookieEffects ==
    /\ ClearCookie => cookie' = NoCookie /\ ~armed'
    /\ \A c : StoreCookie(c) => cookie' = c /\ armed' /\ "current" \notin callbacks'
BY DEF ClearCookie, StoreCookie, NewGeneration

(* A step either leaves the cookie and the selection alone, clears the     *)
(* cookie, or stores one of the selected profile.                          *)
LEMMA CookieKept ==
    ASSUME CookieSafe, UNCHANGED <<cookieVars, profile_id>>
    PROVE  CookieSafe'
BY DEF CookieSafe, CookieOfSelectedProfile, CookieHasTimer, OneTimer, cookieVars

LEMMA CookieGone ==
    ASSUME ClearCookie
    PROVE  CookieSafe'
BY CookieEffects DEF CookieSafe, CookieOfSelectedProfile, CookieHasTimer, OneTimer

LEMMA CookieIssued ==
    ASSUME NEW c, StoreCookie(c), c.profile = profile_id, UNCHANGED profile_id
    PROVE  CookieSafe'
BY CookieEffects DEF CookieSafe, CookieOfSelectedProfile, CookieHasTimer, OneTimer

LEMMA CookieStep == Inv /\ CookieSafe /\ [Next]_vars => CookieSafe'
<1> SUFFICES ASSUME Inv, CookieSafe, [Next]_vars PROVE CookieSafe'
    OBVIOUS
<1>1. CASE UNCHANGED vars
    BY <1>1, CookieKept DEF vars, cookieVars
<1>2. CASE BeginCall \/ EndCall
    BY <1>2, CookieKept DEF BeginCall, EndCall
<1>3. CASE SetProfile
    <2>1. CASE call.profile # profile_id
        BY <1>3, <2>1, CookieGone DEF SetProfile
    <2>2. CASE call.profile = profile_id
        BY <1>3, <2>2, CookieKept DEF SetProfile
    <2> QED BY <2>1, <2>2
<1>4. CASE \/ MigrateLegacyCredentials \/ MigrateUsername \/ MigratePassword
           \/ MigrateCheck \/ MigrateUndo \/ MigrateClear
           \/ ConfigureLogin \/ SaveUsername \/ SavePassword \/ RestoreUsername
           \/ SignOutCurrent
    BY <1>4, CookieKept DEF MigrateLegacyCredentials, MigrateUsername, MigratePassword,
        MigrateCheck, MigrateUndo, MigrateClear, ConfigureLogin, SaveUsername,
        SavePassword, RestoreUsername, SignOutCurrent
<1>5. CASE \/ ClearProfile \/ RestorePassword \/ SignOutLegacy
           \/ InvalidateAuthenticatedCookie
    BY <1>5, CookieGone DEF ClearProfile, RestorePassword, SignOutLegacy,
        InvalidateAuthenticatedCookie
<1>6. CASE ConfigureClearLegacy
    <2>1. \/ UNCHANGED <<cookieVars, profile_id>>
          \/ /\ StoreCookie([profile |-> profile_id, login |-> call.given["username"]])
             /\ UNCHANGED profile_id
        BY <1>6 DEF ConfigureClearLegacy
    <2> QED BY <2>1, CookieKept, CookieIssued
<1>7. CASE RemoveProfileCredentials
    <2>1. ClearCookie \/ UNCHANGED <<cookieVars, profile_id>>
        BY <1>7 DEF RemoveProfileCredentials
    <2> QED BY <2>1, CookieGone, CookieKept
<1>8. CASE AuthenticatedCookie \/ TestConnection
    <2>1. UNCHANGED profile_id
        BY <1>8 DEF AuthenticatedCookie, TestConnection
    <2>2. CASE cookie # NoCookie /\ StoreCookie(cookie)
        BY <2>1, <2>2, CookieIssued DEF CookieSafe, CookieOfSelectedProfile
    <2>3. CASE Login
        <3>1. \/ ClearCookie
              \/ \E l \in Logins : StoreCookie([profile |-> profile_id, login |-> l])
            BY <2>3, LoginEffect DEF Inv
        <3> QED BY <2>1, <3>1, CookieGone, CookieIssued
    <2> QED BY <1>8, <2>2, <2>3 DEF AuthenticatedCookie, TestConnection
<1>9. CASE TimerElapses
    BY <1>9 DEF TimerElapses, CookieSafe, CookieOfSelectedProfile, CookieHasTimer, OneTimer
<1>10. CASE ExpireCachedCookie
    BY <1>10 DEF ExpireCachedCookie, CookieSafe, CookieOfSelectedProfile, CookieHasTimer, OneTimer
<1>11. CASE Crash
    BY <1>11 DEF Crash, CookieSafe, CookieOfSelectedProfile, CookieHasTimer, OneTimer
<1> QED BY <1>1, <1>2, <1>3, <1>4, <1>5, <1>6, <1>7, <1>8, <1>9, <1>10, <1>11
    DEF Next, Method, Timer

LEMMA AlwaysCookieSafe == Spec => []CookieSafe
<1>1. Init => CookieSafe
    BY DEF Init, CookieSafe, CookieOfSelectedProfile, CookieHasTimer, OneTimer
<1> QED BY <1>1, CookieStep, Typed, PTL DEF Spec

(* The cookie a request will carry was issued to the selected profile.     *)
THEOREM CookieSelected == Spec => []CookieOfSelectedProfile
<1>1. CookieSafe => CookieOfSelectedProfile
    BY DEF CookieSafe
<1> QED BY <1>1, AlwaysCookieSafe, PTL

(* No interleaving of calls, timers and late callbacks leaves a cookie     *)
(* that nothing will expire.                                               *)
THEOREM CookieTimed == Spec => []CookieHasTimer
<1>1. CookieSafe => CookieHasTimer
    BY DEF CookieSafe
<1> QED BY <1>1, AlwaysCookieSafe, PTL

(* No callback of an earlier generation takes the present cookie.          *)
THEOREM OnlyIdleCookieExpires == Spec => TimerDropsOnlyIdleCookie
<1>1. ASSUME Inv, CookieSafe, [Next]_vars, armed, UNCHANGED <<call, profile_id>>
      PROVE  UNCHANGED cookie
    <2> USE DEF At, Goto, Return, Yield
    <2>0. call \in Call /\ cookie \in Cookie \cup {NoCookie}
        BY <1>1 DEF Inv, TypeOK
    <2>1. CASE UNCHANGED vars
        BY <2>1 DEF vars
    <2>2. CASE BeginCall \/ EndCall \/ TimerElapses
        BY <2>2 DEF BeginCall, EndCall, TimerElapses, cookieVars
    <2>3. CASE ExpireCachedCookie
        BY <1>1, <2>3 DEF ExpireCachedCookie, CookieSafe, OneTimer
    <2>4. CASE Crash
        BY <1>1, <2>0, <2>4, ProfilesAssumption
            DEF Crash, CookieSafe, CookieOfSelectedProfile, Cookie
    <2>5. CASE \/ SetProfile \/ ClearProfile \/ RestorePassword \/ SignOutLegacy
               \/ RemoveProfileCredentials \/ InvalidateAuthenticatedCookie
        <3>1. call'.step \in {"migrate", "done"} /\ call'.step # call.step
            BY <2>0, <2>5 DEF SetProfile, ClearProfile, RestorePassword, SignOutLegacy,
                RemoveProfileCredentials, InvalidateAuthenticatedCookie, Call
        <3> QED BY <1>1, <3>1
    <2>6. CASE AuthenticatedCookie \/ TestConnection
        <3>1. call'.step = "done" /\ call.step = "start"
            BY <1>1, <2>0, <2>6, LoginEffect DEF AuthenticatedCookie, TestConnection, Inv, Call
        <3> QED BY <1>1, <3>1
    <2>7. CASE ConfigureClearLegacy
        <3>1. call'.step \in {"restore_username", "done"} /\ call.step = "clear_legacy"
            BY <2>0, <2>7 DEF ConfigureClearLegacy, Call
        <3> QED BY <1>1, <3>1
    <2>8. CASE \/ MigrateLegacyCredentials \/ MigrateUsername \/ MigratePassword
               \/ MigrateCheck \/ MigrateUndo \/ MigrateClear
               \/ ConfigureLogin \/ SaveUsername \/ SavePassword \/ RestoreUsername
               \/ SignOutCurrent
        BY <2>8 DEF MigrateLegacyCredentials, MigrateUsername, MigratePassword,
            MigrateCheck, MigrateUndo, MigrateClear, ConfigureLogin, SaveUsername,
            SavePassword, RestoreUsername, SignOutCurrent, cookieVars
    <2> QED BY <1>1, <2>1, <2>2, <2>3, <2>4, <2>5, <2>6, <2>7, <2>8 DEF Next, Method, Timer
<1>2. Inv /\ CookieSafe /\ [Next]_vars
        => [armed /\ UNCHANGED <<call, profile_id>> => UNCHANGED cookie]_vars
    BY <1>1
<1> QED BY <1>2, Typed, AlwaysCookieSafe, PTL DEF Spec, TimerDropsOnlyIdleCookie
-----------------------------------------------------------------------------
(* Removal.  Signing out clears two groups of records in turn; between     *)
(* them the result tells whether the first group is gone.                  *)
RemovalProgress ==
    call.op = "sign_out" /\ At("clear_legacy") /\ profile_id # NoProfile
        /\ call.result # "error" => vault[Rock(profile_id)] = Blank

RemovalInv == RemovalIsTruthful /\ RemovalProgress

(* Clears that were all confirmed leave nothing; no clear touches another  *)
(* record.                                                                 *)
LEMMA ClearEffects ==
    ASSUME vault \in [Keys -> Pair], NEW keys, NEW failed \in BOOLEAN,
           ClearSecrets(keys, failed)
    PROVE  /\ ~failed => \A k \in keys \cap Keys : vault'[k] = Blank
           /\ \A k \in Keys \ keys : vault'[k] = vault[k]
           /\ \A k \in Keys : vault[k] = Blank => vault'[k] = Blank
<1>1. PICK gone \in SUBSET (keys \X Fields) :
        /\ ~failed => gone = keys \X Fields
        /\ vault' = [k \in Keys |-> [f \in Fields |->
                        IF <<k, f>> \in gone THEN NoSecret ELSE vault[k][f]]]
    BY DEF ClearSecrets
<1>2. ASSUME ~failed, NEW k \in keys \cap Keys
      PROVE  vault'[k] = Blank
    BY <1>1, <1>2 DEF Blank, Whole
<1>3. ASSUME NEW k \in Keys \ keys
      PROVE  vault'[k] = vault[k]
    <2>1. vault[k] \in [Fields -> Secret]
        BY DEF Pair
    <2>2. \A f \in Fields : <<k, f>> \notin gone
        BY <1>1
    <2>3. vault'[k] = [f \in Fields |-> vault[k][f]]
        BY <1>1, <2>2
    <2> QED BY <2>1, <2>3
<1>4. ASSUME NEW k \in Keys, vault[k] = Blank
      PROVE  vault'[k] = Blank
    <2>1. \A f \in Fields : vault[k][f] = NoSecret
        BY <1>4 DEF Blank, Whole
    <2>2. vault'[k] = [f \in Fields |-> NoSecret]
        BY <1>1, <2>1
    <2> QED BY <2>2 DEF Blank, Whole
<1> QED BY <1>2, <1>3, <1>4

LEMMA RemovalStep == Inv /\ CookieSafe /\ RemovalInv /\ [Next]_vars => RemovalInv'
<1> SUFFICES ASSUME Inv, CookieSafe, RemovalInv, [Next]_vars PROVE RemovalInv'
    OBVIOUS
<1> USE DEF At, Goto, Return
<1>0. /\ TypeOK /\ CallWellFormed /\ call \in Call
      /\ vault \in [Keys -> Pair] /\ profile_id \in Profiles \cup {NoProfile}
    BY DEF Inv, TypeOK
<1>1. CASE UNCHANGED vars
    BY <1>1 DEF vars, RemovalInv, RemovalIsTruthful, RemovalProgress
<1>2. CASE BeginCall \/ EndCall \/ Crash
    <2>1. call'.step = "start"
        BY <1>2 DEF BeginCall, EndCall, Crash, Begin, NoCall
    <2> QED BY <2>1 DEF RemovalInv, RemovalIsTruthful, RemovalProgress
<1>3. CASE Timer
    <2>1. UNCHANGED <<call, vault, profile_id>> /\ cookie' \in {cookie, NoCookie}
        BY <1>3 DEF Timer, TimerElapses, ExpireCachedCookie
    <2> QED BY <2>1 DEF RemovalInv, RemovalIsTruthful, RemovalProgress
<1>4. ASSUME call'.op = call.op, call.op \notin {"sign_out", "remove_profile_credentials"}
      PROVE  RemovalInv'
    BY <1>4 DEF RemovalInv, RemovalIsTruthful, RemovalProgress
<1>5. CASE \/ SetProfile \/ MigrateLegacyCredentials \/ MigrateUsername
           \/ MigratePassword \/ MigrateCheck \/ MigrateUndo \/ MigrateClear
    <2>1. call.op = "set_profile"
        BY <1>0, <1>5 DEF CallWellFormed, MigrateSteps, SetProfile, MigrateLegacyCredentials,
            MigrateUsername, MigratePassword, MigrateCheck, MigrateUndo, MigrateClear
    <2>2. call'.op = call.op
        BY <1>0, <1>5 DEF Call, SetProfile, MigrateLegacyCredentials,
            MigrateUsername, MigratePassword, MigrateCheck, MigrateUndo, MigrateClear
    <2> QED BY <1>4, <2>1, <2>2
<1>6. CASE \/ ConfigureLogin \/ SaveUsername \/ SavePassword
           \/ ConfigureClearLegacy \/ RestoreUsername \/ RestorePassword
    <2>1. call.op = "configure"
        BY <1>0, <1>6 DEF CallWellFormed, SaveSteps, ConfigureLogin, SaveUsername,
            SavePassword, ConfigureClearLegacy, RestoreUsername, RestorePassword
    <2>2. call'.op = call.op
        BY <1>0, <1>6 DEF Call, ConfigureLogin, SaveUsername,
            SavePassword, ConfigureClearLegacy, RestoreUsername, RestorePassword
    <2> QED BY <1>4, <2>1, <2>2
<1>7. CASE \/ ClearProfile \/ AuthenticatedCookie \/ TestConnection
           \/ InvalidateAuthenticatedCookie
    <2>1. /\ call.op \in {"clear_profile", "authenticated_cookie", "test_connection",
                          "invalidate_authenticated_cookie"}
          /\ call'.op = call.op
        BY <1>0, <1>7, LoginEffect DEF Call, Yield, ClearProfile, AuthenticatedCookie,
            TestConnection, InvalidateAuthenticatedCookie
    <2> QED BY <1>4, <2>1
<1>8. CASE SignOutCurrent
    <2>1. CASE profile_id = NoProfile
        BY <1>0, <1>8, <2>1 DEF SignOutCurrent, RemovalInv, RemovalIsTruthful, RemovalProgress, Call
    <2>2. CASE profile_id # NoProfile
        <3>1. PICK failed \in BOOLEAN :
                /\ ClearSecrets({Rock(profile_id)}, failed)
                /\ call' = [call EXCEPT !.step = "clear_legacy",
                              !.result = IF failed THEN "error" ELSE "none"]
            BY <1>8, <2>2 DEF SignOutCurrent
        <3>2. profile_id' = profile_id /\ Rock(profile_id) \in Keys
            BY <1>0, <1>8, <2>2, KeyTypes DEF SignOutCurrent
        <3>3. ~failed => vault'[Rock(profile_id)] = Blank
            BY <1>0, <3>1, <3>2, ClearEffects
        <3>4. call'.step = "clear_legacy" /\ (call'.result # "error" => ~failed)
            BY <1>0, <3>1 DEF Call
        <3>5. Rock(profile_id)' = Rock(profile_id)
            BY <3>2 DEF Rock
        <3> QED BY <3>2, <3>3, <3>4, <3>5 DEF RemovalInv, RemovalIsTruthful, RemovalProgress
    <2> QED BY <2>1, <2>2
<1>9. CASE SignOutLegacy
    <2>1. /\ cookie' = NoCookie /\ profile_id' = profile_id
          /\ call'.op = "sign_out" /\ call'.step = "done"
        BY <1>0, <1>9, CookieEffects DEF SignOutLegacy, Call
    <2>2. ASSUME call'.result = "ok", profile_id # NoProfile
          PROVE  \A k \in LegacyKeys(profile_id) \cup {Rock(profile_id)} : vault'[k] = Blank
        <3>1. PICK failed \in BOOLEAN :
                /\ ClearSecrets(LegacyKeys(profile_id), failed)
                /\ Return(IF failed \/ call.result = "error" THEN "error" ELSE "ok")
            BY <1>9, <2>2 DEF SignOutLegacy
        <3>2. ~failed /\ call.result # "error"
            BY <1>0, <2>2, <3>1 DEF Call
        <3>3. vault[Rock(profile_id)] = Blank
            BY <1>9, <2>2, <3>2 DEF SignOutLegacy, RemovalInv, RemovalProgress
        <3>4. Rock(profile_id) \in Keys /\ LegacyKeys(profile_id) \subseteq Keys
            BY <1>0, <2>2, KeyTypes DEF LegacyKeys
        <3> QED BY <1>0, <3>1, <3>2, <3>3, <3>4, ClearEffects
    <2>3. LegacyKeys(profile_id)' = LegacyKeys(profile_id) /\ Rock(profile_id)' = Rock(profile_id)
        BY <2>1 DEF LegacyKeys, Rock, Magnus, MagnusAt
    <2> QED BY <2>1, <2>2, <2>3 DEF RemovalInv, RemovalIsTruthful, RemovalProgress
<1>10. CASE RemoveProfileCredentials
    <2>1. PICK failed \in BOOLEAN :
            /\ ClearSecrets({Rock(call.profile), Magnus(call.profile)}, failed)
            /\ Return(IF failed THEN "error" ELSE "ok")
        BY <1>10 DEF RemoveProfileCredentials
    <2>2. /\ call'.op = "remove_profile_credentials" /\ call'.step = "done"
          /\ call'.profile = call.profile /\ call.profile \in Profiles
          /\ call'.result = "ok" => ~failed
        BY <1>0, <1>10, <2>1 DEF RemoveProfileCredentials, Call, CallWellFormed
    <2>3. ~failed => vault'[Rock(call.profile)] = Blank /\ vault'[Magnus(call.profile)] = Blank
        BY <1>0, <2>1, <2>2, KeyTypes, ClearEffects
    <2>4. cookie' # NoCookie => call.profile # profile_id /\ cookie' = cookie
        BY <1>10, CookieEffects DEF RemoveProfileCredentials, cookieVars
    <2>5. cookie' # NoCookie => cookie'.profile # call.profile
        BY <2>4 DEF CookieSafe, CookieOfSelectedProfile
    <2>6. Rock(call.profile)' = Rock(call.profile) /\ Magnus(call.profile)' = Magnus(call.profile)
        BY <2>2 DEF Rock, Magnus
    <2> QED BY <2>2, <2>3, <2>5, <2>6 DEF RemovalInv, RemovalIsTruthful, RemovalProgress
<1> QED BY <1>1, <1>2, <1>3, <1>5, <1>6, <1>7, <1>8, <1>9, <1>10 DEF Next, Method

(* "ok" from sign_out or remove_profile_credentials means that nothing is  *)
(* left to sign in with; the cookie is gone whatever they say.             *)
THEOREM RemovalTruthful == Spec => []RemovalIsTruthful
<1>1. Init => RemovalInv
    BY DEF Init, NoCall, RemovalInv, RemovalIsTruthful, RemovalProgress, At
<1>2. RemovalInv => RemovalIsTruthful
    BY DEF RemovalInv
<1> QED BY <1>1, <1>2, RemovalStep, Typed, AlwaysCookieSafe, PTL DEF Spec
-----------------------------------------------------------------------------
(* Migration.  The pair being moved is complete, and once the older        *)
(* records may be cleared the current pair is.                             *)
MigrationInv ==
    /\ call.step \in {"migrate_username", "migrate_password", "migrate_check"}
         => Complete(call.given)
    /\ At("migrate_clear") => Complete(vault[Rock(profile_id)])

(* A pair that is read completely was there.                               *)
LEMMA SeenComplete ==
    ASSUME NEW key, NEW pair \in Seen(key), Complete(pair)
    PROVE  Complete(vault[key])
BY DEF Seen, Complete

LEMMA MigrationStep == Inv /\ MigrationInv /\ [Next]_vars => MigrationInv'
<1> SUFFICES ASSUME Inv, MigrationInv, [Next]_vars PROVE MigrationInv'
    OBVIOUS
<1> USE DEF At, Goto, Return
<1>0. CallWellFormed /\ call \in Call
    BY DEF Inv, TypeOK
<1> DEFINE Moving == {"migrate_username", "migrate_password", "migrate_check", "migrate_clear"}
<1>1. CASE UNCHANGED vars \/ Timer
    <2>1. UNCHANGED <<call, vault, profile_id>>
        BY <1>1 DEF vars, Timer, TimerElapses, ExpireCachedCookie
    <2> QED BY <2>1 DEF MigrationInv, Complete, Rock
<1>2. ASSUME call'.step \notin Moving
      PROVE  MigrationInv'
    BY <1>2 DEF MigrationInv
<1>3. CASE BeginCall \/ EndCall \/ Crash
    <2>1. call'.step = "start"
        BY <1>3 DEF BeginCall, EndCall, Crash, Begin, NoCall
    <2> QED BY <1>2, <2>1
<1>4. CASE MigrateLegacyCredentials
    <2>1. PICK rock \in Seen(Rock(profile_id)), found \in Pair :
            \/ Complete(rock) /\ call' = [call EXCEPT !.step = "migrate_clear"]
            \/ /\ Complete(found)
               /\ call' = [call EXCEPT !.step = "migrate_username", !.given = found]
            \/ call'.step = "done"
        BY <1>0, <1>4, SeenTypes DEF MigrateLegacyCredentials, Call
    <2>2. vault' = vault /\ profile_id' = profile_id
        BY <1>4 DEF MigrateLegacyCredentials
    <2>3. CASE Complete(rock) /\ call' = [call EXCEPT !.step = "migrate_clear"]
        <3>1. call'.step = "migrate_clear"
            BY <1>0, <2>3 DEF Call
        <3> QED BY <2>2, <2>3, <3>1, SeenComplete DEF MigrationInv, Complete, Rock
    <2>4. CASE Complete(found) /\ call' = [call EXCEPT !.step = "migrate_username", !.given = found]
        <3>1. call'.step = "migrate_username" /\ call'.given = found
            BY <1>0, <2>4 DEF Call
        <3> QED BY <2>4, <3>1 DEF MigrationInv, Complete
    <2> QED BY <1>2, <2>1, <2>3, <2>4
<1>5. CASE MigrateUsername \/ MigratePassword
    <2>1. /\ call'.step \in {"migrate_undo", "migrate_password", "migrate_check"}
          /\ call'.given = call.given /\ Complete(call.given)
        BY <1>0, <1>5 DEF MigrateUsername, MigratePassword, MigrationInv, Call
    <2> QED BY <2>1 DEF MigrationInv, Complete
<1>6. CASE MigrateCheck
    <2>1. PICK rock \in Seen(Rock(profile_id)) :
            call' = [call EXCEPT !.step = IF rock = call.given THEN "migrate_clear" ELSE "migrate_undo"]
        BY <1>6 DEF MigrateCheck
    <2>2. Complete(call.given) /\ vault' = vault /\ profile_id' = profile_id
        BY <1>6 DEF MigrateCheck, MigrationInv
    <2>3. CASE rock = call.given
        <3>1. call'.step = "migrate_clear"
            BY <1>0, <2>1, <2>3 DEF Call
        <3> QED BY <2>2, <2>3, <3>1, SeenComplete DEF MigrationInv, Complete, Rock
    <2>4. CASE rock # call.given
        <3>1. call'.step = "migrate_undo"
            BY <1>0, <2>1, <2>4 DEF Call
        <3> QED BY <1>2, <3>1
    <2> QED BY <2>3, <2>4
<1>7. CASE \/ SetProfile \/ MigrateUndo \/ MigrateClear \/ ClearProfile
           \/ ConfigureLogin \/ SaveUsername \/ SavePassword \/ ConfigureClearLegacy
           \/ RestoreUsername \/ RestorePassword \/ SignOutCurrent \/ SignOutLegacy
           \/ RemoveProfileCredentials \/ AuthenticatedCookie \/ TestConnection
           \/ InvalidateAuthenticatedCookie
    <2>1. call'.step \notin Moving
        <3>1. CASE SetProfile \/ MigrateUndo \/ MigrateClear \/ ClearProfile
            BY <1>0, <3>1 DEF SetProfile, MigrateUndo, MigrateClear, ClearProfile, Call
        <3>2. CASE \/ ConfigureLogin \/ SaveUsername \/ SavePassword \/ ConfigureClearLegacy
                   \/ RestoreUsername \/ RestorePassword
            BY <1>0, <3>2 DEF ConfigureLogin, SaveUsername, SavePassword,
                ConfigureClearLegacy, RestoreUsername, RestorePassword, Call
        <3>3. CASE SignOutCurrent \/ SignOutLegacy \/ RemoveProfileCredentials
            BY <1>0, <3>3 DEF SignOutCurrent, SignOutLegacy, RemoveProfileCredentials, Call
        <3>4. CASE AuthenticatedCookie \/ TestConnection \/ InvalidateAuthenticatedCookie
            BY <1>0, <3>4, LoginEffect DEF AuthenticatedCookie, TestConnection,
                InvalidateAuthenticatedCookie, Yield, Call, Inv
        <3> QED BY <1>7, <3>1, <3>2, <3>3, <3>4
    <2> QED BY <1>2, <2>1
<1> QED BY <1>1, <1>3, <1>4, <1>5, <1>6, <1>7 DEF Next, Method

(* Whatever fails in a migration, an older record is only cleared when the *)
(* profile has a complete newer login.                                     *)
THEOREM MigrationSafe == Spec => MigrationKeepsALogin
<1>1. Init => MigrationInv
    BY DEF Init, NoCall, MigrationInv, At
<1>2. ASSUME Inv, MigrationInv, [Next]_vars, call.op = "set_profile", ~At("start"),
             NEW k \in LegacyKeys(profile_id), vault'[k] # vault[k]
      PROVE  Complete(vault'[Rock(profile_id)])
    <2> USE DEF At
    <2>0. CallWellFormed /\ call \in Call /\ vault \in [Keys -> Pair]
        BY <1>2 DEF Inv, TypeOK
    <2>1. k # Rock(profile_id)
        BY <1>2 DEF LegacyKeys, Rock, Magnus, MagnusAt
    <2>2. \/ MigrateUsername \/ MigratePassword \/ MigrateUndo \/ MigrateClear
        <3>1. UNCHANGED vars \/ BeginCall \/ EndCall \/ Timer \/ Crash => vault' = vault
            BY DEF vars, BeginCall, EndCall, Timer, TimerElapses, ExpireCachedCookie, Crash
        <3>2. SetProfile \/ MigrateLegacyCredentials \/ MigrateCheck \/ ClearProfile
                \/ AuthenticatedCookie \/ TestConnection \/ InvalidateAuthenticatedCookie
                => vault' = vault
            BY DEF SetProfile, MigrateLegacyCredentials, MigrateCheck, ClearProfile,
                AuthenticatedCookie, TestConnection, InvalidateAuthenticatedCookie
        <3>3. ~(\/ ConfigureLogin \/ SaveUsername \/ SavePassword \/ ConfigureClearLegacy
                \/ RestoreUsername \/ RestorePassword \/ SignOutCurrent \/ SignOutLegacy
                \/ RemoveProfileCredentials)
            BY <1>2, <2>0 DEF CallWellFormed, SaveSteps, ConfigureLogin, SaveUsername,
                SavePassword, ConfigureClearLegacy, RestoreUsername, RestorePassword,
                SignOutCurrent, SignOutLegacy, RemoveProfileCredentials
        <3> QED BY <1>2, <3>1, <3>2, <3>3 DEF Next, Method
    <2>3. profile_id \in Profiles
        BY <1>2, <2>0, <2>2 DEF CallWellFormed, MigrateSteps, MigrateUsername,
            MigratePassword, MigrateUndo, MigrateClear
    <2>4. k \in Keys /\ Rock(profile_id) \in Keys /\ Rock(profile_id) \notin LegacyKeys(profile_id)
        BY <1>2, <2>3, KeyTypes DEF LegacyKeys, Rock, Magnus, MagnusAt
    <2>5. ~MigrateUsername /\ ~MigratePassword
        BY <1>2, <2>0, <2>1, <2>4 DEF MigrateUsername, MigratePassword, StoreSecret
    <2>6. ~MigrateUndo
        BY <1>2, <2>0, <2>1, <2>4, ClearEffects DEF MigrateUndo
    <2>7. MigrateClear
        BY <2>2, <2>5, <2>6
    <2>8. PICK failed \in BOOLEAN : ClearSecrets(LegacyKeys(profile_id), failed)
        BY <2>7 DEF MigrateClear
    <2>9. vault'[Rock(profile_id)] = vault[Rock(profile_id)]
        BY <2>0, <2>4, <2>8, ClearEffects
    <2> QED BY <1>2, <2>7, <2>9 DEF MigrationInv, MigrateClear, Complete
<1>3. Inv /\ MigrationInv /\ [Next]_vars
        => [call.op = "set_profile" /\ ~At("start")
              /\ (\E k \in LegacyKeys(profile_id) : vault'[k] # vault[k])
              => Complete(vault'[Rock(profile_id)])]_vars
    BY <1>2
<1> QED BY <1>1, <1>3, MigrationStep, Typed, PTL DEF Spec, MigrationKeepsALogin
-----------------------------------------------------------------------------
(* The saved login.  While configure replaces an acknowledged login, it is *)
(* still in the vault or `old` can put it back; `old` may be wrong only    *)
(* when reading it has used up the failure that would make it needed.      *)
Kept(p) == vault[Rock(p)] = Whole(ack[p])
NoFaultLeft == faults >= MaxFaults

ReplacedOrRestorable ==
    call.op = "configure" /\ profile_id \in Profiles /\ ack[profile_id] # NoSecret =>
        /\ call.step \in {"start", "save_username"} => Kept(profile_id)
        /\ call.step \in {"save_username", "save_password", "clear_legacy"}
             => call.old = Whole(ack[profile_id]) \/ NoFaultLeft
        /\ call.step \in {"restore_username", "restore_password"}
             => call.old = Whole(ack[profile_id]) /\ NoFaultLeft
        /\ At("restore_password") => vault[Rock(profile_id)]["username"] = ack[profile_id]

(* What configure is about to acknowledge is in the vault.                 *)
NewLoginStored ==
    call.op = "configure" =>
        /\ At("save_password")
             => vault[Rock(profile_id)]["username"] = call.given["username"]
        /\ At("clear_legacy") => vault[Rock(profile_id)] = call.given

(* No older record can replace an acknowledged login: configure confirmed  *)
(* that they are gone, and nothing writes one.                             *)
OlderGone ==
    \A p \in Profiles : ack[p] # NoSecret =>
        \A k \in LegacyKeys(p) : vault[k] = Blank

(* So a migration only ever copies into the record of a profile without an *)
(* acknowledged login.                                                     *)
OnlyOlderLoginsMove ==
    call.step \in {"migrate_username", "migrate_password", "migrate_check", "migrate_undo"}
        => ack[profile_id] = NoSecret

KeepInv ==
    /\ AcknowledgedLoginIsKept
    /\ ReplacedOrRestorable
    /\ NewLoginStored
    /\ OlderGone
    /\ OnlyOlderLoginsMove

(* Storing one field of a pair touches nothing else.                       *)
LEMMA StoreElsewhere ==
    ASSUME vault \in [Keys -> Pair], NEW p \in Profiles, NEW field \in Fields,
           NEW value \in Secret, NEW failed \in BOOLEAN,
           StoreSecret(Rock(p), field, value, failed)
    PROVE  \A k \in Keys : k # Rock(p) => vault'[k] = vault[k]
BY KeyTypes DEF StoreSecret

LEMMA StoreEffects ==
    ASSUME vault \in [Keys -> Pair], NEW p \in Profiles, NEW field \in Fields,
           NEW value \in Secret, NEW failed \in BOOLEAN,
           StoreSecret(Rock(p), field, value, failed)
    PROVE  /\ ~failed => vault'[Rock(p)] = [vault[Rock(p)] EXCEPT ![field] = value]
           /\ vault'[Rock(p)] \in {vault[Rock(p)], [vault[Rock(p)] EXCEPT ![field] = value]}
<1>1. Rock(p) \in Keys
    BY KeyTypes
<1> QED BY <1>1 DEF StoreSecret

(* A pair has two fields: storing both stores the pair.                    *)
LEMMA PairOf ==
    ASSUME NEW a \in Pair, NEW b \in Pair,
           a["username"] = b["username"]
    PROVE  [a EXCEPT !["password"] = b["password"]] = b
<1>1. a \in [Fields -> Secret] /\ b \in [Fields -> Secret]
    BY DEF Pair
<1> DEFINE c == [a EXCEPT !["password"] = b["password"]]
<1>2. c \in [Fields -> Secret]
    BY <1>1 DEF Fields
<1>3. \A f \in Fields : c[f] = b[f]
    BY <1>1 DEF Fields
<1> QED BY <1>1, <1>2, <1>3

(* A step that is no part of configure, forgets acknowledgements but gives *)
(* none, and leaves the records of acknowledged logins alone.              *)
LEMMA KeepElsewhere ==
    ASSUME Inv, KeepInv, call.op # "configure" \/ At("done"),
           call'.op # "configure" \/ call'.step = "done",
           \A p \in Profiles : ack'[p] \in {ack[p], NoSecret},
           \A p \in Profiles : ack'[p] # NoSecret => vault'[Rock(p)] = vault[Rock(p)],
           \A p \in Profiles : \A k \in LegacyKeys(p) : vault[k] = Blank => vault'[k] = Blank,
           call'.step \in {"migrate_username", "migrate_password", "migrate_check", "migrate_undo"}
               => ack'[profile_id'] = NoSecret
    PROVE  KeepInv'
<1> USE DEF At
<1>1. AcknowledgedLoginIsKept'
    BY DEF KeepInv, AcknowledgedLoginIsKept, Replacing, Rock
<1>2. ReplacedOrRestorable' /\ NewLoginStored'
    BY DEF ReplacedOrRestorable, NewLoginStored
<1>3. OlderGone'
    BY DEF KeepInv, OlderGone, LegacyKeys, Magnus, MagnusAt
<1>4. OnlyOlderLoginsMove'
    BY DEF OnlyOlderLoginsMove
<1> QED BY <1>1, <1>2, <1>3, <1>4 DEF KeepInv

LEMMA KeepMigration ==
    ASSUME Inv, KeepInv,
           \/ SetProfile \/ MigrateLegacyCredentials \/ MigrateUsername
           \/ MigratePassword \/ MigrateCheck \/ MigrateUndo \/ MigrateClear
    PROVE  KeepInv'
<1> USE DEF At, Goto, Return
<1>0. /\ CallWellFormed /\ call \in Call /\ vault \in [Keys -> Pair]
      /\ call.given \in Pair /\ \A f \in Fields : call.given[f] \in Secret
    BY DEF Inv, TypeOK, Call, Pair
<1>1. call.op = "set_profile" /\ call'.op = "set_profile" /\ ack' = ack
    BY <1>0 DEF CallWellFormed, MigrateSteps, Call, SetProfile, MigrateLegacyCredentials,
        MigrateUsername, MigratePassword, MigrateCheck, MigrateUndo, MigrateClear
<1> DEFINE Moves(c) == c.step \in {"migrate_username", "migrate_password",
                                   "migrate_check", "migrate_undo"}
           Kept1 == \A p \in Profiles : ack[p] # NoSecret => vault'[Rock(p)] = vault[Rock(p)]
           Kept2 == \A p \in Profiles : \A k \in LegacyKeys(p) :
                        vault[k] = Blank => vault'[k] = Blank
<1>2. ASSUME Kept1, Kept2, Moves(call') => ack[profile_id'] = NoSecret
      PROVE  KeepInv'
    BY <1>1, <1>2, KeepElsewhere
<1>3. CASE SetProfile
    <2>1. vault' = vault /\ ~Moves(call')
        BY <1>0, <1>3 DEF SetProfile, Call
    <2> QED BY <1>2, <2>1
<1>4. ASSUME ~SetProfile
      PROVE  profile_id \in Profiles /\ profile_id' = profile_id
    BY <1>0, <1>4 DEF CallWellFormed, MigrateSteps, MigrateLegacyCredentials,
        MigrateUsername, MigratePassword, MigrateCheck, MigrateUndo, MigrateClear
<1>5. CASE MigrateLegacyCredentials /\ ~SetProfile
    <2>1. vault' = vault
        BY <1>5 DEF MigrateLegacyCredentials
    <2>2. ASSUME Moves(call')
          PROVE  ack[profile_id] = NoSecret
        <3>1. PICK own \in Seen(Magnus(profile_id)), byOrigin \in Seen(MagnusAt(OriginOf[profile_id])) :
                Complete(IF Complete(own) THEN own ELSE byOrigin)
            BY <1>0, <1>5, <2>2 DEF MigrateLegacyCredentials, Call
        <3>2. Complete(vault[Magnus(profile_id)]) \/ Complete(vault[MagnusAt(OriginOf[profile_id])])
            BY <3>1, SeenComplete
        <3>3. ~Complete(Blank)
            BY DEF Complete, Blank, Whole, Fields
        <3> QED BY <1>4, <1>5, <3>2, <3>3 DEF KeepInv, OlderGone, LegacyKeys
    <2> QED BY <1>2, <1>4, <1>5, <2>1, <2>2
<1>6. CASE (MigrateUsername \/ MigratePassword) /\ ~SetProfile
    <2>1. ASSUME NEW p \in Profiles, NEW field \in Fields, NEW value \in Secret,
                 NEW failed \in BOOLEAN, p = profile_id,
                 StoreSecret(Rock(p), field, value, failed)
          PROVE  Kept1 /\ Kept2
        <3>1. \A k \in Keys : k # Rock(p) => vault'[k] = vault[k]
            BY <1>0, <2>1, StoreElsewhere
        <3>2. ack[p] = NoSecret
            BY <1>6, <2>1 DEF MigrateUsername, MigratePassword, KeepInv, OnlyOlderLoginsMove
        <3>3. Kept1
            BY <3>1, <3>2, KeyTypes DEF Rock
        <3>4. Kept2
            BY <3>1, KeyTypes DEF LegacyKeys, Rock, Magnus, MagnusAt
        <3> QED BY <3>3, <3>4
    <2>2. \E p \in Profiles, field \in Fields, value \in Secret, failed \in BOOLEAN :
            p = profile_id /\ StoreSecret(Rock(p), field, value, failed)
        BY <1>0, <1>4, <1>6 DEF MigrateUsername, MigratePassword, Fields
    <2>3. ack[profile_id] = NoSecret
        BY <1>6 DEF MigrateUsername, MigratePassword, KeepInv, OnlyOlderLoginsMove
    <2> QED BY <1>2, <1>4, <1>6, <2>1, <2>2, <2>3
<1>7. CASE MigrateCheck /\ ~SetProfile
    <2>1. vault' = vault /\ ack[profile_id] = NoSecret
        BY <1>7 DEF MigrateCheck, KeepInv, OnlyOlderLoginsMove
    <2> QED BY <1>2, <1>4, <1>7, <2>1
<1>8. CASE MigrateUndo /\ ~SetProfile
    <2>1. PICK failed \in BOOLEAN : ClearSecrets({Rock(profile_id)}, failed)
        BY <1>8 DEF MigrateUndo
    <2>2. /\ \A k \in Keys \ {Rock(profile_id)} : vault'[k] = vault[k]
          /\ \A k \in Keys : vault[k] = Blank => vault'[k] = Blank
        BY <1>0, <2>1, ClearEffects
    <2>3. ack[profile_id] = NoSecret
        BY <1>8 DEF MigrateUndo, KeepInv, OnlyOlderLoginsMove
    <2>4. Kept1
        BY <2>2, <2>3, KeyTypes DEF Rock
    <2>5. Kept2
        BY <2>2, KeyTypes DEF LegacyKeys
    <2> QED BY <1>2, <1>4, <1>8, <2>3, <2>4, <2>5
<1>9. CASE MigrateClear /\ ~SetProfile
    <2>1. PICK failed \in BOOLEAN : ClearSecrets(LegacyKeys(profile_id), failed)
        BY <1>9 DEF MigrateClear
    <2>2. /\ \A k \in Keys \ LegacyKeys(profile_id) : vault'[k] = vault[k]
          /\ \A k \in Keys : vault[k] = Blank => vault'[k] = Blank
        BY <1>0, <2>1, ClearEffects
    <2>3. Kept1
        BY <2>2, KeyTypes DEF Rock, LegacyKeys, Magnus, MagnusAt
    <2>4. Kept2
        BY <2>2, KeyTypes DEF LegacyKeys
    <2>5. ~Moves(call')
        BY <1>0, <1>9 DEF MigrateClear, Call
    <2> QED BY <1>2, <2>3, <2>4, <2>5
<1> QED BY <1>3, <1>5, <1>6, <1>7, <1>8, <1>9

(* Forgetting a login, and calls that touch no record.                     *)
LEMMA KeepRemoval ==
    ASSUME Inv, KeepInv,
           \/ ClearProfile \/ SignOutCurrent \/ SignOutLegacy \/ RemoveProfileCredentials
           \/ AuthenticatedCookie \/ TestConnection \/ InvalidateAuthenticatedCookie
    PROVE  KeepInv'
<1> USE DEF At, Goto, Return
<1>0. /\ CallWellFormed /\ call \in Call /\ vault \in [Keys -> Pair] /\ ack \in [Profiles -> Secret]
      /\ profile_id \in Profiles \cup {NoProfile}
    BY DEF Inv, TypeOK
<1>1. /\ call.op # "configure" /\ call'.op # "configure"
      /\ call'.step \in {"clear_legacy", "done"}
    BY <1>0, LoginEffect DEF Call, Inv, Yield, ClearProfile, SignOutCurrent, SignOutLegacy,
        RemoveProfileCredentials, AuthenticatedCookie, TestConnection, InvalidateAuthenticatedCookie
<1>2. ASSUME \A p \in Profiles : ack'[p] \in {ack[p], NoSecret},
             \A p \in Profiles : ack'[p] # NoSecret => vault'[Rock(p)] = vault[Rock(p)],
             \A p \in Profiles : \A k \in LegacyKeys(p) : vault[k] = Blank => vault'[k] = Blank
      PROVE  KeepInv'
    BY <1>1, <1>2, KeepElsewhere
<1>3. CASE \/ ClearProfile \/ AuthenticatedCookie \/ TestConnection
           \/ InvalidateAuthenticatedCookie \/ UNCHANGED <<vault, ack>>
    <2>1. UNCHANGED <<vault, ack>>
        BY <1>3 DEF ClearProfile, AuthenticatedCookie, TestConnection, InvalidateAuthenticatedCookie
    <2> QED BY <1>2, <2>1
<1>4. ASSUME NEW p \in Profiles, NEW keys, NEW failed \in BOOLEAN,
             ClearSecrets(keys, failed),
             \A q \in Profiles \ {p} : Rock(q) \notin keys,
             \A q \in Profiles \ {p} : ack'[q] = ack[q],
             Rock(p) \in keys => ack'[p] = NoSecret,
             ack'[p] \in {ack[p], NoSecret}
      PROVE  KeepInv'
    <2>1. /\ \A k \in Keys \ keys : vault'[k] = vault[k]
          /\ \A k \in Keys : vault[k] = Blank => vault'[k] = Blank
        BY <1>0, <1>4, ClearEffects
    <2>2. \A q \in Profiles : ack'[q] # NoSecret => vault'[Rock(q)] = vault[Rock(q)]
        BY <1>0, <1>4, <2>1, KeyTypes DEF Rock
    <2>3. \A q \in Profiles : ack'[q] \in {ack[q], NoSecret}
        BY <1>0, <1>4
    <2>4. \A q \in Profiles : \A k \in LegacyKeys(q) : vault[k] = Blank => vault'[k] = Blank
        BY <2>1, KeyTypes DEF LegacyKeys
    <2> QED BY <1>2, <2>2, <2>3, <2>4
<1>5. CASE SignOutCurrent /\ profile_id # NoProfile
    <2> DEFINE keys == {Rock(profile_id)}
    <2>1. PICK failed \in BOOLEAN : ClearSecrets(keys, failed)
        BY <1>5 DEF SignOutCurrent
    <2>2. PICK p \in Profiles : p = profile_id
        BY <1>0, <1>5
    <2>3. ack'[p] = NoSecret /\ \A q \in Profiles \ {p} : ack'[q] = ack[q]
        BY <1>0, <1>5, <2>2 DEF SignOutCurrent
    <2>4. \A q \in Profiles \ {p} : Rock(q) \notin keys
        BY <2>2 DEF Rock
    <2> HIDE DEF keys
    <2> QED BY <1>4, <2>1, <2>3, <2>4
<1>6. CASE SignOutLegacy /\ profile_id # NoProfile
    <2>1. PICK failed \in BOOLEAN : ClearSecrets(LegacyKeys(profile_id), failed)
        BY <1>6 DEF SignOutLegacy
    <2>2. /\ ack' = ack /\ profile_id \in Profiles
          /\ \A q \in Profiles : Rock(q) \notin LegacyKeys(profile_id)
        BY <1>0, <1>6 DEF SignOutLegacy, LegacyKeys, Magnus, MagnusAt, Rock
    <2> QED BY <1>4, <2>1, <2>2
<1>7. CASE RemoveProfileCredentials
    <2> DEFINE keys == {Rock(call.profile), Magnus(call.profile)}
    <2>1. PICK failed \in BOOLEAN : ClearSecrets(keys, failed)
        BY <1>7 DEF RemoveProfileCredentials
    <2>2. PICK p \in Profiles : p = call.profile
        BY <1>0, <1>7 DEF RemoveProfileCredentials, CallWellFormed
    <2>3. ack'[p] = NoSecret /\ \A q \in Profiles \ {p} : ack'[q] = ack[q]
        BY <1>0, <1>7, <2>2 DEF RemoveProfileCredentials
    <2>4. \A q \in Profiles \ {p} : Rock(q) \notin keys
        BY <2>2 DEF Rock, Magnus
    <2> HIDE DEF keys
    <2> QED BY <1>4, <2>1, <2>3, <2>4
<1> QED BY <1>3, <1>5, <1>6, <1>7 DEF SignOutCurrent, SignOutLegacy

LEMMA KeepConfigure ==
    ASSUME MaxFaults <= 1, Inv, KeepInv,
           \/ ConfigureLogin \/ SaveUsername \/ SavePassword
           \/ ConfigureClearLegacy \/ RestoreUsername \/ RestorePassword
    PROVE  KeepInv'
<1> USE DEF At, Goto, Return
<1> DEFINE p == profile_id
           Acked == ack[p] # NoSecret
           Restorable == call.old = Whole(ack[p])
<1>0. /\ CallWellFormed /\ call \in Call /\ call.given \in Pair /\ call.old \in Pair
      /\ \A f \in Fields : call.given[f] \in Secret /\ call.old[f] \in Secret
      /\ vault \in [Keys -> Pair] /\ ack \in [Profiles -> Secret]
      /\ faults \in 0 .. MaxFaults /\ profile_id \in Profiles \cup {NoProfile}
    BY DEF Inv, TypeOK, Call, Pair
<1>1. call.op = "configure" /\ call'.op = "configure" /\ profile_id' = profile_id /\ ~At("done")
    BY <1>0 DEF CallWellFormed, SaveSteps, Call, ConfigureLogin, SaveUsername, SavePassword,
        ConfigureClearLegacy, RestoreUsername, RestorePassword
(* What configure leaves alone: the other profiles and the older records.  *)
<1>2. ASSUME \A q \in Profiles : q # p => vault'[Rock(q)] = vault[Rock(q)] /\ ack'[q] = ack[q],
             p \in Profiles /\ call'.step = "done" /\ ack'[p] # NoSecret
                => vault'[Rock(p)] = Whole(ack'[p])
      PROVE  AcknowledgedLoginIsKept'
    BY <1>1, <1>2 DEF KeepInv, AcknowledgedLoginIsKept, Replacing, Rock
<1>3. ASSUME UNCHANGED ack,
             \A q \in Profiles : \A k \in LegacyKeys(q) : vault[k] = Blank => vault'[k] = Blank
      PROVE  OlderGone'
    BY <1>3 DEF KeepInv, OlderGone, LegacyKeys, Magnus, MagnusAt
<1>4. OnlyOlderLoginsMove'
    <2>1. call'.step \notin {"migrate_username", "migrate_password", "migrate_check", "migrate_undo"}
        BY <1>0 DEF Call, ConfigureLogin, SaveUsername, SavePassword,
            ConfigureClearLegacy, RestoreUsername, RestorePassword
    <2> QED BY <2>1 DEF OnlyOlderLoginsMove
<1>5. ASSUME NEW failed \in BOOLEAN, Spend(failed)
      PROVE  failed => ~NoFaultLeft /\ NoFaultLeft'
    BY <1>0, <1>5, FaultsAssumption DEF Spend, NoFaultLeft
<1>6. ASSUME NEW failed \in BOOLEAN, Spend(failed), NoFaultLeft
      PROVE  ~failed /\ NoFaultLeft'
    BY <1>0, <1>6, FaultsAssumption DEF Spend, NoFaultLeft
<1>7. CASE ConfigureLogin
    <2>1. vault' = vault /\ ack' = ack
        BY <1>7 DEF ConfigureLogin
    <2>2. p \in Profiles /\ Acked => vault[Rock(p)] = Whole(ack[p])
        BY <1>1, <1>7 DEF ConfigureLogin, KeepInv, ReplacedOrRestorable, Kept
    <2>3. AcknowledgedLoginIsKept'
        BY <1>2, <2>1, <2>2
    <2>4. OlderGone'
        BY <1>3, <2>1
    <2>5. \/ call'.step = "done"
          \/ /\ call'.step = "save_username"
             /\ call'.old = vault[Rock(p)] \/ NoFaultLeft'
        <3>1. CASE call'.step # "done"
            <4>1. PICK old \in Seen(Rock(profile_id)) :
                    /\ Spend(old # vault[Rock(profile_id)])
                    /\ call' = [call EXCEPT !.step = "save_username", !.old = old]
                BY <1>0, <1>7, <3>1 DEF ConfigureLogin, Call
            <4>2. call'.step = "save_username" /\ call'.old = old
                BY <1>0, <4>1 DEF Call
            <4> QED BY <1>5, <4>1, <4>2
        <3> QED BY <3>1
    <2>6. ReplacedOrRestorable'
        BY <1>1, <2>1, <2>2, <2>5 DEF ReplacedOrRestorable, Kept, Rock
    <2>7. NewLoginStored'
        BY <2>5 DEF NewLoginStored
    <2> QED BY <1>4, <2>3, <2>4, <2>6, <2>7 DEF KeepInv
(* Each of the four stores changes one field of the selected profile's     *)
(* current pair.                                                           *)
<1>8. ASSUME NEW field \in Fields, NEW value \in Secret, NEW failed \in BOOLEAN,
             StoreSecret(Rock(p), field, value, failed), p \in Profiles, UNCHANGED ack
      PROVE  /\ Spend(failed)
             /\ ~failed => vault'[Rock(p)] = [vault[Rock(p)] EXCEPT ![field] = value]
             /\ vault'[Rock(p)] \in {vault[Rock(p)], [vault[Rock(p)] EXCEPT ![field] = value]}
             /\ vault'[Rock(p)] \in Pair
             /\ OlderGone'
             /\ (call'.step = "done" /\ Acked => vault'[Rock(p)] = Whole(ack[p]))
                    => AcknowledgedLoginIsKept'
    <2>1. /\ \A k \in Keys : k # Rock(p) => vault'[k] = vault[k]
          /\ ~failed => vault'[Rock(p)] = [vault[Rock(p)] EXCEPT ![field] = value]
          /\ vault'[Rock(p)] \in {vault[Rock(p)], [vault[Rock(p)] EXCEPT ![field] = value]}
        BY <1>0, <1>8, StoreElsewhere, StoreEffects
    <2>2. \A q \in Profiles : q # p => vault'[Rock(q)] = vault[Rock(q)] /\ ack'[q] = ack[q]
        BY <1>8, <2>1, KeyTypes DEF Rock
    <2>3. OlderGone'
        <3>1. \A q \in Profiles : \A k \in LegacyKeys(q) : vault[k] = Blank => vault'[k] = Blank
            BY <2>1, KeyTypes DEF LegacyKeys, Rock, Magnus, MagnusAt
        <3> QED BY <1>3, <1>8, <3>1
    <2>4. Spend(failed)
        BY <1>8 DEF StoreSecret
    <2>5. vault'[Rock(p)] \in Pair
        BY <1>0, <1>8, KeyTypes, StoreTypes
    <2>6. (call'.step = "done" /\ Acked => vault'[Rock(p)] = Whole(ack[p]))
                    => AcknowledgedLoginIsKept'
        BY <1>2, <1>8, <2>2
    <2> QED BY <2>1, <2>3, <2>4, <2>5, <2>6
<1>9. CASE SaveUsername
    <2>1. PICK failed \in BOOLEAN :
            /\ StoreSecret(Rock(p), "username", call.given["username"], failed)
            /\ Goto(IF failed THEN "restore_username" ELSE "save_password")
        BY <1>9 DEF SaveUsername
    <2>2. /\ At("save_username") /\ p \in Profiles /\ ack' = ack
          /\ call.given["username"] \in Secret /\ "username" \in Fields
        BY <1>0, <1>1, <1>9 DEF SaveUsername, CallWellFormed, Fields
    <2>3. /\ call'.step = IF failed THEN "restore_username" ELSE "save_password"
          /\ call'.old = call.old /\ call'.given = call.given
        BY <1>0, <2>1 DEF Call
    <2>4. /\ Spend(failed) /\ OlderGone' /\ AcknowledgedLoginIsKept'
          /\ ~failed => vault'[Rock(p)] = [vault[Rock(p)] EXCEPT !["username"] = call.given["username"]]
        BY <1>8, <2>1, <2>2, <2>3
    <2>5. Acked => Restorable \/ NoFaultLeft
        BY <1>1, <2>2 DEF KeepInv, ReplacedOrRestorable
    <2>6. ReplacedOrRestorable'
        BY <1>1, <1>5, <1>6, <2>2, <2>3, <2>4, <2>5 DEF ReplacedOrRestorable
    <2>7. ~failed => vault'[Rock(p)]["username"] = call.given["username"]
        <3>1. vault[Rock(p)] \in [Fields -> Secret]
            BY <1>0, <2>2, KeyTypes DEF Pair
        <3> QED BY <2>2, <2>4, <3>1
    <2>8. NewLoginStored'
        BY <1>1, <2>3, <2>7 DEF NewLoginStored, Rock
    <2> QED BY <1>4, <2>4, <2>6, <2>8 DEF KeepInv
<1>10. CASE SavePassword
    <2>1. PICK failed \in BOOLEAN :
            /\ StoreSecret(Rock(p), "password", call.given["password"], failed)
            /\ Goto(IF failed THEN "restore_username" ELSE "clear_legacy")
        BY <1>10 DEF SavePassword
    <2>2. /\ At("save_password") /\ p \in Profiles /\ ack' = ack
          /\ call.given["password"] \in Secret /\ "password" \in Fields
        BY <1>0, <1>1, <1>10 DEF SavePassword, CallWellFormed, Fields
    <2>3. /\ call'.step = IF failed THEN "restore_username" ELSE "clear_legacy"
          /\ call'.old = call.old /\ call'.given = call.given
        BY <1>0, <2>1 DEF Call
    <2>4. /\ Spend(failed) /\ OlderGone' /\ AcknowledgedLoginIsKept'
          /\ ~failed => vault'[Rock(p)] = [vault[Rock(p)] EXCEPT !["password"] = call.given["password"]]
        BY <1>8, <2>1, <2>2, <2>3
    <2>5. Acked => Restorable \/ NoFaultLeft
        BY <1>1, <2>2 DEF KeepInv, ReplacedOrRestorable
    <2>6. ReplacedOrRestorable'
        BY <1>1, <1>5, <1>6, <2>2, <2>3, <2>4, <2>5 DEF ReplacedOrRestorable
    <2>7. ~failed => vault'[Rock(p)] = call.given
        <3>1. vault[Rock(p)] \in Pair /\ vault[Rock(p)]["username"] = call.given["username"]
            BY <1>0, <1>1, <2>2, KeyTypes DEF KeepInv, NewLoginStored
        <3> QED BY <1>0, <2>4, <3>1, PairOf
    <2>8. NewLoginStored'
        BY <1>1, <2>3, <2>7 DEF NewLoginStored, Rock
    <2> QED BY <1>4, <2>4, <2>6, <2>8 DEF KeepInv
<1>11. CASE RestoreUsername
    <2>1. PICK failed \in BOOLEAN :
            StoreSecret(Rock(p), "username", call.old["username"], failed)
        BY <1>11 DEF RestoreUsername
    <2>2. /\ At("restore_username") /\ p \in Profiles /\ ack' = ack
          /\ call.old["username"] \in Secret /\ "username" \in Fields
        BY <1>0, <1>1, <1>11 DEF RestoreUsername, CallWellFormed, Fields
    <2>3. call'.step = "restore_password" /\ call'.old = call.old
        BY <1>0, <1>11 DEF RestoreUsername, Call
    <2>4. /\ Spend(failed) /\ OlderGone' /\ AcknowledgedLoginIsKept'
          /\ ~failed => vault'[Rock(p)] = [vault[Rock(p)] EXCEPT !["username"] = call.old["username"]]
        BY <1>8, <2>1, <2>2, <2>3
    <2>5. Acked => Restorable /\ NoFaultLeft
        BY <1>1, <2>2 DEF KeepInv, ReplacedOrRestorable
    <2>6. Acked => vault'[Rock(p)]["username"] = ack[p] /\ NoFaultLeft'
        <3>1. vault[Rock(p)] \in [Fields -> Secret]
            BY <1>0, <2>2, KeyTypes DEF Pair
        <3>2. Restorable => call.old["username"] = ack[p]
            BY <2>2 DEF Whole
        <3> QED BY <1>6, <2>2, <2>4, <2>5, <3>1, <3>2
    <2>7. ReplacedOrRestorable'
        BY <1>1, <2>2, <2>3, <2>5, <2>6 DEF ReplacedOrRestorable, Rock
    <2>8. NewLoginStored'
        BY <2>3 DEF NewLoginStored
    <2> QED BY <1>4, <2>4, <2>7, <2>8 DEF KeepInv
<1>12. CASE RestorePassword
    <2>1. PICK failed \in BOOLEAN :
            StoreSecret(Rock(p), "password", call.old["password"], failed)
        BY <1>12 DEF RestorePassword
    <2>2. /\ At("restore_password") /\ p \in Profiles /\ ack' = ack
          /\ call.old["password"] \in Secret /\ "password" \in Fields
        BY <1>0, <1>1, <1>12 DEF RestorePassword, CallWellFormed, Fields
    <2>3. call'.step = "done"
        BY <1>0, <1>12 DEF RestorePassword, Call
    <2>4. Acked => vault'[Rock(p)] = Whole(ack[p])
        <3>1. Acked => /\ Restorable /\ NoFaultLeft
                       /\ vault[Rock(p)]["username"] = ack[p]
            BY <1>1, <2>2 DEF KeepInv, ReplacedOrRestorable
        <3>2. Acked => ~failed
            BY <1>6, <2>1, <2>2, <3>1 DEF StoreSecret
        <3>3. ~failed => vault'[Rock(p)] = [vault[Rock(p)] EXCEPT !["password"] = call.old["password"]]
            BY <1>8, <2>1, <2>2
        <3>4. Restorable => call.old["username"] = ack[p]
            BY <2>2 DEF Whole, Fields
        <3>5. vault[Rock(p)] \in Pair
            BY <1>0, <2>2, KeyTypes
        <3> QED BY <1>0, <3>1, <3>2, <3>3, <3>4, <3>5, PairOf
    <2>5. OlderGone' /\ AcknowledgedLoginIsKept'
        BY <1>8, <2>1, <2>2, <2>4
    <2>6. ReplacedOrRestorable' /\ NewLoginStored'
        BY <2>3 DEF ReplacedOrRestorable, NewLoginStored
    <2> QED BY <1>4, <2>5, <2>6 DEF KeepInv
(* Clearing the older records decides whether the new login is             *)
(* acknowledged or the one before is put back.                             *)
<1>13. CASE ConfigureClearLegacy
    <2> DEFINE keys == LegacyKeys(p)
    <2>1. PICK failed \in BOOLEAN :
            /\ ClearSecrets(keys, failed)
            /\ failed => Goto("restore_username") /\ ack' = ack
            /\ ~failed => /\ ack' = [ack EXCEPT ![p] = call.given["username"]]
                          /\ Return("ok")
        BY <1>13 DEF ConfigureClearLegacy
    <2>2. At("clear_legacy") /\ p \in Profiles /\ vault[Rock(p)] = call.given
        BY <1>0, <1>1, <1>13 DEF ConfigureClearLegacy, CallWellFormed, KeepInv, NewLoginStored
    <2>3. /\ Spend(failed)
          /\ ~failed => \A k \in keys : vault'[k] = Blank
          /\ \A q \in Profiles : vault'[Rock(q)] = vault[Rock(q)]
          /\ \A q \in Profiles : \A k \in LegacyKeys(q) : vault[k] = Blank => vault'[k] = Blank
        <3>1. /\ keys \subseteq Keys /\ \A q \in Profiles : Rock(q) \in Keys \ keys
              /\ \A q \in Profiles : LegacyKeys(q) \subseteq Keys
            BY <2>2, KeyTypes DEF LegacyKeys, Rock, Magnus, MagnusAt
        <3>2. Spend(failed)
            BY <2>1 DEF ClearSecrets
        <3> HIDE DEF keys
        <3>3. /\ ~failed => \A k \in keys \cap Keys : vault'[k] = Blank
              /\ \A k \in Keys \ keys : vault'[k] = vault[k]
              /\ \A k \in Keys : vault[k] = Blank => vault'[k] = Blank
            BY <1>0, <2>1, ClearEffects
        <3> QED BY <3>1, <3>2, <3>3
    <2>4. call'.step = IF failed THEN "restore_username" ELSE "done"
        BY <1>0, <2>1 DEF Call
    <2>5. NewLoginStored'
        BY <2>4 DEF NewLoginStored
    <2>6. CASE failed
        <3>1. ack' = ack /\ call'.old = call.old
            BY <1>0, <2>1, <2>6 DEF Call
        <3>2. AcknowledgedLoginIsKept' /\ OlderGone'
            BY <1>2, <1>3, <2>3, <2>4, <2>6, <3>1
        <3>3. Acked => Restorable \/ NoFaultLeft
            BY <1>1, <2>2 DEF KeepInv, ReplacedOrRestorable
        <3>4. ReplacedOrRestorable'
            BY <1>1, <1>5, <1>6, <2>3, <2>4, <2>6, <3>1, <3>3 DEF ReplacedOrRestorable
        <3> QED BY <1>4, <2>5, <3>2, <3>4 DEF KeepInv
    <2>7. CASE ~failed
        <3>1. PICK l \in Logins : call.given = Whole(l)
            BY <1>0, <1>1 DEF CallWellFormed
        <3>2. call.given["username"] = l
            BY <3>1 DEF Whole, Fields
        <3>3. ack' = [ack EXCEPT ![p] = l]
            BY <2>1, <2>7, <3>2
        <3>4. ack'[p] = l /\ \A q \in Profiles : q # p => ack'[q] = ack[q]
            BY <1>0, <2>2, <3>3
        <3>5. AcknowledgedLoginIsKept'
            BY <1>2, <2>2, <2>3, <3>1, <3>4
        <3>6. OlderGone'
            BY <2>3, <2>7, <3>4 DEF KeepInv, OlderGone, LegacyKeys, Magnus, MagnusAt
        <3>7. ReplacedOrRestorable'
            BY <2>4, <2>7 DEF ReplacedOrRestorable
        <3> QED BY <1>4, <2>5, <3>5, <3>6, <3>7 DEF KeepInv
    <2> QED BY <2>6, <2>7
<1> QED BY <1>7, <1>9, <1>10, <1>11, <1>12, <1>13

LEMMA KeepStep ==
    ASSUME MaxFaults <= 1, Inv, KeepInv, [Next]_vars
    PROVE  KeepInv'
<1> USE DEF At
<1>1. CASE UNCHANGED vars \/ Timer
    <2>1. UNCHANGED <<vault, profile_id, call, faults, ack>>
        BY <1>1 DEF vars, Timer, TimerElapses, ExpireCachedCookie
    <2> QED BY <2>1 DEF KeepInv, AcknowledgedLoginIsKept, Replacing, ReplacedOrRestorable,
        Kept, NoFaultLeft, NewLoginStored, OlderGone, OnlyOlderLoginsMove,
        LegacyKeys, Rock, Magnus, MagnusAt
<1>2. CASE BeginCall \/ EndCall
    <2>1. /\ UNCHANGED <<vault, profile_id, ack>> /\ call'.step = "start"
          /\ call.op = "none" \/ At("done")
        BY <1>2 DEF BeginCall, EndCall, Begin, NoCall
    <2>2. \A q \in Profiles : ack[q] # NoSecret => Kept(q)
        BY <2>1 DEF KeepInv, AcknowledgedLoginIsKept, Replacing, Kept
    <2>3. AcknowledgedLoginIsKept' /\ ReplacedOrRestorable'
        BY <2>1, <2>2 DEF AcknowledgedLoginIsKept, ReplacedOrRestorable, Kept, Rock
    <2>4. NewLoginStored' /\ OlderGone' /\ OnlyOlderLoginsMove'
        BY <2>1 DEF KeepInv, NewLoginStored, OlderGone, OnlyOlderLoginsMove,
            LegacyKeys, Magnus, MagnusAt
    <2> QED BY <2>3, <2>4 DEF KeepInv
<1>3. CASE Crash
    <2>1. /\ vault' = vault /\ call'.op = "none" /\ call'.step = "start"
          /\ \A q \in Profiles : ack'[q] \in {ack[q], NoSecret}
          /\ \A q \in Profiles : ack'[q] # NoSecret => ack'[q] = ack[q] /\ ~Replacing(q)
        <3>1. ack \in [Profiles -> Secret] /\ vault' = vault /\ call' = NoCall
            BY <1>3 DEF Crash, Inv, TypeOK
        <3>2. CASE Replacing(profile_id) /\ profile_id # NoProfile
            <4>1. ack' = [ack EXCEPT ![profile_id] = NoSecret]
                BY <1>3, <3>2 DEF Crash, Replacing
            <4>2. \A q \in Profiles : ack'[q] = IF q = profile_id THEN NoSecret ELSE ack[q]
                BY <3>1, <4>1
            <4> QED BY <3>1, <4>2 DEF NoCall, Replacing
        <3>3. CASE ~(Replacing(profile_id) /\ profile_id # NoProfile)
            <4>1. ack' = ack
                BY <1>3, <3>3 DEF Crash, Replacing
            <4> QED BY <3>1, <3>3, <4>1, ProfilesAssumption DEF NoCall, Replacing
        <3> QED BY <3>2, <3>3
    <2>2. AcknowledgedLoginIsKept'
        BY <2>1 DEF KeepInv, AcknowledgedLoginIsKept, Rock
    <2>3. ReplacedOrRestorable' /\ NewLoginStored' /\ OnlyOlderLoginsMove'
        BY <2>1 DEF ReplacedOrRestorable, NewLoginStored, OnlyOlderLoginsMove
    <2>4. OlderGone'
        BY <2>1 DEF KeepInv, OlderGone, LegacyKeys, Magnus, MagnusAt
    <2> QED BY <2>2, <2>3, <2>4 DEF KeepInv
<1>4. CASE Method
    BY <1>4, KeepMigration, KeepConfigure, KeepRemoval DEF Method
<1> QED BY <1>1, <1>2, <1>3, <1>4 DEF Next

LEMMA AlwaysKeeps ==
    ASSUME MaxFaults <= 1
    PROVE  Spec => []KeepInv
<1>1. Init => KeepInv
    BY DEF Init, NoCall, KeepInv, AcknowledgedLoginIsKept, ReplacedOrRestorable,
        NewLoginStored, OlderGone, OnlyOlderLoginsMove, At
<1>2. Inv /\ KeepInv /\ [Next]_vars => KeepInv'
    BY KeepStep
<1> QED BY <1>1, <1>2, Typed, PTL DEF Spec

(* While at most one secret-tool process fails in a call, a login that     *)
(* configure acknowledged is the saved login until the user replaces or    *)
(* removes it, through failed replacements, migrations and restarts.       *)
THEOREM LoginKept ==
    ASSUME MaxFaults <= 1
    PROVE  Spec => []AcknowledgedLoginIsKept
<1>1. KeepInv => AcknowledgedLoginIsKept
    BY DEF KeepInv
<1> QED BY <1>1, AlwaysKeeps, PTL
-----------------------------------------------------------------------------
(* The contract.  SavedLogins sees, per profile, what a pair of records    *)
(* amounts to and whether an older record is left.                         *)
SavedNow == [p \in Profiles |-> SavedOf(vault[Rock(p)])]
OlderNow == [p \in Profiles |-> vault[Magnus(p)] # Blank]
ContractState == Logins \cup {NoSecret, Damaged}

LEMMA SavedTypes ==
    ASSUME NEW pair \in Pair
    PROVE  SavedOf(pair) \in ContractState
<1>1. ASSUME NEW l \in Logins, pair = Whole(l)
      PROVE  pair["username"] \in Logins
    BY <1>1 DEF Whole, Fields
<1> QED BY <1>1 DEF SavedOf, ContractState

LEMMA SavedWhole ==
    ASSUME NEW l \in Logins
    PROVE  SavedOf(Whole(l)) = l
<1>1. l # NoSecret /\ Whole(l)["username"] = l /\ Blank["username"] = NoSecret
    BY LoginsAssumption DEF Whole, Blank, Fields
<1>2. Whole(l) # Blank
    BY <1>1
<1> QED BY <1>1, <1>2 DEF SavedOf

LEMMA SavedComplete ==
    ASSUME NEW pair \in Pair, Complete(pair)
    PROVE  SavedOf(pair) # NoSecret
<1>1. "username" \in Fields /\ Blank["username"] = NoSecret
    BY DEF Blank, Whole, Fields
<1>2. pair["username"] # NoSecret /\ pair # Blank
    BY <1>1 DEF Complete
<1> QED BY <1>2, LoginsAssumption DEF SavedOf

(* Clearing some of the records of a pair never makes it another login.    *)
LEMMA SavedCleared ==
    ASSUME vault \in [Keys -> Pair], NEW p \in Profiles, NEW keys, NEW failed \in BOOLEAN,
           ClearSecrets(keys, failed)
    PROVE  SavedOf(vault'[Rock(p)]) \in {SavedOf(vault[Rock(p)]), NoSecret, Damaged}
<1> DEFINE old == vault[Rock(p)]
           new == vault'[Rock(p)]
<1>1. Rock(p) \in Keys /\ old \in Pair
    BY KeyTypes
<1>2. \A f \in Fields : new[f] \in {old[f], NoSecret}
    <2>1. PICK gone \in SUBSET (keys \X Fields) :
            vault' = [k \in Keys |-> [f \in Fields |->
                        IF <<k, f>> \in gone THEN NoSecret ELSE vault[k][f]]]
        BY DEF ClearSecrets
    <2>2. new = [f \in Fields |-> IF <<Rock(p), f>> \in gone THEN NoSecret ELSE old[f]]
        BY <1>1, <2>1
    <2> QED BY <2>2
<1>3. ASSUME NEW l \in Logins, new = Whole(l)
      PROVE  SavedOf(new) = SavedOf(old)
    <2>1. \A f \in Fields : new[f] = l /\ l # NoSecret
        BY <1>3, LoginsAssumption DEF Whole
    <2>2. \A f \in Fields : old[f] = l
        BY <1>2, <2>1
    <2>3. old = Whole(l)
        BY <1>1, <2>2 DEF Pair, Whole
    <2> QED BY <1>3, <2>3
<1>4. ASSUME \A l \in Logins : new # Whole(l)
      PROVE  SavedOf(new) \in {NoSecret, Damaged}
    BY <1>4 DEF SavedOf
<1> QED BY <1>3, <1>4

(* How a change of the records and of the call looks to SavedLogins.       *)
LEMMA ContractSave ==
    ASSUME NEW p \in Profiles, NEW s, NEW o \in BOOLEAN,
           \A q \in Profiles \ {p} : /\ vault'[Rock(q)] = vault[Rock(q)]
                                     /\ vault'[Magnus(q)] = vault[Magnus(q)],
           s = SavedOf(vault'[Rock(p)]),
           o <=> vault'[Magnus(p)] # Blank
    PROVE  Contract!Save(p, s, o)
<1>1. SavedNow' = [SavedNow EXCEPT ![p] = s]
    <2>1. ASSUME NEW q \in Profiles
          PROVE  SavedOf(vault'[Rock(q)]) = IF q = p THEN s ELSE SavedOf(vault[Rock(q)])
        BY <2>1
    <2> QED BY <2>1 DEF SavedNow
<1>2. OlderNow' = [OlderNow EXCEPT ![p] = o]
    <2>1. ASSUME NEW q \in Profiles
          PROVE  (vault'[Magnus(q)] # Blank) = IF q = p THEN o ELSE vault[Magnus(q)] # Blank
        BY <2>1
    <2> QED BY <2>1 DEF OlderNow
<1> QED BY <1>1, <1>2 DEF Contract!Save, SavedNow, OlderNow

LEMMA ContractSame ==
    ASSUME \A q \in Profiles : vault'[Rock(q)] = vault[Rock(q)]
    PROVE  SavedNow' = SavedNow
BY DEF SavedNow

LEMMA ContractOlder ==
    ASSUME \A q \in Profiles : vault'[Magnus(q)] = vault[Magnus(q)]
    PROVE  OlderNow' = OlderNow
BY DEF OlderNow

LEMMA ContractCallGoes ==
    ASSUME call'.op = call.op, call'.profile = call.profile,
           call.op = "set_profile" \/ call'.given = call.given,
           ~At("done"), call'.step # "done"
    PROVE  CallOf(call)' = CallOf(call)
BY DEF CallOf, At

LEMMA ReturnedCall ==
    ASSUME NEW r, NEW l
    PROVE  [CallOf(call) EXCEPT !.done = TRUE, !.result = r, !.login = l]
             = [op |-> call.op, done |-> TRUE, profile |-> call.profile,
                login |-> l, result |-> r]
<1>1. PICK op, profile, done, login, result :
        /\ CallOf(call) = [op |-> op, done |-> done, profile |-> profile,
                           login |-> login, result |-> result]
        /\ op = call.op /\ profile = call.profile
    BY DEF CallOf
<1>2. PICK before : before = CallOf(call)
    OBVIOUS
<1>3. PICK after : after = [before EXCEPT !.done = TRUE, !.result = r, !.login = l]
    OBVIOUS
<1>4. before = [op |-> op, done |-> done, profile |-> profile,
                login |-> login, result |-> result]
    BY <1>1, <1>2
<1>5. after = [op |-> op, done |-> TRUE, profile |-> profile, login |-> l, result |-> r]
    BY <1>3, <1>4
<1>6. after = [CallOf(call) EXCEPT !.done = TRUE, !.result = r, !.login = l]
    BY <1>2, <1>3, Zenon
<1>7. after = [op |-> call.op, done |-> TRUE, profile |-> call.profile,
               login |-> l, result |-> r]
    BY <1>1, <1>5, Zenon
<1> QED BY <1>6, <1>7, Zenon

LEMMA ContractReturns ==
    ASSUME call \in Call, NEW r, Return(r)
    PROVE  Contract!Return(r, NoSecret)
<1>1. /\ call'.op = call.op /\ call'.profile = call.profile /\ call'.step = "done"
      /\ call'.result = r /\ call'.given = Blank
    BY DEF Return, Call
<1>2. Blank["username"] = NoSecret
    BY DEF Blank, Whole, Fields
<1>3. CallOf(call)' = [op |-> call.op, done |-> TRUE, profile |-> call.profile,
                       login |-> NoSecret, result |-> r]
    BY <1>1, <1>2 DEF CallOf
<1> QED BY <1>3, ReturnedCall, Zenon DEF Contract!Return

LEMMA ContractYields ==
    ASSUME call \in Call, call.op # "set_profile", NEW l \in Logins, Yield(l)
    PROVE  Contract!Return("ok", l)
<1>1. /\ call'.op = call.op /\ call'.profile = call.profile /\ call'.step = "done"
      /\ call'.result = "ok" /\ call'.given = Whole(l)
    BY DEF Yield, Call
<1>2. Whole(l)["username"] = l
    BY DEF Whole, Fields
<1>3. CallOf(call)' = [op |-> call.op, done |-> TRUE, profile |-> call.profile,
                       login |-> l, result |-> "ok"]
    BY <1>1, <1>2 DEF CallOf
<1> QED BY <1>3, ReturnedCall, Zenon DEF Contract!Return

LEMMA ContractRunning ==
    ASSUME ~At("done")
    PROVE  Contract!Running(call.op)
BY DEF Contract!Running, CallOf, At

(* While sign_out has the older records left to clear, the login is        *)
(* already forgotten.                                                      *)
SignedOut ==
    call.op = "sign_out" /\ At("clear_legacy") /\ profile_id # NoProfile
        => ack[profile_id] = NoSecret

LEMMA SignedOutStep == Inv /\ SignedOut /\ [Next]_vars => SignedOut'
<1> SUFFICES ASSUME Inv, SignedOut, [Next]_vars PROVE SignedOut'
    OBVIOUS
<1> USE DEF At, Goto, Return
<1>0. /\ CallWellFormed /\ call \in Call /\ ack \in [Profiles -> Secret]
      /\ profile_id \in Profiles \cup {NoProfile}
    BY DEF Inv, TypeOK
<1>1. CASE UNCHANGED vars \/ Timer
    <2>1. UNCHANGED <<call, profile_id, ack>>
        BY <1>1 DEF vars, Timer, TimerElapses, ExpireCachedCookie
    <2> QED BY <2>1 DEF SignedOut
<1>2. CASE SignOutCurrent
    <2>1. profile_id' = profile_id /\ (profile_id \in Profiles => ack'[profile_id] = NoSecret)
        BY <1>0, <1>2, ProfilesAssumption DEF SignOutCurrent
    <2> QED BY <1>0, <2>1 DEF SignedOut
<1>3. ASSUME call'.op # "sign_out" \/ call'.step # "clear_legacy"
      PROVE  SignedOut'
    BY <1>3 DEF SignedOut
<1>4. CASE BeginCall \/ EndCall \/ Crash
    <2>1. call'.step = "start"
        BY <1>4 DEF BeginCall, EndCall, Crash, Begin, NoCall
    <2> QED BY <1>3, <2>1
<1>5. CASE \/ SetProfile \/ MigrateLegacyCredentials \/ MigrateUsername
           \/ MigratePassword \/ MigrateCheck \/ MigrateUndo \/ MigrateClear \/ ClearProfile
    <2>1. call'.step # "clear_legacy"
        BY <1>0, <1>5 DEF Call, SetProfile, MigrateLegacyCredentials, MigrateUsername,
            MigratePassword, MigrateCheck, MigrateUndo, MigrateClear, ClearProfile
    <2> QED BY <1>3, <2>1
<1>6. CASE \/ ConfigureLogin \/ SaveUsername \/ SavePassword
           \/ ConfigureClearLegacy \/ RestoreUsername \/ RestorePassword
    <2>1. call'.op = "configure"
        BY <1>0, <1>6 DEF CallWellFormed, SaveSteps, Call, ConfigureLogin, SaveUsername,
            SavePassword, ConfigureClearLegacy, RestoreUsername, RestorePassword
    <2> QED BY <1>3, <2>1
<1>7. CASE \/ SignOutLegacy \/ RemoveProfileCredentials
           \/ AuthenticatedCookie \/ TestConnection \/ InvalidateAuthenticatedCookie
    <2>1. call'.step = "done"
        BY <1>0, <1>7, LoginEffect DEF Call, Inv, Yield, SignOutLegacy, RemoveProfileCredentials,
            AuthenticatedCookie, TestConnection, InvalidateAuthenticatedCookie
    <2> QED BY <1>3, <2>1
<1> QED BY <1>1, <1>2, <1>4, <1>5, <1>6, <1>7 DEF Next, Method

(* Every step of the session is a step of SavedLogins, or none.            *)
ContractStep == [Contract!Next]_(Contract!vars)

LEMMA ContractStutter ==
    ASSUME SavedNow' = SavedNow, OlderNow' = OlderNow, CallOf(call)' = CallOf(call),
           UNCHANGED <<profile_id, cookie, ack>>
    PROVE  ContractStep
BY DEF ContractStep, Contract!vars, SavedNow, OlderNow

LEMMA ContractInit == Init => Contract!Init
<1> SUFFICES ASSUME Init PROVE Contract!Init
    OBVIOUS
<1>1. SavedNow = [p \in Profiles |-> NoSecret]
    <2>1. \A p \in Profiles : SavedOf(vault[Rock(p)]) = NoSecret
        BY DEF Init, SavedOf
    <2> QED BY <2>1 DEF SavedNow
<1>2. OlderNow \in [Profiles -> BOOLEAN]
    BY DEF OlderNow
<1>3. CallOf(call) = Contract!NoCall
    <2>1. Blank["username"] = NoSecret
        BY DEF Blank, Whole, Fields
    <2> QED BY <2>1 DEF Init, NoCall, CallOf, Contract!NoCall
<1> QED BY <1>1, <1>2, <1>3 DEF Init, Contract!Init, SavedNow, OlderNow

(* Steps that no method makes.                                             *)
LEMMA ContractOutside ==
    ASSUME Inv, \/ UNCHANGED vars \/ BeginCall \/ EndCall \/ Timer \/ Crash
    PROVE  ContractStep
<1> USE DEF ContractStep, Contract!Next
<1>1. vault' = vault /\ SavedNow' = SavedNow /\ OlderNow' = OlderNow
    <2>1. vault' = vault
        BY DEF vars, BeginCall, EndCall, Timer, TimerElapses, ExpireCachedCookie, Crash
    <2> QED BY <2>1, ContractSame, ContractOlder
<1>2. CASE UNCHANGED vars
    BY <1>1, <1>2, ContractStutter DEF vars, CallOf
<1>3. CASE Timer
    <2>1. /\ UNCHANGED <<profile_id, ack>> /\ CallOf(call)' = CallOf(call)
          /\ cookie' = cookie \/ cookie' = NoCookie
        BY <1>3 DEF Timer, TimerElapses, ExpireCachedCookie, CallOf
    <2>2. CASE cookie' = NoCookie
        <3>1. Contract!Expire
            BY <1>1, <2>1, <2>2 DEF Contract!Expire, SavedNow, OlderNow
        <3> QED BY <3>1
    <2> QED BY <1>1, <2>1, <2>2, ContractStutter
<1>4. CASE EndCall
    <2>1. CallOf(call)' = Contract!NoCall
        <3>1. Blank["username"] = NoSecret
            BY DEF Blank, Whole, Fields
        <3> QED BY <1>4, <3>1 DEF EndCall, NoCall, CallOf, Contract!NoCall
    <2>2. CallOf(call).done /\ UNCHANGED <<profile_id, cookie, ack>>
        BY <1>4 DEF EndCall, At, CallOf, cookieVars
    <2>3. Contract!EndCall
        BY <1>1, <2>1, <2>2 DEF Contract!EndCall, SavedNow, OlderNow
    <2> QED BY <2>3
<1>5. CASE Crash
    <2>1. CallOf(call)' = Contract!NoCall
        <3>1. Blank["username"] = NoSecret
            BY DEF Blank, Whole, Fields
        <3> QED BY <1>5, <3>1 DEF Crash, NoCall, CallOf, Contract!NoCall
    <2>2. ack' = IF Contract!Running("configure") /\ profile_id # NoProfile
                   THEN [ack EXCEPT ![profile_id] = NoSecret] ELSE ack
        BY <1>5 DEF Crash, At, Contract!Running, CallOf
    <2>3. Contract!Crash
        BY <1>1, <1>5, <2>1, <2>2 DEF Crash, Contract!Crash, SavedNow, OlderNow
    <2> QED BY <2>3
<1>6. CASE BeginCall
    <2>1. ASSUME NEW op, NEW p, NEW l, Begin(op, p, l), op = "set_profile" => l = NoSecret
          PROVE  Contract!Begin(op, p, l)
        <3>1. call' = [op |-> op, step |-> "start", profile |-> p,
                       given |-> Whole(l), old |-> Blank, result |-> "none"]
            BY <2>1 DEF Begin
        <3>2. Whole(l)["username"] = l
            BY DEF Whole, Fields
        <3>3. CallOf(call)' = [op |-> op, done |-> FALSE, profile |-> p, login |-> l,
                               result |-> "none"]
            BY <2>1, <3>1, <3>2 DEF CallOf
        <3>4. CallOf(call).op = "none" \/ CallOf(call).done
            BY <2>1 DEF Begin, At, CallOf
        <3> QED BY <3>3, <3>4 DEF Contract!Begin
    <2>2. \/ \E p \in Profiles : Contract!Begin("set_profile", p, NoSecret)
          \/ \E p \in Profiles : Contract!Begin("remove_profile_credentials", p, NoSecret)
          \/ \E l \in Logins : Contract!Begin("configure", profile_id, l)
          \/ Contract!Begin("clear_profile", NoProfile, NoSecret)
          \/ \E op \in {"sign_out", "test_connection", "authenticated_cookie",
                        "invalidate_authenticated_cookie"} :
               Contract!Begin(op, profile_id, NoSecret)
        BY <1>6, <2>1 DEF BeginCall
    <2>3. UNCHANGED <<profile_id, cookie, ack>>
        BY <1>6 DEF BeginCall, cookieVars
    <2>4. Contract!BeginCall
        BY <1>1, <2>2, <2>3 DEF Contract!BeginCall, SavedNow, OlderNow
    <2> QED BY <2>4
<1> QED BY <1>2, <1>3, <1>4, <1>5, <1>6

(* A step of the migration: it changes the saved login only when none was  *)
(* acknowledged, and clears an older record only beside a newer pair.      *)
LEMMA ContractMoves ==
    ASSUME call.op = "set_profile", ~At("done"), profile_id = call.profile,
           UNCHANGED <<profile_id, cookie, ack>>,
           NEW s \in ContractState, NEW o \in BOOLEAN, Contract!Save(profile_id, s, o),
           ack[profile_id] # NoSecret => s = SavedNow[profile_id],
           o # OlderNow[profile_id] => ~o /\ s # NoSecret,
           CallOf(call)' = CallOf(call) \/ \E r \in {"ok", "error"} : Contract!Return(r, NoSecret)
    PROVE  ContractStep
<1>1. Contract!Running("set_profile") /\ CallOf(call).profile = profile_id
    BY DEF Contract!Running, CallOf, At
<1>2. Contract!Migrate
    BY <1>1 DEF Contract!Migrate, Contract!State, ContractState, SavedNow, OlderNow
<1> QED BY <1>2 DEF ContractStep, Contract!Next, Contract!Method

LEMMA ContractMigration ==
    ASSUME Inv, Inv', MigrationInv, KeepInv,
           \/ SetProfile \/ MigrateLegacyCredentials \/ MigrateUsername
           \/ MigratePassword \/ MigrateCheck \/ MigrateUndo \/ MigrateClear
    PROVE  ContractStep
<1> USE DEF At
<1>0. /\ CallWellFormed /\ call \in Call /\ vault \in [Keys -> Pair] /\ vault' \in [Keys -> Pair]
      /\ call.given \in Pair /\ \A f \in Fields : call.given[f] \in Secret
    BY DEF Inv, TypeOK, Call, Pair
<1>1. CASE SetProfile
    <2>1. vault' = vault /\ ack' = ack /\ call.op = "set_profile" /\ call.step = "start"
          /\ profile_id' = call.profile
        BY <1>1 DEF SetProfile
    <2>2. SavedNow' = SavedNow /\ OlderNow' = OlderNow
        BY <2>1, ContractSame, ContractOlder
    <2>3. CallOf(call)' = CallOf(call)
        <3>1. call'.op = call.op /\ call'.profile = call.profile /\ call'.step = "migrate"
            BY <1>0, <1>1 DEF SetProfile, Goto, Call
        <3> QED BY <2>1, <3>1, ContractCallGoes
    <2>4. cookie' = IF call.profile = profile_id THEN cookie ELSE NoCookie
        BY <1>1, CookieEffects DEF SetProfile, cookieVars
    <2>5. Contract!Running("set_profile") /\ CallOf(call).profile = call.profile
        BY <2>1 DEF Contract!Running, CallOf
    <2>6. Contract!SetProfile
        BY <2>1, <2>2, <2>3, <2>4, <2>5 DEF Contract!SetProfile, SavedNow, OlderNow
    <2> QED BY <2>6 DEF ContractStep, Contract!Next, Contract!Method
<1>2. ASSUME ~SetProfile
      PROVE  /\ call.op = "set_profile" /\ call.step # "done" /\ profile_id = call.profile
             /\ profile_id \in Profiles /\ UNCHANGED <<profile_id, cookie, ack>>
             /\ call'.op = call.op /\ call'.profile = call.profile
    <2>1. call.step \in MigrateSteps /\ UNCHANGED <<profile_id, cookie, ack>>
        BY <1>2 DEF MigrateSteps, MigrateLegacyCredentials, MigrateUsername, MigratePassword,
            MigrateCheck, MigrateUndo, MigrateClear, cookieVars
    <2>2. call.op = "set_profile" /\ profile_id = call.profile /\ profile_id \in Profiles
          /\ call.step # "done"
        BY <1>0, <2>1 DEF CallWellFormed, MigrateSteps
    <2>3. call'.op = call.op /\ call'.profile = call.profile
        <3>1. CASE MigrateLegacyCredentials
            BY <1>0, <3>1 DEF MigrateLegacyCredentials, Call, Goto, Return
        <3>2. CASE MigrateUsername \/ MigratePassword \/ MigrateCheck
            BY <1>0, <3>2 DEF MigrateUsername, MigratePassword, MigrateCheck, Call, Goto
        <3>3. CASE MigrateUndo \/ MigrateClear
            BY <1>0, <3>3 DEF MigrateUndo, MigrateClear, Call, Return
        <3> QED BY <1>2, <3>1, <3>2, <3>3
    <2> QED BY <2>1, <2>2, <2>3
<1>3. ASSUME ~SetProfile, NEW r \in {"ok", "error"}, Return(r)
      PROVE  \E q \in {"ok", "error"} : Contract!Return(q, NoSecret)
    BY <1>0, <1>3, ContractReturns
<1>4. ASSUME ~SetProfile, call'.step # "done"
      PROVE  CallOf(call)' = CallOf(call)
    BY <1>2, <1>4, ContractCallGoes
(* Steps that change no record.                                            *)
<1>5. ASSUME ~SetProfile, vault' = vault,
             call'.step # "done" \/ Return("ok") \/ Return("error")
      PROVE  ContractStep
    <2>1. SavedNow' = SavedNow /\ OlderNow' = OlderNow
        BY <1>5, ContractSame, ContractOlder
    <2>2. CASE call'.step # "done"
        BY <1>2, <1>4, <1>5, <2>1, <2>2, ContractStutter
    <2>3. CASE Return("ok") \/ Return("error")
        <3>1. PICK p \in Profiles : p = profile_id
            BY <1>2, <1>5
        <3>2. PICK s \in ContractState : s = SavedOf(vault[Rock(p)])
            BY <1>0, KeyTypes, SavedTypes
        <3>3. PICK o \in BOOLEAN : o <=> vault[Magnus(p)] # Blank
            OBVIOUS
        <3>4. Contract!Save(p, s, o)
            BY <1>5, <3>2, <3>3, ContractSave
        <3>5. s = SavedNow[p] /\ o = OlderNow[p]
            BY <3>2, <3>3 DEF SavedNow, OlderNow
        <3>6. \E q \in {"ok", "error"} : Contract!Return(q, NoSecret)
            BY <1>3, <1>5, <2>3
        <3> QED BY <1>2, <1>5, <3>1, <3>4, <3>5, <3>6, ContractMoves
    <2> QED BY <1>5, <2>2, <2>3
<1>6. CASE (MigrateLegacyCredentials \/ MigrateCheck) /\ ~SetProfile
    <2>1. vault' = vault
        BY <1>6 DEF MigrateLegacyCredentials, MigrateCheck
    <2>2. call'.step # "done" \/ Return("ok") \/ Return("error")
        BY <1>0, <1>6 DEF MigrateLegacyCredentials, MigrateCheck, Goto, Call
    <2> QED BY <1>5, <1>6, <2>1, <2>2
(* Steps that change the current pair of a profile that has no             *)
(* acknowledged login.                                                     *)
<1>7. ASSUME ~SetProfile, ack[profile_id] = NoSecret,
             \A k \in Keys : k # Rock(profile_id) => vault'[k] = vault[k],
             call'.step # "done" \/ Return("error")
      PROVE  ContractStep
    <2>1. PICK p \in Profiles : p = profile_id
        BY <1>2, <1>7
    <2>2. PICK s \in ContractState : s = SavedOf(vault'[Rock(p)])
        BY <1>0, KeyTypes, SavedTypes
    <2>3. PICK o \in BOOLEAN : o <=> vault'[Magnus(p)] # Blank
        OBVIOUS
    <2>4. /\ \A q \in Profiles \ {p} : vault'[Rock(q)] = vault[Rock(q)]
          /\ \A q \in Profiles : vault'[Magnus(q)] = vault[Magnus(q)]
        BY <1>7, <2>1, KeyTypes DEF Rock, Magnus
    <2>5. Contract!Save(p, s, o)
        BY <2>2, <2>3, <2>4, ContractSave
    <2>6. o = OlderNow[p]
        BY <2>3, <2>4 DEF OlderNow
    <2>7. CallOf(call)' = CallOf(call) \/ \E r \in {"ok", "error"} : Contract!Return(r, NoSecret)
        BY <1>3, <1>4, <1>7
    <2> QED BY <1>2, <1>7, <2>1, <2>5, <2>6, <2>7, ContractMoves
<1>8. CASE (MigrateUsername \/ MigratePassword) /\ ~SetProfile
    <2>1. ASSUME NEW p \in Profiles, NEW field \in Fields, NEW value \in Secret,
                 NEW failed \in BOOLEAN, p = profile_id,
                 StoreSecret(Rock(p), field, value, failed)
          PROVE  \A k \in Keys : k # Rock(profile_id) => vault'[k] = vault[k]
        BY <1>0, <2>1, StoreElsewhere DEF Rock
    <2>2. \E p \in Profiles, field \in Fields, value \in Secret, failed \in BOOLEAN :
            p = profile_id /\ StoreSecret(Rock(p), field, value, failed)
        BY <1>0, <1>2, <1>8 DEF MigrateUsername, MigratePassword, Fields
    <2>3. ack[profile_id] = NoSecret /\ call'.step # "done"
        BY <1>0, <1>8 DEF MigrateUsername, MigratePassword, KeepInv, OnlyOlderLoginsMove, Goto, Call
    <2> QED BY <1>7, <1>8, <2>1, <2>2, <2>3
<1>9. CASE MigrateUndo /\ ~SetProfile
    <2>1. PICK failed \in BOOLEAN : ClearSecrets({Rock(profile_id)}, failed)
        BY <1>9 DEF MigrateUndo
    <2>2. \A k \in Keys \ {Rock(profile_id)} : vault'[k] = vault[k]
        BY <1>0, <2>1, ClearEffects
    <2>3. ack[profile_id] = NoSecret /\ Return("error")
        BY <1>9 DEF MigrateUndo, KeepInv, OnlyOlderLoginsMove
    <2> QED BY <1>7, <1>9, <2>2, <2>3
<1>10. CASE MigrateClear /\ ~SetProfile
    <2>1. PICK p \in Profiles : p = profile_id
        BY <1>2, <1>10
    <2> DEFINE keys == LegacyKeys(p)
    <2>2. PICK failed \in BOOLEAN : ClearSecrets(keys, failed) /\ Return(IF failed THEN "error" ELSE "ok")
        BY <1>10, <2>1 DEF MigrateClear
    <2>3. /\ \A q \in Profiles : Rock(q) \in Keys \ keys
          /\ \A q \in Profiles \ {p} : Magnus(q) \in Keys \ keys
          /\ Magnus(p) \in Keys
        BY KeyTypes DEF LegacyKeys, Rock, Magnus, MagnusAt
    <2> HIDE DEF keys
    <2>4. /\ \A q \in Profiles : vault'[Rock(q)] = vault[Rock(q)]
          /\ \A q \in Profiles \ {p} : vault'[Magnus(q)] = vault[Magnus(q)]
          /\ vault[Magnus(p)] = Blank => vault'[Magnus(p)] = Blank
        BY <1>0, <2>2, <2>3, ClearEffects
    <2>5. PICK s \in ContractState : s = SavedOf(vault'[Rock(p)])
        BY <1>0, KeyTypes, SavedTypes
    <2>6. PICK o \in BOOLEAN : o <=> vault'[Magnus(p)] # Blank
        OBVIOUS
    <2>7. Contract!Save(p, s, o)
        BY <2>4, <2>5, <2>6, ContractSave
    <2>8. s = SavedNow[p] /\ (o # OlderNow[p] => ~o)
        BY <2>4, <2>5, <2>6 DEF SavedNow, OlderNow
    <2>9. s # NoSecret
        <3>1. Complete(vault[Rock(p)]) /\ vault[Rock(p)] \in Pair
            BY <1>0, <1>10, <2>1, KeyTypes DEF MigrateClear, MigrationInv, Rock
        <3> QED BY <2>4, <2>5, <3>1, SavedComplete
    <2>10. \E r \in {"ok", "error"} : Contract!Return(r, NoSecret)
        BY <1>3, <1>10, <2>2
    <2> QED BY <1>2, <1>10, <2>1, <2>7, <2>8, <2>9, <2>10, ContractMoves
<1> QED BY <1>1, <1>6, <1>8, <1>9, <1>10

(* configure: until it returns anything may be saved; what it leaves is    *)
(* the new login when it says "ok" and the acknowledged one otherwise.     *)
LEMMA ContractConfigure ==
    ASSUME Inv, Inv', KeepInv, KeepInv',
           \/ ConfigureLogin \/ SaveUsername \/ SavePassword
           \/ ConfigureClearLegacy \/ RestoreUsername \/ RestorePassword
    PROVE  ContractStep
<1> USE DEF At
<1>0. /\ CallWellFormed /\ call \in Call /\ vault \in [Keys -> Pair] /\ vault' \in [Keys -> Pair]
      /\ ack \in [Profiles -> Secret] /\ call.given \in Pair /\ call.old \in Pair
      /\ \A f \in Fields : call.given[f] \in Secret /\ call.old[f] \in Secret
      /\ profile_id \in Profiles \cup {NoProfile}
    BY DEF Inv, TypeOK, Call, Pair
<1>1. /\ call.op = "configure" /\ call.step # "done" /\ profile_id' = profile_id
      /\ call'.op = call.op /\ call'.profile = call.profile
    BY <1>0 DEF CallWellFormed, SaveSteps, Call, Goto, Return, ConfigureLogin, SaveUsername,
        SavePassword, ConfigureClearLegacy, RestoreUsername, RestorePassword
<1>2. Contract!Running("configure")
    BY <1>1, ContractRunning
<1>3. call.step # "start" => profile_id \in Profiles
    BY <1>0, <1>1 DEF CallWellFormed
(* What is saved in the middle of configure.                               *)
<1>4. ASSUME NEW p \in Profiles, p = profile_id,
             \A q \in Profiles \ {p} : /\ vault'[Rock(q)] = vault[Rock(q)]
                                       /\ vault'[Magnus(q)] = vault[Magnus(q)],
             vault[Magnus(p)] = Blank => vault'[Magnus(p)] = Blank,
             call'.step # "done", call'.given = call.given, UNCHANGED <<cookie, ack>>
      PROVE  ContractStep
    <2>1. PICK s \in ContractState : s = SavedOf(vault'[Rock(p)])
        BY <1>0, KeyTypes, SavedTypes
    <2>2. PICK o \in BOOLEAN : o <=> vault'[Magnus(p)] # Blank
        OBVIOUS
    <2>3. Contract!Save(profile_id, s, o)
        BY <1>4, <2>1, <2>2, ContractSave
    <2>4. o => OlderNow[profile_id]
        BY <1>4, <2>2 DEF OlderNow
    <2>5. CallOf(call)' = CallOf(call) /\ profile_id # NoProfile
        BY <1>1, <1>4, ContractCallGoes, ProfilesAssumption
    <2>6. Contract!Replacing
        BY <1>1, <1>2, <1>4, <2>3, <2>4, <2>5
            DEF Contract!Replacing, Contract!State, ContractState, OlderNow
    <2> QED BY <2>6 DEF ContractStep, Contract!Next, Contract!Method
(* A configure that fails.                                                 *)
<1>5. ASSUME Return("error"), cookie' \in {cookie, NoCookie}, UNCHANGED ack,
             \A q \in Profiles : vault'[Magnus(q)] = vault[Magnus(q)],
             \A q \in Profiles : q # profile_id => vault'[Rock(q)] = vault[Rock(q)]
      PROVE  ContractStep
    <2>1. OlderNow' = OlderNow
        BY <1>5, ContractOlder
    <2>2. Contract!Return("error", NoSecret)
        BY <1>0, <1>5, ContractReturns
    <2>3. CASE profile_id = NoProfile
        <3>1. SavedNow' = SavedNow
            BY <1>5, <2>3, ProfilesAssumption, ContractSame
        <3>2. Contract!NotReplaced
            BY <1>1, <1>2, <1>5, <2>1, <2>2, <2>3, <3>1 DEF Contract!NotReplaced, SavedNow, OlderNow
        <3> QED BY <3>2 DEF ContractStep, Contract!Next, Contract!Method
    <2>4. CASE profile_id # NoProfile
        <3>1. PICK p \in Profiles : p = profile_id
            BY <1>0, <2>4
        <3>2. PICK s \in ContractState : s = SavedOf(vault'[Rock(p)])
            BY <1>0, KeyTypes, SavedTypes
        <3>3. PICK o \in BOOLEAN : o <=> vault'[Magnus(p)] # Blank
            OBVIOUS
        <3>4. SavedNow' = [SavedNow EXCEPT ![profile_id] = s]
            <4>1. Contract!Save(p, s, o)
                BY <1>5, <3>1, <3>2, <3>3, ContractSave
            <4> QED BY <3>1, <4>1 DEF Contract!Save, SavedNow
        <3>5. ack[profile_id] # NoSecret => s = ack[profile_id]
            <4>1. call'.step = "done"
                BY <1>0, <1>5 DEF Return, Call
            <4>2. ack[p] # NoSecret => vault'[Rock(p)] = Whole(ack[p])
                BY <1>5, <4>1 DEF KeepInv, AcknowledgedLoginIsKept, Replacing, Rock
            <4>3. ack[p] # NoSecret => ack[p] \in Logins
                BY <1>0 DEF Secret
            <4> QED BY <3>1, <3>2, <4>2, <4>3, SavedWhole
        <3>6. Contract!NotReplaced
            BY <1>1, <1>2, <1>5, <2>1, <2>2, <2>4, <3>4, <3>5
                DEF Contract!NotReplaced, Contract!State, ContractState, SavedNow, OlderNow
        <3> QED BY <3>6 DEF ContractStep, Contract!Next, Contract!Method
    <2> QED BY <2>3, <2>4
<1>6. CASE ConfigureLogin
    <2>1. vault' = vault /\ ack' = ack /\ cookie' = cookie
        BY <1>6 DEF ConfigureLogin, cookieVars
    <2>2. CASE call'.step = "done"
        <3>1. Return("error")
            BY <1>0, <1>6, <2>2 DEF ConfigureLogin, Call
        <3> QED BY <1>5, <2>1, <3>1
    <2>3. CASE call'.step # "done"
        <3>1. call'.given = call.given
            BY <1>0, <1>6, <2>3 DEF ConfigureLogin, Return, Call
        <3>2. CallOf(call)' = CallOf(call) /\ SavedNow' = SavedNow /\ OlderNow' = OlderNow
            BY <1>1, <2>1, <2>3, <3>1, ContractCallGoes, ContractSame, ContractOlder
        <3> QED BY <1>1, <2>1, <3>2, ContractStutter
    <2> QED BY <2>2, <2>3
<1>7. CASE SaveUsername \/ SavePassword \/ RestoreUsername \/ RestorePassword
    <2>1. PICK p \in Profiles : p = profile_id
        BY <1>3, <1>7 DEF SaveUsername, SavePassword, RestoreUsername, RestorePassword
    <2>2. ASSUME NEW field \in Fields, NEW value \in Secret,
                 NEW failed \in BOOLEAN, StoreSecret(Rock(p), field, value, failed)
          PROVE  \A k \in Keys : k # Rock(p) => vault'[k] = vault[k]
        BY <1>0, <2>2, StoreElsewhere
    <2>3. \E field \in Fields, value \in Secret, failed \in BOOLEAN :
            StoreSecret(Rock(p), field, value, failed)
        BY <1>0, <1>7, <2>1 DEF SaveUsername, SavePassword, RestoreUsername, RestorePassword, Fields
    <2>4. /\ \A q \in Profiles \ {p} : vault'[Rock(q)] = vault[Rock(q)]
          /\ \A q \in Profiles : vault'[Magnus(q)] = vault[Magnus(q)]
        BY <2>2, <2>3, KeyTypes DEF Rock, Magnus
    <2>5. CASE RestorePassword
        <3>1. Return("error") /\ ack' = ack /\ cookie' = NoCookie
            BY <2>5, CookieEffects DEF RestorePassword
        <3> QED BY <1>5, <2>1, <2>4, <3>1
    <2>6. CASE SaveUsername \/ SavePassword \/ RestoreUsername
        <3>1. UNCHANGED <<cookie, ack>> /\ call'.step # "done" /\ call'.given = call.given
            BY <1>0, <2>6 DEF SaveUsername, SavePassword, RestoreUsername, Goto, Call, cookieVars
        <3> QED BY <1>4, <2>1, <2>4, <3>1
    <2> QED BY <1>7, <2>5, <2>6
<1>8. CASE ConfigureClearLegacy
    <2>1. PICK p \in Profiles : p = profile_id
        BY <1>3, <1>8 DEF ConfigureClearLegacy
    <2> DEFINE keys == LegacyKeys(p)
    <2>2. PICK failed \in BOOLEAN :
            /\ ClearSecrets(keys, failed)
            /\ failed => Goto("restore_username") /\ UNCHANGED <<cookie, ack>>
            /\ ~failed => /\ StoreCookie([profile |-> p, login |-> call.given["username"]])
                          /\ ack' = [ack EXCEPT ![p] = call.given["username"]]
                          /\ Return("ok")
        BY <1>8, <2>1 DEF ConfigureClearLegacy, cookieVars
    <2>3. /\ \A q \in Profiles : Rock(q) \in Keys \ keys
          /\ \A q \in Profiles \ {p} : Magnus(q) \in Keys \ keys
          /\ Magnus(p) \in Keys \cap keys
        BY KeyTypes DEF LegacyKeys, Rock, Magnus, MagnusAt
    <2> HIDE DEF keys
    <2>4. /\ \A q \in Profiles : vault'[Rock(q)] = vault[Rock(q)]
          /\ \A q \in Profiles \ {p} : vault'[Magnus(q)] = vault[Magnus(q)]
          /\ vault[Magnus(p)] = Blank => vault'[Magnus(p)] = Blank
          /\ ~failed => vault'[Magnus(p)] = Blank
        BY <1>0, <2>2, <2>3, ClearEffects
    <2>5. CASE failed
        <3>1. call'.step # "done" /\ call'.given = call.given
            BY <1>0, <2>2, <2>5 DEF Goto, Call
        <3> QED BY <1>4, <2>1, <2>2, <2>4, <2>5, <3>1
    <2>6. CASE ~failed
        <3>1. PICK l \in Logins : call.given = Whole(l)
            BY <1>0, <1>1 DEF CallWellFormed
        <3>2. call.given["username"] = l
            BY <3>1 DEF Whole, Fields
        <3>3. vault'[Rock(p)] = Whole(l)
            BY <1>1, <1>8, <2>1, <2>4, <3>1 DEF ConfigureClearLegacy, KeepInv, NewLoginStored, Rock
        <3>4. Contract!Save(p, l, FALSE)
            <4>1. l = SavedOf(vault'[Rock(p)])
                BY <3>3, SavedWhole
            <4> QED BY <2>4, <2>6, <4>1, ContractSave
        <3>5. cookie' = [profile |-> profile_id, login |-> l]
              /\ ack' = [ack EXCEPT ![profile_id] = l]
            BY <2>1, <2>2, <2>6, <3>2, CookieEffects
        <3>6. Contract!Return("ok", NoSecret)
            BY <1>0, <2>2, <2>6, ContractReturns
        <3>7. CallOf(call).login = l /\ profile_id # NoProfile
            BY <1>1, <2>1, <3>2, ProfilesAssumption DEF CallOf
        <3>8. Contract!Replaced
            BY <1>1, <1>2, <2>1, <3>4, <3>5, <3>6, <3>7 DEF Contract!Replaced
        <3> QED BY <3>8 DEF ContractStep, Contract!Next, Contract!Method
    <2> QED BY <2>5, <2>6
<1> QED BY <1>6, <1>7, <1>8

(* Erasing a login.  Whatever clears fail, what is left is no other login, *)
(* and "ok" means that nothing is left.                                    *)
LEMMA ContractErases ==
    ASSUME vault \in [Keys -> Pair], vault' \in [Keys -> Pair],
           NEW p \in Profiles, NEW keys, NEW failed \in BOOLEAN, ClearSecrets(keys, failed),
           \A q \in Profiles \ {p} : Rock(q) \notin keys /\ Magnus(q) \notin keys,
           NEW r \in {"none", "ok", "error"},
           r = "ok" => vault'[Rock(p)] = Blank /\ vault'[Magnus(p)] = Blank,
           ack' = [ack EXCEPT ![p] = NoSecret]
    PROVE  Contract!Erase(p, r)
<1>1. /\ \A q \in Profiles \ {p} : vault'[Rock(q)] = vault[Rock(q)]
      /\ \A q \in Profiles \ {p} : vault'[Magnus(q)] = vault[Magnus(q)]
      /\ vault[Magnus(p)] = Blank => vault'[Magnus(p)] = Blank
    BY KeyTypes, ClearEffects
<1>2. PICK s \in {SavedNow[p], NoSecret, Damaged} : s = SavedOf(vault'[Rock(p)])
    BY SavedCleared DEF SavedNow
<1>3. PICK o \in BOOLEAN : o <=> vault'[Magnus(p)] # Blank
    OBVIOUS
<1>4. Contract!Save(p, s, o)
    BY <1>1, <1>2, <1>3, ContractSave
<1>5. o => OlderNow[p]
    BY <1>1, <1>3 DEF OlderNow
<1>6. r = "ok" => s = NoSecret /\ ~o
    BY <1>2, <1>3 DEF SavedOf
<1> QED BY <1>4, <1>5, <1>6 DEF Contract!Erase, SavedNow, OlderNow

LEMMA ContractErasing ==
    ASSUME Inv, Inv', SignedOut, RemovalInv',
           SignOutCurrent \/ SignOutLegacy \/ RemoveProfileCredentials
    PROVE  ContractStep
<1> USE DEF At
<1>0. /\ CallWellFormed /\ call \in Call /\ vault \in [Keys -> Pair] /\ vault' \in [Keys -> Pair]
      /\ ack \in [Profiles -> Secret] /\ profile_id \in Profiles \cup {NoProfile}
    BY DEF Inv, TypeOK
<1>1. call.step # "done" /\ profile_id' = profile_id
    BY DEF SignOutCurrent, SignOutLegacy, RemoveProfileCredentials
<1>2. CASE SignOutCurrent
    <2>1. /\ call.op = "sign_out" /\ cookie' = cookie
          /\ call'.op = call.op /\ call'.profile = call.profile /\ call'.given = call.given
          /\ call'.step # "done"
        BY <1>0, <1>2 DEF SignOutCurrent, Goto, Call, cookieVars
    <2>2. CallOf(call)' = CallOf(call)
        BY <1>1, <2>1, ContractCallGoes
    <2>3. CASE profile_id = NoProfile
        <3>1. UNCHANGED <<vault, ack>>
            BY <1>2, <2>3 DEF SignOutCurrent
        <3>2. SavedNow' = SavedNow /\ OlderNow' = OlderNow
            BY <3>1, ContractSame, ContractOlder
        <3> QED BY <1>1, <2>1, <2>2, <3>1, <3>2, ContractStutter
    <2>4. CASE profile_id # NoProfile
        <3>1. PICK p \in Profiles : p = profile_id
            BY <1>0, <2>4
        <3> DEFINE keys == {Rock(p)}
        <3>2. PICK failed \in BOOLEAN : ClearSecrets(keys, failed)
            BY <1>2, <2>4, <3>1 DEF SignOutCurrent, Rock
        <3>3. \A q \in Profiles \ {p} : Rock(q) \notin keys /\ Magnus(q) \notin keys
            BY DEF Rock, Magnus
        <3>4. ack' = [ack EXCEPT ![p] = NoSecret]
            BY <1>2, <2>4, <3>1 DEF SignOutCurrent
        <3> HIDE DEF keys
        <3>5. Contract!Erase(p, "none")
            BY <1>0, <3>2, <3>3, <3>4, ContractErases
        <3>6. Contract!Running("sign_out")
            BY <1>1, <2>1, ContractRunning
        <3>7. Contract!SigningOut
            BY <1>1, <2>1, <2>2, <2>4, <3>1, <3>5, <3>6 DEF Contract!SigningOut
        <3> QED BY <3>7 DEF ContractStep, Contract!Next, Contract!Method
    <2> QED BY <2>3, <2>4
<1>3. CASE SignOutLegacy
    <2>1. call.op = "sign_out" /\ cookie' = NoCookie /\ ack' = ack
        BY <1>3, CookieEffects DEF SignOutLegacy
    <2>2. Contract!Running("sign_out")
        BY <1>1, <2>1, ContractRunning
    <2>3. CASE profile_id = NoProfile
        <3>1. vault' = vault /\ Return("ok")
            BY <1>3, <2>3 DEF SignOutLegacy
        <3>2. SavedNow' = SavedNow /\ OlderNow' = OlderNow
            BY <3>1, ContractSame, ContractOlder
        <3>3. Contract!Return("ok", NoSecret)
            BY <1>0, <3>1, ContractReturns
        <3>4. Contract!SignOut
            BY <1>1, <2>1, <2>2, <2>3, <3>2, <3>3 DEF Contract!SignOut, SavedNow, OlderNow
        <3> QED BY <3>4 DEF ContractStep, Contract!Next, Contract!Method
    <2>4. CASE profile_id # NoProfile
        <3>1. PICK p \in Profiles : p = profile_id
            BY <1>0, <2>4
        <3> DEFINE keys == LegacyKeys(p)
        <3>2. PICK failed \in BOOLEAN, r \in {"ok", "error"} : ClearSecrets(keys, failed) /\ Return(r)
            BY <1>3, <2>4, <3>1 DEF SignOutLegacy
        <3>3. \A q \in Profiles \ {p} : Rock(q) \notin keys /\ Magnus(q) \notin keys
            BY DEF LegacyKeys, Rock, Magnus, MagnusAt
        <3> HIDE DEF keys
        <3>4. ack' = [ack EXCEPT ![p] = NoSecret]
            <4>1. ack[p] = NoSecret
                BY <1>3, <2>1, <2>4, <3>1 DEF SignOutLegacy, SignedOut
            <4> QED BY <1>0, <2>1, <4>1
        <3>5. r = "ok" => vault'[Rock(p)] = Blank /\ vault'[Magnus(p)] = Blank
            <4>1. call'.step = "done" /\ call'.op = "sign_out" /\ call'.result = r
                BY <1>0, <2>1, <3>2 DEF Return, Call
            <4> QED BY <1>1, <2>4, <3>1, <4>1
                DEF RemovalInv, RemovalIsTruthful, LegacyKeys, Rock, Magnus, MagnusAt
        <3>6. Contract!Erase(p, r)
            BY <1>0, <3>2, <3>3, <3>4, <3>5, ContractErases
        <3>7. Contract!Return(r, NoSecret)
            BY <1>0, <3>2, ContractReturns
        <3>8. Contract!SignOut
            BY <1>1, <2>1, <2>2, <2>4, <3>1, <3>6, <3>7 DEF Contract!SignOut
        <3> QED BY <3>8 DEF ContractStep, Contract!Next, Contract!Method
    <2> QED BY <2>3, <2>4
<1>4. CASE RemoveProfileCredentials
    <2>1. call.op = "remove_profile_credentials"
        BY <1>4 DEF RemoveProfileCredentials
    <2>2. PICK p \in Profiles : p = call.profile
        BY <1>0, <2>1 DEF CallWellFormed
    <2> DEFINE keys == {Rock(p), Magnus(p)}
    <2>3. PICK failed \in BOOLEAN, r \in {"ok", "error"} : ClearSecrets(keys, failed) /\ Return(r)
        BY <1>4, <2>2 DEF RemoveProfileCredentials, Rock, Magnus
    <2>4. \A q \in Profiles \ {p} : Rock(q) \notin keys /\ Magnus(q) \notin keys
        BY DEF Rock, Magnus
    <2> HIDE DEF keys
    <2>5. ack' = [ack EXCEPT ![p] = NoSecret]
        BY <1>4, <2>2 DEF RemoveProfileCredentials
    <2>6. r = "ok" => vault'[Rock(p)] = Blank /\ vault'[Magnus(p)] = Blank
        <3>1. /\ call'.step = "done" /\ call'.op = call.op /\ call'.result = r
              /\ call'.profile = call.profile
            BY <1>0, <2>3 DEF Return, Call
        <3> QED BY <2>1, <2>2, <3>1 DEF RemovalInv, RemovalIsTruthful, Rock, Magnus
    <2>7. Contract!Erase(p, r)
        BY <1>0, <2>3, <2>4, <2>5, <2>6, ContractErases
    <2>8. Contract!Return(r, NoSecret) /\ Contract!Running("remove_profile_credentials")
        BY <1>0, <1>1, <2>1, <2>3, ContractReturns, ContractRunning
    <2>9. CallOf(call).profile = p
        BY <2>2 DEF CallOf
    <2>10. cookie' = IF p = profile_id THEN NoCookie ELSE cookie
        BY <1>4, <2>2, CookieEffects DEF RemoveProfileCredentials, cookieVars
    <2>11. Contract!RemoveProfileCredentials
        BY <1>1, <2>7, <2>8, <2>9, <2>10 DEF Contract!RemoveProfileCredentials
    <2> QED BY <2>11 DEF ContractStep, Contract!Next, Contract!Method
<1> QED BY <1>2, <1>3, <1>4

(* A session is the cached one or one of the saved login.                  *)
LEMMA ContractSession ==
    ASSUME Inv, Inv',
           \/ ClearProfile \/ AuthenticatedCookie \/ TestConnection
           \/ InvalidateAuthenticatedCookie
    PROVE  ContractStep
<1> USE DEF At
<1>0. /\ call \in Call /\ vault \in [Keys -> Pair] /\ cookie \in Cookie \cup {NoCookie}
      /\ profile_id \in Profiles \cup {NoProfile}
    BY DEF Inv, TypeOK
<1>1. UNCHANGED <<vault, ack>> /\ call.step # "done"
    BY DEF ClearProfile, AuthenticatedCookie, TestConnection, InvalidateAuthenticatedCookie
<1>2. SavedNow' = SavedNow /\ OlderNow' = OlderNow
    BY <1>1, ContractSame, ContractOlder
<1>3. CASE ClearProfile
    <2>1. Contract!Return("ok", NoSecret) /\ Contract!Running("clear_profile")
        BY <1>0, <1>1, <1>3, ContractReturns, ContractRunning DEF ClearProfile
    <2>2. cookie' = NoCookie /\ profile_id' = NoProfile
        BY <1>3, CookieEffects DEF ClearProfile
    <2>3. Contract!ClearProfile
        BY <1>1, <1>2, <2>1, <2>2 DEF Contract!ClearProfile, SavedNow, OlderNow
    <2> QED BY <2>3 DEF ContractStep, Contract!Next, Contract!Method
<1>4. CASE InvalidateAuthenticatedCookie
    <2>1. Contract!Return("ok", NoSecret) /\ Contract!Running("invalidate_authenticated_cookie")
        BY <1>0, <1>1, <1>4, ContractReturns, ContractRunning DEF InvalidateAuthenticatedCookie
    <2>2. cookie' = NoCookie /\ profile_id' = profile_id
        BY <1>4, CookieEffects DEF InvalidateAuthenticatedCookie
    <2>3. Contract!InvalidateAuthenticatedCookie
        BY <1>1, <1>2, <2>1, <2>2 DEF Contract!InvalidateAuthenticatedCookie, SavedNow, OlderNow
    <2> QED BY <2>3 DEF ContractStep, Contract!Next, Contract!Method
<1>5. CASE AuthenticatedCookie \/ TestConnection
    <2>1. /\ Contract!Running("authenticated_cookie") \/ Contract!Running("test_connection")
          /\ call.op # "set_profile" /\ profile_id' = profile_id
        BY <1>1, <1>5, ContractRunning DEF AuthenticatedCookie, TestConnection
    <2>2. ASSUME Contract!Reuse \/ Contract!LogIn
          PROVE  ContractStep
        <3>1. Contract!Session
            BY <1>1, <1>2, <2>1, <2>2 DEF Contract!Session, SavedNow, OlderNow
        <3> QED BY <3>1 DEF ContractStep, Contract!Next, Contract!Method
    <2>3. CASE call.op = "authenticated_cookie" /\ cookie # NoCookie
               /\ StoreCookie(cookie) /\ Yield(cookie.login)
        <3>1. cookie.login \in Logins
            BY <1>0, <2>3 DEF Cookie
        <3>2. Contract!Return("ok", cookie.login) /\ cookie' = cookie
            BY <1>0, <2>1, <2>3, <3>1, ContractYields, CookieEffects
        <3>3. CallOf(call).op = call.op
            BY DEF CallOf
        <3>4. Contract!Reuse
            BY <2>3, <3>2, <3>3 DEF Contract!Reuse
        <3> QED BY <2>2, <3>4
    <2>4. CASE ClearCookie /\ Return("error")
        <3>1. cookie' = NoCookie /\ Contract!Return("error", NoSecret)
            BY <1>0, <2>4, ContractReturns, CookieEffects
        <3>2. Contract!LogIn
            BY <3>1 DEF Contract!LogIn
        <3> QED BY <2>2, <3>2
    <2>5. ASSUME profile_id # NoProfile, NEW l \in Logins, Whole(l) \in Seen(Rock(profile_id)),
                 StoreCookie([profile |-> profile_id, login |-> l]), Yield(l)
          PROVE  ContractStep
        <3>1. PICK p \in Profiles : p = profile_id
            BY <1>0, <2>5
        <3>2. vault[Rock(p)] = Whole(l)
            <4>1. \A f \in Fields : Whole(l)[f] = l /\ l # NoSecret
                BY LoginsAssumption DEF Whole
            <4>2. \A f \in Fields : Whole(l)[f] \in {vault[Rock(p)][f], NoSecret}
                BY <2>5, <3>1 DEF Seen, Rock
            <4>3. \A f \in Fields : vault[Rock(p)][f] = l
                BY <4>1, <4>2
            <4>4. vault[Rock(p)] \in [Fields -> Secret]
                BY <1>0, KeyTypes DEF Pair
            <4> QED BY <4>3, <4>4 DEF Whole
        <3>3. SavedNow[profile_id] = l
            BY <3>1, <3>2, SavedWhole DEF SavedNow, Rock
        <3>4. Contract!Return("ok", l) /\ cookie' = [profile |-> profile_id, login |-> l]
            BY <1>0, <2>1, <2>5, ContractYields, CookieEffects
        <3>5. Contract!LogIn
            BY <2>5, <3>3, <3>4 DEF Contract!LogIn, SavedNow
        <3> QED BY <2>2, <3>5
    <2>6. CASE Login
        <3>1. \/ ClearCookie /\ Return("error")
              \/ /\ profile_id # NoProfile
                 /\ \E l \in Logins :
                        /\ Whole(l) \in Seen(Rock(profile_id))
                        /\ StoreCookie([profile |-> profile_id, login |-> l])
                        /\ Yield(l)
            BY <2>6 DEF Login, LogIn
        <3> QED BY <2>4, <2>5, <3>1
    <2> QED BY <1>5, <2>3, <2>6 DEF AuthenticatedCookie, TestConnection
<1> QED BY <1>3, <1>4, <1>5

(* The session implements SavedLogins: whatever one secret-tool failure    *)
(* per call, timer or crash comes in between, the broker sees a login      *)
(* saved, kept or erased.                                                  *)
THEOREM ContractImplemented ==
    ASSUME MaxFaults <= 1
    PROVE  Spec => KeepsContract
<1>1. Init => SignedOut /\ MigrationInv /\ RemovalInv
    BY DEF Init, NoCall, SignedOut, MigrationInv, RemovalInv, RemovalIsTruthful,
        RemovalProgress, At
<1>2. ASSUME Inv, MigrationInv, KeepInv, SignedOut, [Next]_vars, Inv', KeepInv', RemovalInv'
      PROVE  ContractStep
    BY <1>2, ContractOutside, ContractMigration, ContractConfigure, ContractErasing,
        ContractSession DEF Next, Method
<1>3. Inv /\ MigrationInv /\ KeepInv /\ SignedOut /\ [Next]_vars /\ Inv' /\ KeepInv' /\ RemovalInv'
        => [Contract!Next]_(Contract!vars)
    BY <1>2 DEF ContractStep
<1> QED BY <1>1, <1>3, ContractInit, Typed, AlwaysCookieSafe, AlwaysKeeps,
        RemovalStep, MigrationStep, SignedOutStep, PTL
    DEF Spec, KeepsContract, Contract!Spec
=============================================================================
