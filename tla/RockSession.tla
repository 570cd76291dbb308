------------------------------ MODULE RockSession ------------------------------
(***************************************************************************)
(* RockSessionProvider (rock_session.py): the saved Rock login of every    *)
(* profile in the desktop Secret Service and the one memory-only session   *)
(* cookie of the selected profile.                                         *)
(*                                                                         *)
(* The broker calls one method at a time; `call` is the method in          *)
(* progress.  A method that writes the Secret Service is split at every    *)
(* secret-tool process it runs, because the cookie's idle timer fires in a *)
(* thread of its own between two of them and the broker may die there;     *)
(* reading a pair, and clearing a group of records, are one step each.     *)
(***************************************************************************)
EXTENDS Naturals

CONSTANTS
    Profiles,   \* the profile ids
    Origins,    \* the Rock servers
    OriginOf,   \* the server a profile was created for
    Logins,     \* username/password pairs a user may enter
    NoProfile,  \* the empty profile id
    NoSecret,   \* what a lookup that finds nothing returns
    Damaged,    \* not a login: what SavedLogins calls an incomplete or mixed pair
    NoCookie,   \* the empty cookie
    MaxFaults   \* secret-tool failures in one method call

ASSUME ProfilesAssumption == NoProfile \notin Profiles
ASSUME OriginsAssumption == OriginOf \in [Profiles -> Origins]
ASSUME LoginsAssumption == Logins \cap {NoSecret, Damaged} = {} /\ NoSecret # Damaged
ASSUME FaultsAssumption == MaxFaults \in Nat
ASSUME CookieAssumption == NoCookie \notin [profile : Profiles, login : Logins]

VARIABLES
    vault,      \* Secret Service: a username and a password record per key
    profile_id, \* the selected profile; origin is that profile's
    cookie,     \* _cached_cookie: who it was issued for
    armed,      \* the timer of the present cookie has not elapsed
    callbacks,  \* elapsed timers that wait for _cache_lock
    call,       \* the method in progress
    faults,     \* secret-tool failures in this call so far
    ack         \* history: the login a profile was last told is saved

vars == <<vault, profile_id, cookie, armed, callbacks, call, faults, ack>>
cookieVars == <<cookie, armed, callbacks>>
-----------------------------------------------------------------------------
(* Secret Service records.  "rock" records are the current ones; "magnus"  *)
(* records were written by older releases, under the profile id or, in the *)
(* earliest one, under the origin.                                         *)

Fields == {"username", "password"}
Secret == Logins \cup {NoSecret}
Pair == [Fields -> Secret]
Whole(l) == [f \in Fields |-> l]
Blank == Whole(NoSecret)
Complete(pair) == \A f \in Fields : pair[f] # NoSecret

Rock(p) == <<"rock", p>>
Magnus(p) == <<"magnus", p>>
MagnusAt(o) == <<"magnus_origin", o>>
LegacyKeys(p) == {Magnus(p), MagnusAt(OriginOf[p])}
Keys == ({"rock", "magnus"} \X Profiles) \cup ({"magnus_origin"} \X Origins)

Cookie == [profile : Profiles, login : Logins]

Ops == {"none", "set_profile", "clear_profile", "configure", "sign_out",
        "remove_profile_credentials", "test_connection",
        "authenticated_cookie", "invalidate_authenticated_cookie"}
Steps == {"start", "migrate", "migrate_username", "migrate_password",
          "migrate_check", "migrate_undo", "migrate_clear",
          "save_username", "save_password", "restore_username",
          "restore_password", "clear_legacy", "clear_rock", "done"}
Results == {"none", "ok", "error"}
Call == [op : Ops, step : Steps, profile : Profiles \cup {NoProfile},
         given : Pair, old : Pair, result : Results]

NoCall == [op |-> "none", step |-> "start", profile |-> NoProfile,
           given |-> Blank, old |-> Blank, result |-> "none"]

TypeOK ==
    /\ vault \in [Keys -> Pair]
    /\ profile_id \in Profiles \cup {NoProfile}
    /\ cookie \in Cookie \cup {NoCookie}
    /\ armed \in BOOLEAN
    /\ callbacks \in SUBSET {"current", "stale"}
    /\ call \in Call
    /\ faults \in 0 .. MaxFaults
    /\ ack \in [Profiles -> Secret]

(* Older releases may have left records; the neutral ones do not exist yet. *)
Init ==
    /\ vault \in [Keys -> {Blank} \cup {Whole(l) : l \in Logins}]
    /\ \A p \in Profiles : vault[Rock(p)] = Blank
    /\ profile_id = NoProfile
    /\ cookie = NoCookie
    /\ armed = FALSE
    /\ callbacks = {}
    /\ call = NoCall
    /\ faults = 0
    /\ ack = [p \in Profiles |-> NoSecret]
-----------------------------------------------------------------------------
(* The cached cookie.  A new generation makes every waiting callback stale *)
(* and cancels the timer unless it has elapsed already.                    *)

NewGeneration == callbacks' = IF callbacks = {} THEN {} ELSE {"stale"}

(* Mutant: storing a cookie does not start a timer. *)
StoreCookie_NoTimer(c) ==
    /\ cookie' = c
    /\ armed' = armed
    /\ NewGeneration

StoreCookie(c) ==
    /\ cookie' = c
    /\ armed' = TRUE
    /\ NewGeneration

ClearCookie ==
    /\ cookie' = NoCookie
    /\ armed' = FALSE
    /\ NewGeneration

TimerElapses ==
    /\ armed
    /\ armed' = FALSE
    /\ callbacks' = callbacks \cup {"current"}
    /\ UNCHANGED <<vault, profile_id, cookie, call, faults, ack>>

(* Mutant: a callback does not compare its generation. *)
ExpireCachedCookie_AnyGeneration ==
    \E g \in callbacks :
        /\ callbacks' = callbacks \ {g}
        /\ cookie' = NoCookie
        /\ UNCHANGED <<vault, profile_id, armed, call, faults, ack>>

ExpireCachedCookie ==
    \E g \in callbacks :
        /\ callbacks' = callbacks \ {g}
        /\ cookie' = IF g = "current" THEN NoCookie ELSE cookie
        /\ UNCHANGED <<vault, profile_id, armed, call, faults, ack>>
-----------------------------------------------------------------------------
(* One secret-tool process.  A failure is counted; a store or a clear that *)
(* is reported as failed (a timeout) may still have taken effect.          *)

Spend(failed) ==
    /\ failed => faults < MaxFaults
    /\ faults' = IF failed THEN faults + 1 ELSE faults

(* What looking up both records of a key may return. *)
Seen(key) == {pair \in Pair : \A f \in Fields : pair[f] \in {vault[key][f], NoSecret}}

StoreSecret(key, field, value, failed) ==
    /\ Spend(failed)
    /\ \/ vault' = [vault EXCEPT ![key] = [@ EXCEPT ![field] = value]]
       \/ failed /\ vault' = vault

(* Clears both records of every key: all are tried, whatever the others    *)
(* do.  (Dying among them is a failure here, followed by Crash.)           *)
ClearSecrets(keys, failed) ==
    /\ Spend(failed)
    /\ \E gone \in SUBSET (keys \X Fields) :
        /\ ~failed => gone = keys \X Fields
        /\ vault' = [k \in Keys |-> [f \in Fields |->
                        IF <<k, f>> \in gone THEN NoSecret ELSE vault[k][f]]]

At(s) == call.step = s
Goto(s) == call' = [call EXCEPT !.step = s]
Return(r) == call' = [call EXCEPT !.step = "done", !.result = r,
                        !.given = Blank, !.old = Blank]
Yield(l) == call' = [call EXCEPT !.step = "done", !.result = "ok", !.given = Whole(l)]
-----------------------------------------------------------------------------
(* The caller: the broker calls one method, waits, and takes its result.   *)

Begin(op, p, l) ==
    /\ call.op = "none" \/ At("done")
    /\ call' = [op |-> op, step |-> "start", profile |-> p,
                given |-> Whole(l), old |-> Blank, result |-> "none"]
    /\ faults' = 0

BeginCall ==
    /\ \/ \E p \in Profiles : Begin("set_profile", p, NoSecret)
       \/ \E p \in Profiles : Begin("remove_profile_credentials", p, NoSecret)
       \/ \E l \in Logins : Begin("configure", profile_id, l)
       \/ Begin("clear_profile", NoProfile, NoSecret)
       \/ \E op \in {"sign_out", "test_connection", "authenticated_cookie",
                     "invalidate_authenticated_cookie"} :
            Begin(op, profile_id, NoSecret)
    /\ UNCHANGED <<vault, profile_id, cookieVars, ack>>

EndCall ==
    /\ At("done")
    /\ call' = NoCall
    /\ faults' = 0
    /\ UNCHANGED <<vault, profile_id, cookieVars, ack>>
-----------------------------------------------------------------------------
(* set_profile selects the profile, drops a cookie issued for another one  *)
(* and then moves its legacy records (migrate_legacy_credentials).         *)

(* Mutant: the cookie of the profile before is kept. *)
SetProfile_CookieKept ==
    /\ call.op = "set_profile" /\ At("start")
    /\ profile_id' = call.profile
    /\ Goto("migrate")
    /\ UNCHANGED <<vault, cookieVars, faults, ack>>

SetProfile ==
    /\ call.op = "set_profile" /\ At("start")
    /\ IF call.profile # profile_id THEN ClearCookie ELSE UNCHANGED cookieVars
    /\ profile_id' = call.profile
    /\ Goto("migrate")
    /\ UNCHANGED <<vault, faults, ack>>

(* Reads the current pair, then the two generations of legacy ones: the    *)
(* first complete pair is moved.  Each read may come back empty, and a     *)
(* pair that today's validation refuses (counted as a failure of the       *)
(* store) is left where it is.                                             *)
MigrateLegacyCredentials ==
    /\ At("migrate")
    /\ \E rock \in Seen(Rock(profile_id)), own \in Seen(Magnus(profile_id)),
          byOrigin \in Seen(MagnusAt(OriginOf[profile_id])), refused \in BOOLEAN :
        LET found == IF Complete(own) THEN own ELSE byOrigin IN
        /\ Spend(\/ refused
                 \/ rock # vault[Rock(profile_id)]
                 \/ own # vault[Magnus(profile_id)]
                 \/ byOrigin # vault[MagnusAt(OriginOf[profile_id])])
        /\ \/ Complete(rock) /\ Goto("migrate_clear")
           \/ ~Complete(rock) /\ ~Complete(found) /\ Return("ok")
           \/ ~Complete(rock) /\ Complete(found) /\ refused /\ Return("error")
           \/ /\ ~Complete(rock) /\ Complete(found) /\ ~refused
              /\ call' = [call EXCEPT !.step = "migrate_username", !.given = found]
    /\ UNCHANGED <<vault, profile_id, cookieVars, ack>>

MigrateUsername ==
    /\ At("migrate_username")
    /\ \E failed \in BOOLEAN :
        /\ StoreSecret(Rock(profile_id), "username", call.given["username"], failed)
        /\ Goto(IF failed THEN "migrate_undo" ELSE "migrate_password")
    /\ UNCHANGED <<profile_id, cookieVars, ack>>

(* Mutant: a password that was not stored is not noticed. *)
MigratePassword_Unchecked ==
    /\ At("migrate_password")
    /\ \E failed \in BOOLEAN :
        StoreSecret(Rock(profile_id), "password", call.given["password"], failed)
    /\ Goto("migrate_clear")
    /\ UNCHANGED <<profile_id, cookieVars, ack>>

MigratePassword ==
    /\ At("migrate_password")
    /\ \E failed \in BOOLEAN :
        /\ StoreSecret(Rock(profile_id), "password", call.given["password"], failed)
        /\ Goto(IF failed THEN "migrate_undo" ELSE "migrate_check")
    /\ UNCHANGED <<profile_id, cookieVars, ack>>

(* The copy is read back before the original is touched. *)
MigrateCheck ==
    /\ At("migrate_check")
    /\ \E rock \in Seen(Rock(profile_id)) :
        /\ Spend(rock # vault[Rock(profile_id)])
        /\ Goto(IF rock = call.given THEN "migrate_clear" ELSE "migrate_undo")
    /\ UNCHANGED <<vault, profile_id, cookieVars, ack>>

MigrateUndo ==
    /\ At("migrate_undo")
    /\ \E failed \in BOOLEAN : ClearSecrets({Rock(profile_id)}, failed)
    /\ Return("error")
    /\ UNCHANGED <<profile_id, cookieVars, ack>>

MigrateClear ==
    /\ At("migrate_clear")
    /\ \E failed \in BOOLEAN :
        /\ ClearSecrets(LegacyKeys(profile_id), failed)
        /\ Return(IF failed THEN "error" ELSE "ok")
    /\ UNCHANGED <<profile_id, cookieVars, ack>>

ClearProfile ==
    /\ call.op = "clear_profile" /\ At("start")
    /\ ClearCookie
    /\ profile_id' = NoProfile
    /\ Return("ok")
    /\ UNCHANGED <<vault, faults, ack>>
-----------------------------------------------------------------------------
(* configure: the new login must be accepted by the server before it       *)
(* replaces the saved one, and the saved one is put back when a later step *)
(* fails.  `accepted` is the server's answer.                              *)

ConfigureLogin ==
    /\ call.op = "configure" /\ At("start")
    /\ \E accepted \in BOOLEAN :
        IF accepted /\ profile_id # NoProfile
          THEN \E old \in Seen(Rock(profile_id)) :
                /\ Spend(old # vault[Rock(profile_id)])
                /\ call' = [call EXCEPT !.step = "save_username", !.old = old]
          ELSE Return("error") /\ UNCHANGED faults
    /\ UNCHANGED <<vault, profile_id, cookieVars, ack>>

SaveUsername ==
    /\ At("save_username")
    /\ \E failed \in BOOLEAN :
        /\ StoreSecret(Rock(profile_id), "username", call.given["username"], failed)
        /\ Goto(IF failed THEN "restore_username" ELSE "save_password")
    /\ UNCHANGED <<profile_id, cookieVars, ack>>

SavePassword ==
    /\ At("save_password")
    /\ \E failed \in BOOLEAN :
        /\ StoreSecret(Rock(profile_id), "password", call.given["password"], failed)
        /\ Goto(IF failed THEN "restore_username" ELSE "clear_legacy")
    /\ UNCHANGED <<profile_id, cookieVars, ack>>

(* The new cookie is kept only when no older record of this login is left. *)
ConfigureClearLegacy ==
    /\ call.op = "configure" /\ At("clear_legacy")
    /\ \E failed \in BOOLEAN :
        /\ ClearSecrets(LegacyKeys(profile_id), failed)
        /\ IF failed
             THEN /\ Goto("restore_username")
                  /\ UNCHANGED <<cookieVars, ack>>
             ELSE /\ StoreCookie([profile |-> profile_id,
                                  login |-> call.given["username"]])
                  /\ ack' = [ack EXCEPT ![profile_id] = call.given["username"]]
                  /\ Return("ok")
    /\ UNCHANGED profile_id

(* Storing back what was there, or clearing what was not; the outcome of   *)
(* either is not looked at.                                                *)
RestoreUsername ==
    /\ At("restore_username")
    /\ \E failed \in BOOLEAN :
        StoreSecret(Rock(profile_id), "username", call.old["username"], failed)
    /\ Goto("restore_password")
    /\ UNCHANGED <<profile_id, cookieVars, ack>>

(* Mutant: only the username is put back. *)
RestorePassword_Skipped ==
    /\ At("restore_password")
    /\ ClearCookie
    /\ Return("error")
    /\ UNCHANGED <<vault, profile_id, faults, ack>>

RestorePassword ==
    /\ At("restore_password")
    /\ \E failed \in BOOLEAN :
        StoreSecret(Rock(profile_id), "password", call.old["password"], failed)
    /\ ClearCookie
    /\ Return("error")
    /\ UNCHANGED <<profile_id, ack>>
-----------------------------------------------------------------------------
(* sign_out and remove_profile_credentials try every record, drop the      *)
(* cookie, and report success only when every clear was confirmed.         *)

SignOutCurrent ==
    /\ call.op = "sign_out" /\ At("start")
    /\ IF profile_id = NoProfile
         THEN UNCHANGED <<vault, faults, ack>> /\ Goto("clear_legacy")
         ELSE /\ \E failed \in BOOLEAN :
                   /\ ClearSecrets({Rock(profile_id)}, failed)
                   /\ call' = [call EXCEPT !.step = "clear_legacy",
                                 !.result = IF failed THEN "error" ELSE "none"]
              /\ ack' = [ack EXCEPT ![profile_id] = NoSecret]
    /\ UNCHANGED <<profile_id, cookieVars>>

(* Mutant: only the second group of clears is reported. *)
SignOutLegacy_Forgets ==
    /\ call.op = "sign_out" /\ At("clear_legacy") /\ profile_id # NoProfile
    /\ \E failed \in BOOLEAN :
        /\ ClearSecrets(LegacyKeys(profile_id), failed)
        /\ Return(IF failed THEN "error" ELSE "ok")
    /\ ClearCookie
    /\ UNCHANGED <<profile_id, ack>>

SignOutLegacy ==
    /\ call.op = "sign_out" /\ At("clear_legacy")
    /\ IF profile_id = NoProfile
         THEN UNCHANGED <<vault, faults>> /\ Return("ok")
         ELSE \E failed \in BOOLEAN :
                /\ ClearSecrets(LegacyKeys(profile_id), failed)
                /\ Return(IF failed \/ call.result = "error" THEN "error" ELSE "ok")
    /\ ClearCookie
    /\ UNCHANGED <<profile_id, ack>>

(* Mutant: a record that was not cleared is not reported. *)
RemoveProfileCredentials_AlwaysOk ==
    /\ call.op = "remove_profile_credentials" /\ At("start")
    /\ \E failed \in BOOLEAN :
        ClearSecrets({Rock(call.profile), Magnus(call.profile)}, failed)
    /\ Return("ok")
    /\ IF call.profile = profile_id THEN ClearCookie ELSE UNCHANGED cookieVars
    /\ ack' = [ack EXCEPT ![call.profile] = NoSecret]
    /\ UNCHANGED profile_id

RemoveProfileCredentials ==
    /\ call.op = "remove_profile_credentials" /\ At("start")
    /\ \E failed \in BOOLEAN :
        /\ ClearSecrets({Rock(call.profile), Magnus(call.profile)}, failed)
        /\ Return(IF failed THEN "error" ELSE "ok")
    /\ IF call.profile = profile_id THEN ClearCookie ELSE UNCHANGED cookieVars
    /\ ack' = [ack EXCEPT ![call.profile] = NoSecret]
    /\ UNCHANGED profile_id
-----------------------------------------------------------------------------
(* authenticated_cookie reuses a cookie that is not idle, which renews its *)
(* idle timer; otherwise it logs in with the saved pair.                   *)

(* Mutant: a username without a password counts as a saved login. *)
LogIn_HalfPair ==
    \E rock \in Seen(Rock(profile_id)) :
        /\ Spend(rock # vault[Rock(profile_id)])
        /\ StoreCookie([profile |-> profile_id, login |-> rock["username"]])
        /\ Return("ok")

LogIn ==
    \E rock \in Seen(Rock(profile_id)), accepted \in BOOLEAN :
        /\ Spend(rock # vault[Rock(profile_id)])
        /\ \/ /\ accepted
              /\ \E l \in Logins :
                    /\ rock = Whole(l)
                    /\ StoreCookie([profile |-> profile_id, login |-> l])
                    /\ Yield(l)
           \/ /\ ~accepted \/ rock \notin {Whole(l) : l \in Logins}
              /\ ClearCookie
              /\ Return("error")

Login ==
    IF profile_id = NoProfile
      THEN ClearCookie /\ Return("error") /\ UNCHANGED faults
      ELSE LogIn

AuthenticatedCookie ==
    /\ call.op = "authenticated_cookie" /\ At("start")
    /\ IF cookie # NoCookie /\ armed
         THEN StoreCookie(cookie) /\ Yield(cookie.login) /\ UNCHANGED faults
         ELSE Login
    /\ UNCHANGED <<vault, profile_id, ack>>

TestConnection ==
    /\ call.op = "test_connection" /\ At("start")
    /\ Login
    /\ UNCHANGED <<vault, profile_id, ack>>

InvalidateAuthenticatedCookie ==
    /\ call.op = "invalidate_authenticated_cookie" /\ At("start")
    /\ ClearCookie
    /\ Return("ok")
    /\ UNCHANGED <<vault, profile_id, faults, ack>>
-----------------------------------------------------------------------------
(* The broker process dies: only the Secret Service survives.  A call that *)
(* was changing a saved login leaves it in an unknown state.               *)
Crash ==
    /\ profile_id' = NoProfile
    /\ cookie' = NoCookie
    /\ armed' = FALSE
    /\ callbacks' = {}
    /\ call' = NoCall
    /\ faults' = 0
    /\ ack' = IF call.op = "configure" /\ profile_id # NoProfile /\ ~At("done")
                THEN [ack EXCEPT ![profile_id] = NoSecret]
                ELSE ack
    /\ UNCHANGED vault

Method ==
    \/ SetProfile \/ MigrateLegacyCredentials \/ MigrateUsername
    \/ MigratePassword \/ MigrateCheck \/ MigrateUndo \/ MigrateClear
    \/ ClearProfile
    \/ ConfigureLogin \/ SaveUsername \/ SavePassword \/ ConfigureClearLegacy
    \/ RestoreUsername \/ RestorePassword
    \/ SignOutCurrent \/ SignOutLegacy \/ RemoveProfileCredentials
    \/ AuthenticatedCookie \/ TestConnection \/ InvalidateAuthenticatedCookie

Timer == TimerElapses \/ ExpireCachedCookie

Next == BeginCall \/ Method \/ EndCall \/ Timer \/ Crash

Spec == Init /\ [][Next]_vars
-----------------------------------------------------------------------------
(* A cached cookie was issued to the selected profile: set_profile, sign   *)
(* out, removal and clear_profile never leave another profile's cookie for *)
(* the next request to pick up.                                            *)
CookieOfSelectedProfile == cookie # NoCookie => cookie.profile = profile_id

(* A cached cookie always has a timer that is still running or a callback  *)
(* of its own generation waiting: no order of storing, clearing and late   *)
(* callbacks leaves a cookie that nothing will expire.                     *)
CookieHasTimer == cookie # NoCookie => armed \/ "current" \in callbacks

(* A callback of an earlier generation never takes away the present        *)
(* cookie: while the broker's own thread does nothing, only a cookie that  *)
(* has been idle for the whole period is dropped.                          *)
TimerDropsOnlyIdleCookie ==
    [][armed /\ UNCHANGED <<call, profile_id>> => UNCHANGED cookie]_vars

(* sign_out and remove_profile_credentials say "ok" only when no record of *)
(* the profile is left, and drop its cookie whatever they say.             *)
RemovalIsTruthful ==
    At("done") =>
        /\ call.op = "sign_out" =>
            /\ cookie = NoCookie
            /\ call.result = "ok" /\ profile_id # NoProfile =>
                \A k \in LegacyKeys(profile_id) \cup {Rock(profile_id)} :
                    vault[k] = Blank
        /\ call.op = "remove_profile_credentials" =>
            /\ cookie # NoCookie => cookie.profile # call.profile
            /\ call.result = "ok" =>
                vault[Rock(call.profile)] = Blank /\ vault[Magnus(call.profile)] = Blank

(* A login that configure reported as saved stays the saved login, through *)
(* later failed replacements, profile switches, migrations and restarts,   *)
(* until a later configure succeeds, sign_out or removal is asked for, or  *)
(* the process dies while replacing it.  One secret-tool failure per call  *)
(* is tolerated (two can defeat the restore).                              *)
Replacing(p) == call.op = "configure" /\ profile_id = p /\ ~At("done")
AcknowledgedLoginIsKept ==
    \A p \in Profiles :
        ack[p] # NoSecret /\ ~Replacing(p) => vault[Rock(p)] = Whole(ack[p])

(* An older record is cleared during set_profile only when the selected    *)
(* profile has a complete current pair: no failure in the middle of the    *)
(* migration, nor a crash after it, loses the login.                       *)
MigrationKeepsALogin ==
    [][call.op = "set_profile" /\ ~At("start") /\ (\E k \in LegacyKeys(profile_id) : vault'[k] # vault[k])
         => Complete(vault'[Rock(profile_id)])]_vars
-----------------------------------------------------------------------------
(* The contract with the broker, as SavedLogins states it.                 *)

SavedOf(pair) ==
    IF pair = Blank THEN NoSecret
    ELSE IF \E l \in Logins : pair = Whole(l) THEN pair["username"]
    ELSE Damaged

CallOf(c) ==
    [op |-> c.op, done |-> c.step = "done", profile |-> c.profile,
     login |-> IF c.op = "set_profile" THEN NoSecret ELSE c.given["username"],
     result |-> IF c.step = "done" THEN c.result ELSE "none"]

Contract == INSTANCE SavedLogins WITH
    saved <- [p \in Profiles |-> SavedOf(vault[Rock(p)])],
    older <- [p \in Profiles |-> vault[Magnus(p)] # Blank],
    call <- CallOf(call)

(* Every method keeps the promises of SavedLogins while at most one        *)
(* secret-tool process fails in a call: whatever is interrupted, fails or  *)
(* expires in between, the broker sees a login saved, kept or erased.      *)
KeepsContract == Contract!Spec
=============================================================================
