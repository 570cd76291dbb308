------------------------------ MODULE SavedLogins ------------------------------
(***************************************************************************)
(* What the Rock session promises to the broker: per profile a saved login *)
(* and perhaps the record of an older release, and at most one session     *)
(* cookie.  RockSession implements it while at most one Secret Service     *)
(* process fails in a call; ProfileLifecycle is built on it.               *)
(*                                                                         *)
(* A method may change the saved login of its profile several times before *)
(* it returns; only what holds at its return is promised.                  *)
(***************************************************************************)
EXTENDS Naturals

CONSTANTS
    Profiles,   \* the profile ids
    Logins,     \* username/password pairs a user may enter
    NoProfile,  \* the empty profile id
    NoSecret,   \* no saved login
    Damaged,    \* one record of a pair, or the records of two different logins
    NoCookie    \* the empty cookie

ASSUME ProfilesAssumption == NoProfile \notin Profiles
ASSUME LoginsAssumption == Logins \cap {NoSecret, Damaged} = {} /\ NoSecret # Damaged
ASSUME CookieAssumption == NoCookie \notin [profile : Profiles, login : Logins]

VARIABLES
    saved,      \* the saved login of a profile
    older,      \* a record of an older release is kept under its id
    profile_id, \* the selected profile
    cookie,     \* the cached cookie: who it was issued for
    call,       \* the method in progress
    ack         \* history: the login a profile was last told is saved

vars == <<saved, older, profile_id, cookie, call, ack>>

State == Logins \cup {NoSecret, Damaged}
Cookie == [profile : Profiles, login : Logins]
Ops == {"none", "set_profile", "clear_profile", "configure", "sign_out",
        "remove_profile_credentials", "test_connection",
        "authenticated_cookie", "invalidate_authenticated_cookie"}
Call == [op : Ops, done : BOOLEAN, profile : Profiles \cup {NoProfile},
         login : Logins \cup {NoSecret}, result : {"none", "ok", "error"}]
NoCall == [op |-> "none", done |-> FALSE, profile |-> NoProfile,
           login |-> NoSecret, result |-> "none"]

TypeOK ==
    /\ saved \in [Profiles -> State]
    /\ older \in [Profiles -> BOOLEAN]
    /\ profile_id \in Profiles \cup {NoProfile}
    /\ cookie \in Cookie \cup {NoCookie}
    /\ call \in Call
    /\ ack \in [Profiles -> Logins \cup {NoSecret}]

Init ==
    /\ saved = [p \in Profiles |-> NoSecret]
    /\ older \in [Profiles -> BOOLEAN]
    /\ profile_id = NoProfile
    /\ cookie = NoCookie
    /\ call = NoCall
    /\ ack = [p \in Profiles |-> NoSecret]
-----------------------------------------------------------------------------
Begin(op, p, l) ==
    /\ call.op = "none" \/ call.done
    /\ call' = [op |-> op, done |-> FALSE, profile |-> p, login |-> l,
                result |-> "none"]

BeginCall ==
    /\ \/ \E p \in Profiles : Begin("set_profile", p, NoSecret)
       \/ \E p \in Profiles : Begin("remove_profile_credentials", p, NoSecret)
       \/ \E l \in Logins : Begin("configure", profile_id, l)
       \/ Begin("clear_profile", NoProfile, NoSecret)
       \/ \E op \in {"sign_out", "test_connection", "authenticated_cookie",
                     "invalidate_authenticated_cookie"} :
            Begin(op, profile_id, NoSecret)
    /\ UNCHANGED <<saved, older, profile_id, cookie, ack>>

EndCall ==
    /\ call.done
    /\ call' = NoCall
    /\ UNCHANGED <<saved, older, profile_id, cookie, ack>>

Running(op) == call.op = op /\ ~call.done
Return(r, l) == call' = [call EXCEPT !.done = TRUE, !.result = r, !.login = l]
Save(p, s, o) ==
    /\ saved' = [saved EXCEPT ![p] = s]
    /\ older' = [older EXCEPT ![p] = o]
-----------------------------------------------------------------------------
SetProfile ==
    /\ Running("set_profile")
    /\ profile_id' = call.profile
    /\ cookie' = IF call.profile = profile_id THEN cookie ELSE NoCookie
    /\ UNCHANGED <<saved, older, call, ack>>

(* A login the user was told is saved is never replaced by an older one,   *)
(* and no older record is dropped unless there is a newer one.             *)
Migrate ==
    /\ Running("set_profile") /\ profile_id = call.profile
    /\ \E s \in State, o \in BOOLEAN :
        /\ ack[profile_id] # NoSecret => s = saved[profile_id]
        /\ o # older[profile_id] => ~o /\ s # NoSecret
        /\ Save(profile_id, s, o)
    /\ call' = call \/ \E r \in {"ok", "error"} : Return(r, NoSecret)
    /\ UNCHANGED <<profile_id, cookie, ack>>

ClearProfile ==
    /\ Running("clear_profile")
    /\ profile_id' = NoProfile
    /\ cookie' = NoCookie
    /\ Return("ok", NoSecret)
    /\ UNCHANGED <<saved, older, ack>>

Replacing ==
    /\ Running("configure") /\ profile_id # NoProfile
    /\ \E s \in State, o \in BOOLEAN :
        /\ o => older[profile_id]
        /\ Save(profile_id, s, o)
    /\ UNCHANGED <<profile_id, cookie, call, ack>>

Replaced ==
    /\ Running("configure") /\ profile_id # NoProfile
    /\ Save(profile_id, call.login, FALSE)
    /\ cookie' = [profile |-> profile_id, login |-> call.login]
    /\ ack' = [ack EXCEPT ![profile_id] = call.login]
    /\ Return("ok", NoSecret)
    /\ UNCHANGED profile_id

(* A login that is refused, or cannot be saved, leaves the one before.     *)
NotReplaced ==
    /\ Running("configure")
    /\ IF profile_id = NoProfile
         THEN UNCHANGED saved
         ELSE \E s \in State :
                /\ ack[profile_id] # NoSecret => s = ack[profile_id]
                /\ saved' = [saved EXCEPT ![profile_id] = s]
    /\ cookie' \in {cookie, NoCookie}
    /\ Return("error", NoSecret)
    /\ UNCHANGED <<older, profile_id, ack>>

(* Signing out and removal say "ok" only when nothing is left, and drop    *)
(* the cookie whatever they say.                                           *)
Erase(p, r) ==
    /\ \E s \in {saved[p], NoSecret, Damaged}, o \in BOOLEAN :
        /\ o => older[p]
        /\ r = "ok" => s = NoSecret /\ ~o
        /\ Save(p, s, o)
    /\ ack' = [ack EXCEPT ![p] = NoSecret]

SigningOut ==
    /\ Running("sign_out") /\ profile_id # NoProfile
    /\ Erase(profile_id, "none")
    /\ UNCHANGED <<profile_id, cookie, call>>

SignOut ==
    /\ Running("sign_out")
    /\ \E r \in {"ok", "error"} :
        /\ IF profile_id = NoProfile
             THEN r = "ok" /\ UNCHANGED <<saved, older, ack>>
             ELSE Erase(profile_id, r)
        /\ Return(r, NoSecret)
    /\ cookie' = NoCookie
    /\ UNCHANGED profile_id

RemoveProfileCredentials ==
    /\ Running("remove_profile_credentials")
    /\ \E r \in {"ok", "error"} : Erase(call.profile, r) /\ Return(r, NoSecret)
    /\ cookie' = IF call.profile = profile_id THEN NoCookie ELSE cookie
    /\ UNCHANGED profile_id
-----------------------------------------------------------------------------
(* A session is one of the saved login, or the cached one.                 *)
Reuse ==
    /\ call.op = "authenticated_cookie" /\ cookie # NoCookie
    /\ Return("ok", cookie.login)
    /\ UNCHANGED cookie

LogIn ==
    \/ /\ profile_id # NoProfile /\ saved[profile_id] \in Logins
       /\ cookie' = [profile |-> profile_id, login |-> saved[profile_id]]
       /\ Return("ok", saved[profile_id])
    \/ /\ cookie' = NoCookie
       /\ Return("error", NoSecret)

Session ==
    /\ Running("authenticated_cookie") \/ Running("test_connection")
    /\ Reuse \/ LogIn
    /\ UNCHANGED <<saved, older, profile_id, ack>>

InvalidateAuthenticatedCookie ==
    /\ Running("invalidate_authenticated_cookie")
    /\ cookie' = NoCookie
    /\ Return("ok", NoSecret)
    /\ UNCHANGED <<saved, older, profile_id, ack>>

(* An idle cookie may be dropped at any time.                              *)
Expire ==
    /\ cookie' = NoCookie
    /\ UNCHANGED <<saved, older, profile_id, call, ack>>

Crash ==
    /\ profile_id' = NoProfile
    /\ cookie' = NoCookie
    /\ call' = NoCall
    /\ ack' = IF Running("configure") /\ profile_id # NoProfile
                THEN [ack EXCEPT ![profile_id] = NoSecret]
                ELSE ack
    /\ UNCHANGED <<saved, older>>

Method ==
    \/ SetProfile \/ Migrate \/ ClearProfile
    \/ Replacing \/ Replaced \/ NotReplaced
    \/ SigningOut \/ SignOut \/ RemoveProfileCredentials
    \/ Session \/ InvalidateAuthenticatedCookie

Next == BeginCall \/ Method \/ EndCall \/ Expire \/ Crash

Spec == Init /\ [][Next]_vars
=============================================================================
