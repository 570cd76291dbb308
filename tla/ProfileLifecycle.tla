--------------------------- MODULE ProfileLifecycle ---------------------------
(***************************************************************************)
(* The broker's profile operations (broker.py, broker_operations.py) over  *)
(* the profile file (profiles.py), the Rock session and the clients that   *)
(* send its cookie to a Rock server: personal_links, jobs, live (search)   *)
(* and magnus.  The session is taken at its contract, SavedLogins, which   *)
(* RockSession implements.                                                 *)
(*                                                                         *)
(* The broker's event loop runs one handler at a time; `job` is the one in *)
(* progress, which may wait for a session method (`call`).  A handler that *)
(* raises something handle() does not catch just ends: the client's        *)
(* connection is closed and no later line of the handler runs.             *)
(***************************************************************************)
EXTENDS SavedLogins, Sequences

CONSTANTS
    OriginOf,     \* the Rock server a profile was created for
    Clients,      \* those of "personal_links", "jobs", "live" and "magnus" modelled
    FileOutcomes  \* how a write of the profile file may end

(* "ok"; "refused": a ProfileError before anything is written; "lost": an  *)
(* OSError before anything is written; "half": profiles.json is replaced   *)
(* and then writing the instance pointer beside it (which only happens     *)
(* when a profile is active) raises OSError.                               *)
ASSUME ClientsAssumption ==
    Clients \subseteq {"personal_links", "jobs", "live", "magnus"}
ASSUME OutcomesAssumption ==
    FileOutcomes \subseteq {"ok", "refused", "lost", "half"}

VARIABLES
    rows,     \* profiles.json: the profiles, in the order they were added
    active,   \* profiles.json: activeProfileId
    current,  \* the broker's _active_profile_id and _origin
    at,       \* the profile whose server each client addresses
    held,     \* the session under which a client's drafts, results and
              \* registered items were obtained
    unsaved,  \* history: a write of the profile file ended half way, or failed
              \* while another change was taken back or had been made
    whole,    \* history: the last _activate_profile ran to its end
    job       \* the handler in progress

brokerVars == <<rows, active, unsaved, current, at, held, whole, job>>
allVars == <<vars, brokerVars>>
fileVars == <<rows, active, unsaved>>
sessionVars == <<saved, older, profile_id, cookie, ack>>

ResetFirst == Clients \cap {"personal_links", "jobs"}

Handlers == {"none", "profile_add", "rock_configure", "profile_switch",
             "profile_remove", "profile_credentials_update",
             "profile_sign_out", "profile_test", "request"}
JobSteps == {"down", "boot", "idle", "activate", "configure", "unwind",
             "unwind_select", "reactivate", "remove", "wait", "refused"}
Job == [op : Handlers, step : JobSteps, profile : Profiles \cup {NoProfile},
        previous : Profiles \cup {NoProfile}, login : Logins \cup {NoSecret},
        client : Clients \cup {"none"}]

Resting(s) == [op |-> "none", step |-> s, profile |-> NoProfile,
               previous |-> NoProfile, login |-> NoSecret, client |-> "none"]
Idle == job = Resting("idle")
Listed == {rows[i] : i \in DOMAIN rows}

BrokerTypeOK ==
    /\ rows \in Seq(Profiles)
    /\ active \in Profiles \cup {NoProfile}
    /\ current \in Profiles \cup {NoProfile}
    /\ at \in [Clients -> Profiles \cup {NoProfile}]
    /\ held \in [Clients -> Cookie \cup {NoCookie}]
    /\ {unsaved, whole} \subseteq BOOLEAN
    /\ job \in Job

Nobody == [c \in Clients |-> NoProfile]
Nothing == [c \in Clients |-> NoCookie]

(* A profile file of at most two profiles, written by an earlier run; they *)
(* may still have the records of older releases.                           *)
BrokerInit ==
    /\ Init
    /\ rows \in {<<>>} \cup {<<p>> : p \in Profiles} \cup (Profiles \X Profiles)
    /\ \A i, j \in DOMAIN rows : rows[i] = rows[j] => i = j
    /\ active \in IF rows = <<>> THEN {NoProfile} ELSE Listed
    /\ \A p \in Profiles \ Listed : ~older[p]
    /\ unsaved = FALSE
    /\ current = NoProfile
    /\ at = Nobody
    /\ held = Nothing
    /\ whole = TRUE
    /\ job = Resting("down")
-----------------------------------------------------------------------------
(* Handlers and the session methods they wait for.                         *)

Step(s) == job' = [job EXCEPT !.step = s]
Reply == job' = Resting("idle")
Returned(r) == call.done /\ call.result = r
Release == call' = NoCall

WriteFile(outcome, newRows, newActive) ==
    /\ outcome = "half" => newActive # NoProfile
    /\ unsaved' = \/ unsaved \/ outcome = "half"
                  \/ outcome # "ok" /\ job.step \in {"unwind", "unwind_select"}
    /\ IF outcome \in {"ok", "half"}
         THEN rows' = newRows /\ active' = newActive
         ELSE UNCHANGED <<rows, active>>

(* _activate_profile up to the session call, and what follows the call.    *)
Activate(p) ==
    /\ current' = p
    /\ at' = [c \in Clients |-> IF c \in ResetFirst \/ (p = NoProfile /\ c = "magnus")
                                  THEN p ELSE at[c]]
    /\ held' = [c \in Clients |-> IF c = "magnus" /\ p # NoProfile
                                    THEN held[c] ELSE NoCookie]
    /\ whole' = FALSE
    /\ IF p = NoProfile THEN Begin("clear_profile", p, NoSecret)
                        ELSE Begin("set_profile", p, NoSecret)

(* Mutant: search and Magnus are not told of the new server. *)
FinishActivation_Untold == whole' = TRUE /\ UNCHANGED <<at, held>>

(* magnus keeps what it has registered only for the profile it was told of *)
(* before (at a start it is told the server, not the profile).             *)
FinishActivation ==
    /\ whole' = TRUE
    /\ IF current = NoProfile
         THEN UNCHANGED <<at, held>>
         ELSE /\ at' = [c \in Clients |-> current]
              /\ \E kept \in BOOLEAN :
                    held' = [c \in Clients |->
                               IF c = "magnus" /\ kept /\ at[c] = current THEN held[c]
                               ELSE IF c \in {"magnus", "live"} THEN NoCookie ELSE held[c]]

(* Broker.__init__: a migration that fails is ignored. *)
Boot ==
    /\ job.step = "down"
    /\ current' = active
    /\ IF active = NoProfile
         THEN Reply /\ UNCHANGED call
         ELSE Step("boot") /\ Begin("set_profile", active, NoSecret)
    /\ UNCHANGED <<sessionVars, fileVars, at, held, whole>>

Booted ==
    /\ job.step = "boot" /\ call.done
    /\ at' = [c \in Clients |-> current]
    /\ Reply /\ Release
    /\ UNCHANGED <<sessionVars, fileVars, current, held, whole>>
-----------------------------------------------------------------------------
(* profile_add, and rock_configure while there is no profile: the profile  *)
(* is written and activated before its login is verified, and taken back   *)
(* when the login or the activation fails.  A fresh id stands for a uuid   *)
(* nothing refers to.                                                      *)

Fresh(p) ==
    /\ p \notin Listed \cup {current, profile_id}
    /\ saved[p] = NoSecret /\ ~older[p]
    /\ \A c \in Clients : at[c] # p /\ (held[c] # NoCookie => held[c].profile # p)

AddProfile(op) ==
    \E p \in Profiles, l \in Logins, outcome \in FileOutcomes :
        /\ Idle /\ Fresh(p)
        /\ WriteFile(outcome, Append(rows, p), p)
        /\ IF outcome = "ok"
             THEN /\ Activate(p)
                  /\ job' = [op |-> op, step |-> "activate", profile |-> p,
                             previous |-> active, login |-> l, client |-> "none"]
             ELSE UNCHANGED <<current, at, held, whole, call, job>>
        /\ UNCHANGED sessionVars

ProfileAdd == AddProfile("profile_add")
RockConfigureFirst == active = NoProfile /\ AddProfile("rock_configure")

AddActivated ==
    /\ job.step = "activate" /\ Returned("ok")
    /\ FinishActivation
    /\ Begin("configure", profile_id, job.login)
    /\ Step("configure")
    /\ UNCHANGED <<sessionVars, fileVars, current>>

AddFailed ==
    /\ job.step = "activate" \/ (job.step = "configure" /\ job.profile # NoProfile)
    /\ Returned("error")
    /\ Begin("remove_profile_credentials", job.profile, NoSecret)
    /\ Step("unwind")
    /\ UNCHANGED <<sessionVars, fileVars, current, at, held, whole>>

(* The rows but that of p, which no other row is for.                      *)
Without(p) ==
    LET i == CHOOSE j \in DOMAIN rows : rows[j] = p
    IN [j \in 1 .. Len(rows) - 1 |-> rows[IF j < i THEN j ELSE j + 1]]
ActiveWithout(p) ==
    CASE active # p -> active
      [] active = p /\ Without(p) # <<>> -> Without(p)[1]
      [] OTHER -> NoProfile

(* _rollback_profile_add keeps the profile when its records could not all  *)
(* be cleared.                                                             *)
Unwind ==
    /\ job.step = "unwind"
    /\ \/ /\ Returned("error")
          /\ Reply /\ Release
          /\ UNCHANGED <<fileVars, current, at, held, whole>>
       \/ /\ Returned("ok")
          /\ \E outcome \in FileOutcomes :
               /\ WriteFile(outcome, Without(job.profile), ActiveWithout(job.profile))
               /\ \/ /\ outcome # "ok"
                     /\ Reply /\ Release
                     /\ UNCHANGED <<current, at, held, whole>>
                  \/ /\ outcome = "ok" /\ job.previous # NoProfile
                     /\ Step("unwind_select") /\ Release
                     /\ UNCHANGED <<current, at, held, whole>>
                  \/ /\ outcome = "ok" /\ job.previous = NoProfile
                     /\ Activate(NoProfile) /\ Step("reactivate")
    /\ UNCHANGED sessionVars

UnwindSelect ==
    /\ job.step = "unwind_select"
    /\ \E outcome \in FileOutcomes :
        /\ WriteFile(outcome, rows, job.previous)
        /\ IF outcome = "ok"
             THEN Activate(job.previous) /\ Step("reactivate")
             ELSE Reply /\ UNCHANGED <<current, at, held, whole, call>>
    /\ UNCHANGED sessionVars

(* The end of a handler whose last act is an activation.                   *)
Reactivated ==
    /\ job.step = "reactivate"
    /\ \/ Returned("ok") /\ FinishActivation
       \/ Returned("error") /\ UNCHANGED <<at, held, whole>>
    /\ Reply /\ Release
    /\ UNCHANGED <<sessionVars, fileVars, current>>
-----------------------------------------------------------------------------
(* profile_switch writes the choice before it activates the profile, and   *)
(* does not take it back.                                                  *)
ProfileSwitch ==
    \E p \in Listed, outcome \in FileOutcomes :
        /\ Idle
        /\ WriteFile(outcome, rows, p)
        /\ IF outcome = "ok"
             THEN /\ Activate(p)
                  /\ job' = [Resting("reactivate") EXCEPT !.op = "profile_switch",
                                                          !.profile = p]
             ELSE UNCHANGED <<current, at, held, whole, call, job>>
        /\ UNCHANGED sessionVars

(* profile_remove: records first, then recents and receipts, then the row. *)
ProfileRemove ==
    \E p \in Listed :
        /\ Idle
        /\ job' = [Resting("remove") EXCEPT !.op = "profile_remove", !.profile = p]
        /\ Begin("remove_profile_credentials", p, NoSecret)
        /\ UNCHANGED <<sessionVars, fileVars, current, at, held, whole>>

(* Mutant: the row goes although records could not be cleared. *)
RemoveRow_Untruthful ==
    /\ job.step = "remove" /\ call.done
    /\ rows' = Without(job.profile) /\ active' = ActiveWithout(job.profile)
    /\ UNCHANGED unsaved
    /\ IF job.profile = current
         THEN Activate(ActiveWithout(job.profile)) /\ Step("reactivate")
         ELSE Reply /\ Release /\ UNCHANGED <<current, at, held, whole>>
    /\ UNCHANGED sessionVars

(* Mutant: removing the selected profile does not select another one. *)
RemoveRow_NotReactivated ==
    /\ job.step = "remove" /\ call.done
    /\ IF call.result = "ok"
         THEN rows' = Without(job.profile) /\ active' = ActiveWithout(job.profile)
         ELSE UNCHANGED <<rows, active>>
    /\ UNCHANGED unsaved
    /\ Reply /\ Release
    /\ UNCHANGED <<sessionVars, current, at, held, whole>>

RemoveRow ==
    /\ job.step = "remove"
    /\ \/ /\ call.done  \* records or history files that could not be cleared
          /\ Reply /\ Release
          /\ UNCHANGED <<fileVars, current, at, held, whole>>
       \/ /\ Returned("ok")
          /\ \E outcome \in FileOutcomes :
               /\ WriteFile(outcome, Without(job.profile), ActiveWithout(job.profile))
               /\ IF outcome = "ok" /\ job.profile = current
                    THEN Activate(ActiveWithout(job.profile)) /\ Step("reactivate")
                    ELSE Reply /\ Release /\ UNCHANGED <<current, at, held, whole>>
    /\ UNCHANGED sessionVars
-----------------------------------------------------------------------------
(* Handlers about the login of the profile the file calls active; the      *)
(* session method works on the profile the broker has selected.            *)

ForActive(op, method, l) ==
    /\ Idle /\ active # NoProfile
    /\ Begin(method, profile_id, l)
    /\ job' = [Resting(IF method = "configure" THEN "configure" ELSE "wait")
                 EXCEPT !.op = op, !.login = l]
    /\ UNCHANGED <<sessionVars, fileVars, current, at, held, whole>>

RockConfigure == \E l \in Logins : ForActive("rock_configure", "configure", l)
ProfileCredentialsUpdate ==
    \E l \in Logins : ForActive("profile_credentials_update", "configure", l)
ProfileSignOut == ForActive("profile_sign_out", "sign_out", NoSecret)
ProfileTest == ForActive("profile_test", "test_connection", NoSecret)

(* Mutant: drafts and results survive a new login. *)
Configured_HeldKept ==
    /\ job.step = "configure" /\ call.done
    /\ Returned("ok") \/ job.profile = NoProfile
    /\ Reply /\ Release
    /\ UNCHANGED <<sessionVars, fileVars, current, at, held, whole>>

(* A login that was saved clears what every client holds; rock_configure   *)
(* may rename the profile in between, and stops there if that fails.       *)
Configured ==
    /\ job.step = "configure"
    /\ \/ /\ Returned("error") /\ job.profile = NoProfile
          /\ UNCHANGED <<held, unsaved>>
       \/ /\ Returned("ok")
          /\ held' = Nothing /\ UNCHANGED unsaved
       \/ /\ Returned("ok") /\ job.op = "rock_configure" /\ job.profile = NoProfile
          /\ FileOutcomes \cap {"refused", "lost"} # {}
          /\ unsaved' = TRUE /\ UNCHANGED held
    /\ Reply /\ Release
    /\ UNCHANGED <<sessionVars, rows, active, current, at, whole>>

SignedOut ==
    /\ job.op = "profile_sign_out" /\ call.done
    /\ held' = IF call.result = "ok" THEN Nothing ELSE held
    /\ Reply /\ Release
    /\ UNCHANGED <<sessionVars, fileVars, current, at, whole>>

Tested ==
    /\ job.op = "profile_test" /\ call.done
    /\ held' = [c \in Clients |-> IF c = "magnus" /\ call.result = "ok"
                                    THEN NoCookie ELSE held[c]]
    /\ Reply /\ Release
    /\ UNCHANGED <<sessionVars, fileVars, current, at, whole>>
-----------------------------------------------------------------------------
(* A read or write of a client: search, Personal Links, jobs, Magnus.  It  *)
(* takes the session's cookie and sends it to the server the client is at; *)
(* search has a default server before it is told one.  A server knows only *)
(* its own cookies.                                                        *)

ClientRequest ==
    \E c \in Clients :
        /\ Idle /\ current # NoProfile
        /\ at[c] # NoProfile \/ c = "live"
        /\ job' = [Resting("wait") EXCEPT !.op = "request", !.client = c]
        /\ Begin("authenticated_cookie", profile_id, NoSecret)
        /\ UNCHANGED <<sessionVars, fileVars, current, at, held, whole>>

SameServer(p, q) == NoProfile \notin {p, q} /\ OriginOf[p] = OriginOf[q]

Answered ==
    /\ job.op = "request" /\ job.step = "wait"
    /\ \/ call.done /\ Reply /\ UNCHANGED held
       \/ Returned("ok") /\ Step("refused") /\ UNCHANGED held
       \/ /\ Returned("ok") /\ SameServer(at[job.client], call.profile)
          /\ held' = [held EXCEPT ![job.client] =
                        [profile |-> call.profile, login |-> call.login]]
          /\ Reply
    /\ Release
    /\ UNCHANGED <<sessionVars, fileVars, current, at, whole>>

(* The request failed.  A search of which every part failed, reading the   *)
(* Personal Links and a refused Personal Links operation drop the cookie;  *)
(* the check of what may be searched, jobs and magnus keep it.             *)
Refused ==
    /\ job.step = "refused"
    /\ \/ /\ call.op = "none" /\ job.client \in {"live", "personal_links"}
          /\ Begin("invalidate_authenticated_cookie", profile_id, NoSecret)
          /\ UNCHANGED job
       \/ /\ call.op = "none" /\ job.client # "personal_links"
          /\ Reply /\ UNCHANGED call
       \/ call.done /\ Reply /\ Release
    /\ UNCHANGED <<sessionVars, fileVars, current, at, held, whole>>

(* set_context clears everything but what Magnus registered.               *)
SetContext ==
    /\ Idle
    /\ held' = [c \in Clients |-> IF c = "magnus" THEN held[c] ELSE NoCookie]
    /\ UNCHANGED <<vars, fileVars, current, at, whole, job>>
-----------------------------------------------------------------------------
BrokerCrash ==
    /\ Crash
    /\ current' = NoProfile
    /\ at' = Nobody
    /\ held' = Nothing
    /\ whole' = TRUE
    /\ job' = Resting("down")
    /\ UNCHANGED fileVars

SessionStep == (Method \/ Expire) /\ UNCHANGED brokerVars

BrokerNext ==
    \/ Boot \/ Booted
    \/ ProfileAdd \/ RockConfigureFirst \/ AddActivated \/ AddFailed
    \/ Unwind \/ UnwindSelect \/ Reactivated
    \/ ProfileSwitch \/ ProfileRemove \/ RemoveRow
    \/ RockConfigure \/ ProfileCredentialsUpdate \/ ProfileSignOut \/ ProfileTest
    \/ Configured \/ SignedOut \/ Tested
    \/ ClientRequest \/ Answered \/ Refused \/ SetContext
    \/ SessionStep \/ BrokerCrash

BrokerSpec == BrokerInit /\ [][BrokerNext]_allVars
-----------------------------------------------------------------------------
(* The broker, the profile file and the session agree on the profile       *)
(* between handlers: what the user was told is active is what a login or a *)
(* request is for.  profiles.py and broker.py keep it in three places.  A  *)
(* file write that ends half way, or fails while a change is taken back,   *)
(* parts them (unsaved).                                                   *)
SelectedIsActive == Idle /\ ~unsaved => active = current /\ current = profile_id

(* No secret record outlives its profile: an id that is not in the profile *)
(* file has none, also in the middle of a handler, after a crash, and when *)
(* the write that removes the row fails (but not once unsaved).            *)
RemovedProfileLeavesNoLogin ==
    unsaved \/ \A p \in Profiles \ Listed : saved[p] = NoSecret /\ ~older[p]

(* Between handlers, Personal Links and jobs address the server of the     *)
(* selected profile; search and Magnus do unless the last activation was   *)
(* interrupted.                                                            *)
ClientsFollowProfile ==
    Idle /\ profile_id # NoProfile =>
        \A c \in Clients : c \in ResetFirst \/ whole => at[c] = profile_id

(* What a client holds from earlier answers (drafts, results, registered   *)
(* items) belongs to the selected profile and to its saved login, so a     *)
(* profile switch or another login never meets a draft of the one before,  *)
(* except after the failed writes counted by unsaved.  What Magnus holds   *)
(* may be of another profile of the same server when an activation was     *)
(* interrupted, which Magnus was not told of.                              *)
HeldOfPresentLogin ==
    Idle /\ ~unsaved => \A c \in Clients : held[c] # NoCookie =>
        /\ c # "magnus" => held[c].profile = profile_id
        /\ c = "magnus" /\ whole => SameServer(held[c].profile, profile_id)
        /\ held[c].profile = profile_id /\ ack[profile_id] # NoSecret
             => held[c].login = ack[profile_id]

(* "The broker attaches the ... cookie only to exact-origin HTTPS          *)
(* requests": a cookie goes to the server that issued it.                  *)
CookieOnlyToItsOrigin ==
    job.op = "request" /\ job.step = "wait" /\ Returned("ok")
        => SameServer(at[job.client], call.profile)

=============================================================================
