------------------------ MODULE ProfileLifecycleProofs ------------------------
(***************************************************************************)
(* Proofs about the session's contract SavedLogins and the broker's        *)
(* profile handlers, for any profiles, servers, logins and clients, and    *)
(* every way a write of the profile file may end.  First what follows from *)
(* the contract; then that the handlers keep to it and how each step is    *)
(* typed (HandlerInv); then what they keep true between the profile file,  *)
(* the session, the saved logins and the clients (AgreeInv).               *)
(***************************************************************************)
EXTENDS ProfileLifecycle, TLAPS

-----------------------------------------------------------------------------
(* The session's contract: the facts about saved logins, the cookie and    *)
(* the results of methods that the broker's handlers rest on.              *)

(* What the method in progress works on, and what its end says.            *)
CallFits ==
    /\ call.op = "none" => call = NoCall
    /\ call.op \in {"configure", "sign_out", "test_connection", "authenticated_cookie"}
         => call.profile = profile_id
    /\ Running("configure") => call.login \in Logins
    /\ call.op \in {"set_profile", "remove_profile_credentials"} => call.profile \in Profiles
    /\ call.op = "set_profile" /\ call.done => profile_id = call.profile
    /\ call.op = "clear_profile" /\ call.done => profile_id = NoProfile

(* A login the user was told is saved is the one that is saved, except     *)
(* while it is being replaced.                                             *)
SavedAsTold ==
    \A p \in Profiles : ack[p] # NoSecret =>
        saved[p] = ack[p] \/ (Running("configure") /\ p = profile_id)

(* The cached cookie is the selected profile's and of the login the user   *)
(* was told is saved.                                                      *)
CookieAsTold ==
    cookie # NoCookie =>
        /\ cookie.profile = profile_id
        /\ ack[profile_id] # NoSecret => cookie.login = ack[profile_id]

(* So is the session a method returns; and after a removal that is "ok"    *)
(* nothing is left.                                                        *)
ResultAsTold ==
    call.done /\ call.result = "ok" =>
        /\ call.op = "authenticated_cookie" =>
            /\ profile_id \in Profiles /\ call.login \in Logins
            /\ ack[profile_id] # NoSecret => call.login = ack[profile_id]
        /\ call.op = "remove_profile_credentials" =>
            saved[call.profile] = NoSecret /\ ~older[call.profile]

SessionInv == TypeOK /\ CallFits /\ SavedAsTold /\ CookieAsTold /\ ResultAsTold
-----------------------------------------------------------------------------
(* The record of a call.                                                   *)

LEMMA NoCallTyped == NoCall \in Call /\ NoCall.op = "none" /\ ~NoCall.done
BY DEF NoCall, Call, Ops

LEMMA BeginTyped ==
    ASSUME NEW op \in Ops, NEW p \in Profiles \cup {NoProfile},
           NEW l \in Logins \cup {NoSecret}, Begin(op, p, l)
    PROVE  /\ call' \in Call /\ call'.op = op /\ call'.profile = p
           /\ call'.login = l /\ ~call'.done
BY DEF Begin, Call

LEMMA ReturnTyped ==
    ASSUME call \in Call, NEW r \in {"ok", "error"}, NEW l \in Logins \cup {NoSecret},
           Return(r, l)
    PROVE  /\ call' \in Call /\ call'.op = call.op /\ call'.profile = call.profile
           /\ call'.login = l /\ call'.done /\ call'.result = r
BY DEF Return, Call

LEMMA CookieTyped ==
    ASSUME NEW p \in Profiles, NEW l \in Logins
    PROVE  /\ [profile |-> p, login |-> l] \in Cookie
           /\ [profile |-> p, login |-> l] # NoCookie
BY CookieAssumption DEF Cookie

LEMMA SaveTyped ==
    ASSUME saved \in [Profiles -> State], older \in [Profiles -> BOOLEAN],
           NEW p \in Profiles, NEW s \in State, NEW o \in BOOLEAN, Save(p, s, o)
    PROVE  /\ saved' \in [Profiles -> State] /\ older' \in [Profiles -> BOOLEAN]
           /\ saved'[p] = s /\ older'[p] = o
           /\ \A q \in Profiles : q # p => saved'[q] = saved[q] /\ older'[q] = older[q]
BY DEF Save
-----------------------------------------------------------------------------
(* One lemma for each group of steps.                                      *)

LEMMA SessionInit == Init => SessionInv
<1> SUFFICES ASSUME Init PROVE SessionInv
    OBVIOUS
<1>1. TypeOK
    BY NoCallTyped DEF Init, TypeOK, State
<1>2. CallFits /\ SavedAsTold /\ CookieAsTold /\ ResultAsTold
    BY NoCallTyped DEF Init, CallFits, SavedAsTold, CookieAsTold, ResultAsTold, Running
<1> QED BY <1>1, <1>2 DEF SessionInv

LEMMA SessionBegins == SessionInv /\ BeginCall => SessionInv'
<1> SUFFICES ASSUME SessionInv, BeginCall PROVE SessionInv'
    OBVIOUS
<1>1. PICK op \in Ops, p \in Profiles \cup {NoProfile}, l \in Logins \cup {NoSecret} :
        /\ Begin(op, p, l) /\ op # "none"
        /\ op \in {"set_profile", "remove_profile_credentials"} => p \in Profiles
        /\ op \in {"configure", "sign_out", "test_connection", "authenticated_cookie"}
             => p = profile_id
        /\ op = "configure" => l \in Logins
    BY DEF BeginCall, Ops, SessionInv, TypeOK
<1>2. /\ call' \in Call /\ call'.op = op /\ call'.profile = p /\ call'.login = l /\ ~call'.done
    BY <1>1, BeginTyped
<1>3. UNCHANGED <<saved, older, profile_id, cookie, ack>>
    BY DEF BeginCall
<1>4. ~Running("configure")
    BY <1>1 DEF Begin, Running
<1>5. TypeOK'
    BY <1>2, <1>3 DEF SessionInv, TypeOK
<1>6. CallFits'
    BY <1>1, <1>2, <1>3 DEF CallFits, Running
<1>7. SavedAsTold' /\ CookieAsTold' /\ ResultAsTold'
    BY <1>2, <1>3, <1>4 DEF SessionInv, SavedAsTold, CookieAsTold, ResultAsTold, Running
<1> QED BY <1>5, <1>6, <1>7 DEF SessionInv

LEMMA SessionEnds == SessionInv /\ (EndCall \/ Expire \/ Crash) => SessionInv'
<1> SUFFICES ASSUME SessionInv, EndCall \/ Expire \/ Crash PROVE SessionInv'
    OBVIOUS
<1>1. CASE EndCall
    BY <1>1, NoCallTyped DEF EndCall, SessionInv, TypeOK, CallFits, SavedAsTold,
        CookieAsTold, ResultAsTold, Running
<1>2. CASE Expire
    BY <1>2 DEF Expire, SessionInv, TypeOK, CallFits, SavedAsTold, CookieAsTold,
        ResultAsTold, Running
<1>3. CASE Crash
    <2>1. TypeOK'
        BY <1>3, NoCallTyped DEF Crash, SessionInv, TypeOK
    <2>2. CallFits' /\ CookieAsTold' /\ ResultAsTold'
        BY <1>3, NoCallTyped DEF Crash, CallFits, CookieAsTold, ResultAsTold, Running
    <2>3. SavedAsTold'
        BY <1>3, ProfilesAssumption DEF Crash, SessionInv, TypeOK, SavedAsTold, Running
    <2> QED BY <2>1, <2>2, <2>3 DEF SessionInv
<1> QED BY <1>1, <1>2, <1>3

(* Selecting a profile.                                                    *)
LEMMA SessionSelects == SessionInv /\ (SetProfile \/ Migrate \/ ClearProfile) => SessionInv'
<1> SUFFICES ASSUME SessionInv, SetProfile \/ Migrate \/ ClearProfile PROVE SessionInv'
    OBVIOUS
<1>1. CASE SetProfile
    BY <1>1 DEF SetProfile, SessionInv, TypeOK, CallFits, SavedAsTold, CookieAsTold,
        ResultAsTold, Running
<1>2. CASE ClearProfile
    <2>1. /\ call' \in Call /\ call'.op = "clear_profile" /\ call'.done
          /\ call'.profile = call.profile
        BY <1>2, ReturnTyped DEF ClearProfile, SessionInv, TypeOK, Running
    <2> QED BY <1>2, <2>1 DEF ClearProfile, SessionInv, TypeOK, CallFits, SavedAsTold,
        CookieAsTold, ResultAsTold, Running
<1>3. CASE Migrate
    <2>1. profile_id \in Profiles /\ profile_id = call.profile
        BY <1>3 DEF Migrate, SessionInv, CallFits, Running
    <2>2. PICK s \in State, o \in BOOLEAN :
            /\ ack[profile_id] # NoSecret => s = saved[profile_id]
            /\ Save(profile_id, s, o)
        BY <1>3 DEF Migrate
    <2>3. /\ saved' \in [Profiles -> State] /\ older' \in [Profiles -> BOOLEAN]
          /\ saved'[profile_id] = s
          /\ \A q \in Profiles : q # profile_id => saved'[q] = saved[q]
        BY <2>1, <2>2, SaveTyped DEF SessionInv, TypeOK
    <2>4. call' \in Call /\ call'.op = "set_profile" /\ call'.profile = profile_id
        BY <1>3, <2>1, ReturnTyped DEF Migrate, SessionInv, TypeOK, Running
    <2>5. UNCHANGED <<profile_id, cookie, ack>> /\ ~Running("configure")
        BY <1>3 DEF Migrate, Running
    <2>6. TypeOK' /\ CallFits' /\ CookieAsTold' /\ ResultAsTold'
        BY <2>1, <2>3, <2>4, <2>5 DEF SessionInv, TypeOK, CallFits, CookieAsTold,
            ResultAsTold, Running
    <2>7. SavedAsTold'
        BY <2>2, <2>3, <2>5 DEF SessionInv, SavedAsTold
    <2> QED BY <2>6, <2>7 DEF SessionInv
<1> QED BY <1>1, <1>2, <1>3

(* Replacing a login.                                                      *)
LEMMA SessionReplaces == SessionInv /\ (Replacing \/ Replaced \/ NotReplaced) => SessionInv'
<1> SUFFICES ASSUME SessionInv, Replacing \/ Replaced \/ NotReplaced PROVE SessionInv'
    OBVIOUS
<1>1. CASE Replacing
    <2>1. profile_id \in Profiles /\ Running("configure")
        BY <1>1 DEF Replacing, SessionInv, TypeOK
    <2>2. PICK s \in State, o \in BOOLEAN : Save(profile_id, s, o)
        BY <1>1 DEF Replacing
    <2>3. /\ saved' \in [Profiles -> State] /\ older' \in [Profiles -> BOOLEAN]
          /\ \A q \in Profiles : q # profile_id => saved'[q] = saved[q]
        BY <2>1, <2>2, SaveTyped DEF SessionInv, TypeOK
    <2> QED BY <1>1, <2>1, <2>3 DEF Replacing, SessionInv, TypeOK, CallFits, SavedAsTold,
            CookieAsTold, ResultAsTold, Running
<1>2. CASE Replaced
    <2>1. profile_id \in Profiles /\ call.login \in Logins
        BY <1>2 DEF Replaced, SessionInv, TypeOK, CallFits
    <2>2. /\ saved' \in [Profiles -> State] /\ older' \in [Profiles -> BOOLEAN]
          /\ saved'[profile_id] = call.login
          /\ \A q \in Profiles : q # profile_id => saved'[q] = saved[q]
        BY <1>2, <2>1, SaveTyped DEF Replaced, State, SessionInv, TypeOK
    <2>3. /\ call' \in Call /\ call'.op = "configure" /\ call'.profile = call.profile /\ call'.done
        BY <1>2, ReturnTyped DEF Replaced, SessionInv, TypeOK, Running
    <2>4. /\ ack' \in [Profiles -> Logins \cup {NoSecret}] /\ ack'[profile_id] = call.login
          /\ \A q \in Profiles : q # profile_id => ack'[q] = ack[q]
        BY <1>2, <2>1 DEF Replaced, SessionInv, TypeOK
    <2>5. /\ cookie' \in Cookie /\ cookie'.profile = profile_id /\ cookie'.login = call.login
          /\ profile_id' = profile_id
        BY <1>2, <2>1, CookieTyped DEF Replaced
    <2>6. TypeOK' /\ CookieAsTold'
        BY <2>2, <2>3, <2>4, <2>5 DEF SessionInv, TypeOK, CookieAsTold
    <2>7. CallFits' /\ ResultAsTold'
        BY <1>2, <2>3, <2>5 DEF Replaced, SessionInv, CallFits, ResultAsTold, Running
    <2>8. SavedAsTold'
        BY <2>2, <2>4, <2>5 DEF SessionInv, SavedAsTold
    <2> QED BY <2>6, <2>7, <2>8 DEF SessionInv
<1>3. CASE NotReplaced
    <2>1. /\ call' \in Call /\ call'.op = "configure" /\ call'.profile = call.profile
          /\ call'.done /\ call'.result = "error"
        BY <1>3, ReturnTyped DEF NotReplaced, SessionInv, TypeOK, Running
    <2>2. UNCHANGED <<older, profile_id, ack>> /\ cookie' \in {cookie, NoCookie}
        BY <1>3 DEF NotReplaced
    <2>3. /\ saved' \in [Profiles -> State]
          /\ \A q \in Profiles :
               IF q = profile_id THEN ack[q] # NoSecret => saved'[q] = ack[q]
                                 ELSE saved'[q] = saved[q]
        <3>1. CASE profile_id = NoProfile
            BY <1>3, <3>1, ProfilesAssumption DEF NotReplaced, SessionInv, TypeOK
        <3>2. CASE profile_id # NoProfile
            <4>1. PICK s \in State :
                    /\ ack[profile_id] # NoSecret => s = ack[profile_id]
                    /\ saved' = [saved EXCEPT ![profile_id] = s]
                BY <1>3, <3>2 DEF NotReplaced
            <4> QED BY <4>1 DEF SessionInv, TypeOK
        <3> QED BY <3>1, <3>2
    <2>4. TypeOK' /\ CallFits' /\ CookieAsTold' /\ ResultAsTold'
        BY <1>3, <2>1, <2>2, <2>3 DEF NotReplaced, SessionInv, TypeOK, CallFits,
            CookieAsTold, ResultAsTold, Running
    <2>5. SavedAsTold'
        BY <2>2, <2>3 DEF SessionInv, SavedAsTold
    <2> QED BY <2>4, <2>5 DEF SessionInv
<1> QED BY <1>1, <1>2, <1>3

LEMMA EraseTyped ==
    ASSUME TypeOK, NEW p \in Profiles, NEW r, Erase(p, r)
    PROVE  /\ saved' \in [Profiles -> State] /\ older' \in [Profiles -> BOOLEAN]
           /\ ack' \in [Profiles -> Logins \cup {NoSecret}] /\ ack'[p] = NoSecret
           /\ \A q \in Profiles : q # p => saved'[q] = saved[q] /\ ack'[q] = ack[q]
           /\ r = "ok" => saved'[p] = NoSecret /\ ~older'[p]
<1>1. PICK s \in {saved[p], NoSecret, Damaged}, o \in BOOLEAN :
        (r = "ok" => s = NoSecret /\ ~o) /\ Save(p, s, o)
    BY DEF Erase
<1>2. s \in State
    BY DEF TypeOK, State
<1>3. /\ saved' \in [Profiles -> State] /\ older' \in [Profiles -> BOOLEAN]
      /\ saved'[p] = s /\ older'[p] = o
      /\ \A q \in Profiles : q # p => saved'[q] = saved[q]
    BY <1>1, <1>2, SaveTyped DEF TypeOK
<1>4. ack' = [ack EXCEPT ![p] = NoSecret]
    BY DEF Erase
<1> QED BY <1>1, <1>3, <1>4 DEF TypeOK

(* Erasing a login.                                                        *)
LEMMA SessionErases ==
    SessionInv /\ (SigningOut \/ SignOut \/ RemoveProfileCredentials) => SessionInv'
<1> SUFFICES ASSUME SessionInv, SigningOut \/ SignOut \/ RemoveProfileCredentials
             PROVE  SessionInv'
    OBVIOUS
<1> USE DEF SessionInv
<1>1. CASE SigningOut
    <2>1. profile_id \in Profiles /\ Erase(profile_id, "none")
        BY <1>1 DEF SigningOut, TypeOK
    <2> QED BY <1>1, <2>1, EraseTyped DEF SigningOut, TypeOK, CallFits, SavedAsTold,
            CookieAsTold, ResultAsTold, Running
<1>2. CASE SignOut
    <2>1. PICK r \in {"ok", "error"} :
            /\ IF profile_id = NoProfile
                 THEN r = "ok" /\ UNCHANGED <<saved, older, ack>>
                 ELSE Erase(profile_id, r)
            /\ Return(r, NoSecret)
        BY <1>2 DEF SignOut
    <2>2. /\ call' \in Call /\ call'.op = "sign_out" /\ call'.profile = call.profile /\ call'.done
        BY <1>2, <2>1, ReturnTyped DEF SignOut, TypeOK, Running
    <2>3. cookie' = NoCookie /\ profile_id' = profile_id
        BY <1>2 DEF SignOut
    <2>4. CASE profile_id = NoProfile
        BY <1>2, <2>1, <2>2, <2>3, <2>4 DEF SignOut, TypeOK, CallFits, SavedAsTold,
            CookieAsTold, ResultAsTold, Running
    <2>5. CASE profile_id # NoProfile
        <3>1. profile_id \in Profiles /\ Erase(profile_id, r)
            BY <2>1, <2>5 DEF TypeOK
        <3> QED BY <1>2, <2>2, <2>3, <3>1, EraseTyped DEF SignOut, TypeOK, CallFits,
                SavedAsTold, CookieAsTold, ResultAsTold, Running
    <2> QED BY <2>4, <2>5
<1>3. CASE RemoveProfileCredentials
    <2>1. call.profile \in Profiles
        BY <1>3 DEF RemoveProfileCredentials, CallFits, Running
    <2>2. PICK r \in {"ok", "error"} : Erase(call.profile, r) /\ Return(r, NoSecret)
        BY <1>3 DEF RemoveProfileCredentials
    <2>3. /\ call' \in Call /\ call'.op = "remove_profile_credentials"
          /\ call'.profile = call.profile /\ call'.done /\ call'.result = r
        BY <1>3, <2>2, ReturnTyped DEF RemoveProfileCredentials, TypeOK, Running
    <2>4. /\ saved' \in [Profiles -> State] /\ older' \in [Profiles -> BOOLEAN]
          /\ ack' \in [Profiles -> Logins \cup {NoSecret}] /\ ack'[call.profile] = NoSecret
          /\ \A q \in Profiles : q # call.profile => saved'[q] = saved[q] /\ ack'[q] = ack[q]
          /\ r = "ok" => saved'[call.profile] = NoSecret /\ ~older'[call.profile]
        BY <2>1, <2>2, EraseTyped
    <2>5. /\ profile_id' = profile_id /\ ~Running("configure")
          /\ cookie' = IF call.profile = profile_id THEN NoCookie ELSE cookie
        BY <1>3 DEF RemoveProfileCredentials, Running
    <2>6. TypeOK' /\ CallFits' /\ ResultAsTold'
        BY <2>1, <2>3, <2>4, <2>5 DEF TypeOK, CallFits, ResultAsTold, Running
    <2>7. SavedAsTold' /\ CookieAsTold'
        BY <2>4, <2>5 DEF TypeOK, SavedAsTold, CookieAsTold, Cookie
    <2> QED BY <2>6, <2>7
<1> QED BY <1>1, <1>2, <1>3

(* Sessions.                                                               *)
LEMMA SessionServes == SessionInv /\ (Session \/ InvalidateAuthenticatedCookie) => SessionInv'
<1> SUFFICES ASSUME SessionInv, Session \/ InvalidateAuthenticatedCookie PROVE SessionInv'
    OBVIOUS
<1> USE DEF SessionInv
<1>1. CASE InvalidateAuthenticatedCookie
    <2>1. /\ call' \in Call /\ call'.op = "invalidate_authenticated_cookie" /\ call'.done
        BY <1>1, ReturnTyped DEF InvalidateAuthenticatedCookie, TypeOK, Running
    <2> QED BY <1>1, <2>1 DEF InvalidateAuthenticatedCookie, TypeOK, CallFits, SavedAsTold,
            CookieAsTold, ResultAsTold, Running
<1>2. CASE Session
    <2>1. UNCHANGED <<saved, older, profile_id, ack>>
        BY <1>2 DEF Session
    <2>2. call.op \in {"authenticated_cookie", "test_connection"}
        BY <1>2 DEF Session, Running
    <2>3. /\ call' \in Call /\ call'.op = call.op /\ call'.profile = call.profile /\ call'.done
          /\ cookie' \in Cookie \cup {NoCookie} /\ CookieAsTold'
          /\ call'.result = "ok" =>
               /\ profile_id \in Profiles /\ call'.login \in Logins
               /\ ack[profile_id] # NoSecret => call'.login = ack[profile_id]
        <3>1. CASE Reuse
            <4>1. cookie \in Cookie /\ cookie.login \in Logins /\ cookie.profile \in Profiles
                BY <3>1 DEF Reuse, TypeOK, Cookie
            <4>2. Return("ok", cookie.login) /\ cookie' = cookie
                BY <3>1 DEF Reuse
            <4> QED BY <3>1, <2>1, <4>1, <4>2, ReturnTyped DEF Reuse, TypeOK, CookieAsTold
        <3>2. CASE /\ profile_id # NoProfile /\ saved[profile_id] \in Logins
                   /\ cookie' = [profile |-> profile_id, login |-> saved[profile_id]]
                   /\ Return("ok", saved[profile_id])
            <4>1. profile_id \in Profiles
                BY <3>2 DEF TypeOK
            <4>2. ack[profile_id] # NoSecret => saved[profile_id] = ack[profile_id]
                BY <2>2, <4>1 DEF SavedAsTold, Running
            <4>3. /\ call' \in Call /\ call'.op = call.op /\ call'.profile = call.profile
                  /\ call'.done /\ call'.login = saved[profile_id]
                BY <3>2, ReturnTyped DEF TypeOK
            <4> QED BY <2>1, <3>2, <4>1, <4>2, <4>3, CookieTyped DEF CookieAsTold
        <3>3. CASE cookie' = NoCookie /\ Return("error", NoSecret)
            BY <3>3, ReturnTyped DEF TypeOK, CookieAsTold
        <3> QED BY <1>2, <3>1, <3>2, <3>3 DEF Session, LogIn
    <2>4. TypeOK' /\ CallFits' /\ ResultAsTold'
        BY <2>1, <2>2, <2>3 DEF TypeOK, CallFits, ResultAsTold, Running
    <2>5. SavedAsTold'
        BY <2>1, <2>2 DEF SavedAsTold, Running
    <2> QED BY <2>3, <2>4, <2>5
<1> QED BY <1>1, <1>2

LEMMA SessionStutters == SessionInv /\ UNCHANGED vars => SessionInv'
BY DEF SessionInv, vars, TypeOK, CallFits, SavedAsTold, CookieAsTold, ResultAsTold, Running

LEMMA SessionNext == SessionInv /\ [Next]_vars => SessionInv'
BY SessionBegins, SessionEnds, SessionSelects, SessionReplaces, SessionErases,
   SessionServes, SessionStutters DEF Next, Method

(* Whatever the session does within its contract, the saved logins, the    *)
(* cookie and what methods return agree with what the user was told.       *)
THEOREM SessionKept == Spec => []SessionInv
BY SessionInit, SessionNext, PTL DEF Spec

-----------------------------------------------------------------------------
(* The handlers.                                                           *)

(* The profile file lists no profile twice, and one of those it lists is   *)
(* active.                                                                 *)
RowsFit ==
    /\ \A i, j \in DOMAIN rows : rows[i] = rows[j] => i = j
    /\ active \in Listed \cup {NoProfile}
    /\ active = NoProfile => rows = <<>>

(* Until the login of an added profile is saved, it is the active one.     *)
Adding == job.step \in {"activate", "unwind"} \/ (job.step = "configure" /\ job.profile # NoProfile)
AddFits ==
    /\ Adding => /\ job.profile \in Listed /\ job.profile = active /\ job.profile = current
                 /\ job.login \in Logins /\ job.op \in {"profile_add", "rock_configure"}
                 /\ job.previous # NoProfile => job.previous \in Listed \ {job.profile}
                 /\ job.previous = NoProfile => Len(rows) = 1
    /\ job.step = "unwind_select" => job.previous \in Listed

(* Which session method each step of a handler waits for.                  *)
JobFits ==
    /\ job.step \in {"down", "idle"} => job = Resting(job.step) /\ call = NoCall
    /\ job.step = "boot" => /\ current \in Profiles /\ active = current
                            /\ call.op = "set_profile" /\ call.profile = current
    /\ job.step = "activate" => call.op = "set_profile" /\ call.profile = current
    /\ job.step = "configure" => call.op = "configure"
    /\ job.step \in {"unwind", "remove"} =>
        call.op = "remove_profile_credentials" /\ call.profile = job.profile
    /\ job.step = "unwind_select" => call = NoCall
    /\ job.step = "reactivate" =>
        IF current = NoProfile THEN call.op = "clear_profile"
                               ELSE call.op = "set_profile" /\ call.profile = current
    /\ job.step = "remove" => job.profile \in Listed
    /\ job.op \in {"profile_sign_out", "profile_test"} => job.step = "wait"
    /\ job.op = "request" <=> job.step = "refused" \/ (job.step = "wait" /\ job.client \in Clients)
    /\ job.step = "wait" =>
        \/ job.op = "profile_sign_out" /\ call.op = "sign_out"
        \/ job.op = "profile_test" /\ call.op = "test_connection"
        \/ job.op = "request" /\ call.op = "authenticated_cookie"
    /\ job.step = "refused" => /\ job.client \in Clients
                               /\ call = NoCall \/ call.op = "invalidate_authenticated_cookie"

HandlerInv == BrokerTypeOK /\ RowsFit /\ AddFits /\ JobFits
-----------------------------------------------------------------------------
(* The parts handlers are made of.                                         *)

LEMMA RestingTyped ==
    ASSUME NEW s \in JobSteps
    PROVE  Resting(s) \in Job /\ Resting(s).step = s /\ Resting(s).op = "none"
           /\ Resting(s).profile = NoProfile /\ Resting(s).client = "none"
BY DEF Resting, Job, Handlers

LEMMA StepTyped ==
    ASSUME job \in Job, NEW s \in JobSteps, Step(s)
    PROVE  /\ job' \in Job /\ job'.step = s /\ job'.op = job.op
           /\ job'.profile = job.profile /\ job'.previous = job.previous
           /\ job'.login = job.login /\ job'.client = job.client
BY DEF Step, Job

LEMMA ReplyTyped ==
    ASSUME Reply
    PROVE  job' \in Job /\ job' = Resting("idle") /\ job'.step = "idle" /\ job'.op = "none"
BY RestingTyped DEF Reply, JobSteps

(* The rows but one (profiles.remove).                                     *)
LEMMA WithoutRows ==
    ASSUME rows \in Seq(Profiles), RowsFit, NEW p \in Listed
    PROVE  /\ Without(p) \in Seq(Profiles) /\ Len(Without(p)) = Len(rows) - 1
           /\ \A i, j \in DOMAIN Without(p) : Without(p)[i] = Without(p)[j] => i = j
           /\ {Without(p)[i] : i \in DOMAIN Without(p)} = Listed \ {p}
<1> DEFINE i == CHOOSE j \in DOMAIN rows : rows[j] = p
           n == Len(rows)
<1>1. i \in 1 .. n /\ rows[i] = p /\ n \in Nat
    <2>1. DOMAIN rows = 1 .. n /\ n \in Nat
        OBVIOUS
    <2>2. \E j \in DOMAIN rows : rows[j] = p
        BY DEF Listed
    <2> QED BY <2>1, <2>2
<1> HIDE DEF i
<1>2. Without(p) = [j \in 1 .. n - 1 |-> rows[IF j < i THEN j ELSE j + 1]]
    BY DEF Without, i
<1>3. \A j \in 1 .. n - 1 : (IF j < i THEN j ELSE j + 1) \in (1 .. n) \ {i}
    BY <1>1
<1>4. \A j \in 1 .. n - 1 : Without(p)[j] \in Listed \ {p}
    <2> TAKE j \in 1 .. n - 1
    <2> DEFINE k == IF j < i THEN j ELSE j + 1
    <2>1. k \in 1 .. n /\ k # i /\ Without(p)[j] = rows[k]
        BY <1>2, <1>3
    <2> HIDE DEF k
    <2> QED BY <1>1, <2>1 DEF Listed, RowsFit
<1>5. \A q \in Listed \ {p} : \E j \in 1 .. n - 1 : Without(p)[j] = q
    <2> TAKE q \in Listed \ {p}
    <2>1. PICK k \in 1 .. n : rows[k] = q
        BY DEF Listed
    <2>2. k # i
        BY <1>1, <2>1
    <2> DEFINE j == IF k < i THEN k ELSE k - 1
    <2>3. j \in 1 .. n - 1 /\ (IF j < i THEN j ELSE j + 1) = k
        BY <1>1, <2>2
    <2>4. Without(p)[j] = q
        BY <1>2, <2>1, <2>3
    <2> QED BY <2>3, <2>4
<1>6. DOMAIN Without(p) = 1 .. n - 1 /\ n - 1 \in Nat
    BY <1>1, <1>2
<1>7. Without(p) \in Seq(Profiles) /\ Len(Without(p)) = n - 1
    <2>1. Listed \subseteq Profiles
        BY DEF Listed
    <2>2. Without(p) \in [1 .. n - 1 -> Profiles]
        BY <1>2, <1>4, <2>1
    <2> QED BY <1>6, <2>2
<1>8. \A j, k \in 1 .. n - 1 : Without(p)[j] = Without(p)[k] => j = k
    <2> SUFFICES ASSUME NEW j \in 1 .. n - 1, NEW k \in 1 .. n - 1, Without(p)[j] = Without(p)[k]
                 PROVE  j = k
        OBVIOUS
    <2>1. rows[IF j < i THEN j ELSE j + 1] = rows[IF k < i THEN k ELSE k + 1]
        BY <1>2
    <2>2. (IF j < i THEN j ELSE j + 1) = (IF k < i THEN k ELSE k + 1)
        BY <1>3, <2>1 DEF RowsFit
    <2> QED BY <1>1, <2>2
<1>9. {Without(p)[j] : j \in 1 .. n - 1} = Listed \ {p}
    BY <1>4, <1>5
<1> QED BY <1>6, <1>7, <1>8, <1>9

(* Removing a profile leaves an active one as long as there is one.        *)
LEMMA ActiveWithoutRow ==
    ASSUME rows \in Seq(Profiles), RowsFit, NEW p \in Listed
    PROVE  /\ ActiveWithout(p) \in (Listed \ {p}) \cup {NoProfile}
           /\ ActiveWithout(p) = NoProfile => Without(p) = <<>>
           /\ active # p => ActiveWithout(p) = active
<1>1. Without(p) \in Seq(Profiles) /\ {Without(p)[i] : i \in DOMAIN Without(p)} = Listed \ {p}
    BY WithoutRows
<1>2. NoProfile \notin Listed /\ (active # p => active \in Listed \ {p})
    BY ProfilesAssumption DEF RowsFit, Listed
<1>3. Without(p) # <<>> => Without(p)[1] \in Listed \ {p}
    <2>1. Without(p) # <<>> => 1 \in DOMAIN Without(p)
        BY <1>1
    <2> QED BY <1>1, <2>1
<1>4. CASE active # p
    BY <1>2, <1>4 DEF ActiveWithout
<1>5. CASE active = p /\ Without(p) # <<>>
    BY <1>2, <1>3, <1>5 DEF ActiveWithout
<1>6. CASE active = p /\ Without(p) = <<>>
    BY <1>6 DEF ActiveWithout
<1> QED BY <1>4, <1>5, <1>6

LEMMA AppendRow ==
    ASSUME rows \in Seq(Profiles), RowsFit, NEW p \in Profiles \ Listed
    PROVE  /\ Append(rows, p) \in Seq(Profiles) /\ Len(Append(rows, p)) = Len(rows) + 1
           /\ \A i, j \in DOMAIN Append(rows, p) : Append(rows, p)[i] = Append(rows, p)[j] => i = j
           /\ {Append(rows, p)[i] : i \in DOMAIN Append(rows, p)} = Listed \cup {p}
<1>1. Len(rows) \in Nat /\ DOMAIN rows = 1 .. Len(rows)
    OBVIOUS
<1>2. /\ Append(rows, p) \in Seq(Profiles) /\ Len(Append(rows, p)) = Len(rows) + 1
      /\ DOMAIN Append(rows, p) = 1 .. Len(rows) + 1
    OBVIOUS
<1>3. \A i \in 1 .. Len(rows) : Append(rows, p)[i] = rows[i] /\ rows[i] # p
    BY <1>1 DEF Listed
<1>4. Append(rows, p)[Len(rows) + 1] = p
    OBVIOUS
<1>5. \A i, j \in 1 .. Len(rows) + 1 : Append(rows, p)[i] = Append(rows, p)[j] => i = j
    BY <1>1, <1>3, <1>4 DEF RowsFit
<1>6. {Append(rows, p)[i] : i \in 1 .. Len(rows) + 1} = Listed \cup {p}
    BY <1>1, <1>3, <1>4 DEF Listed
<1> QED BY <1>2, <1>5, <1>6

(* _activate_profile, both halves.                                         *)
LEMMA ActivateTyped ==
    ASSUME BrokerTypeOK, NEW p \in Profiles \cup {NoProfile}, Activate(p)
    PROVE  /\ current' = p /\ whole' = FALSE
           /\ at' \in [Clients -> Profiles \cup {NoProfile}]
           /\ held' \in [Clients -> Cookie \cup {NoCookie}]
           /\ call' \in Call /\ call'.profile = p /\ ~call'.done
           /\ call'.op = IF p = NoProfile THEN "clear_profile" ELSE "set_profile"
<1>1. \A c \in Clients : at[c] \in Profiles \cup {NoProfile} /\ held[c] \in Cookie \cup {NoCookie}
    BY DEF BrokerTypeOK
<1>2. at' \in [Clients -> Profiles \cup {NoProfile}] /\ held' \in [Clients -> Cookie \cup {NoCookie}]
    BY <1>1 DEF Activate
<1>3. Begin(IF p = NoProfile THEN "clear_profile" ELSE "set_profile", p, NoSecret)
    BY DEF Activate
<1> QED BY <1>2, <1>3, BeginTyped DEF Activate, Ops

LEMMA FinishTyped ==
    ASSUME BrokerTypeOK, FinishActivation
    PROVE  /\ whole' = TRUE /\ at' \in [Clients -> Profiles \cup {NoProfile}]
           /\ held' \in [Clients -> Cookie \cup {NoCookie}]
<1>1. CASE current = NoProfile
    BY <1>1 DEF FinishActivation, BrokerTypeOK
<1>2. CASE current # NoProfile
    <2>1. at' = [c \in Clients |-> current]
        BY <1>2 DEF FinishActivation
    <2>2. PICK kept \in BOOLEAN : held' = [c \in Clients |->
             IF c = "magnus" /\ kept /\ at[c] = current THEN held[c]
             ELSE IF c \in {"magnus", "live"} THEN NoCookie ELSE held[c]]
        BY <1>2 DEF FinishActivation
    <2>3. \A c \in Clients : held[c] \in Cookie \cup {NoCookie}
        BY DEF BrokerTypeOK
    <2> QED BY <2>1, <2>2, <2>3 DEF FinishActivation, BrokerTypeOK
<1> QED BY <1>1, <1>2

(* A session method in progress stays the one it is, and stays done.       *)
LEMMA MethodFits ==
    ASSUME SessionInv, Method \/ Expire
    PROVE  /\ call' \in Call /\ call'.op = call.op /\ call'.profile = call.profile
           /\ call = NoCall => call' = call
           /\ call.done => call' = call
<1>1. SessionInv'
    BY SessionSelects, SessionReplaces, SessionErases, SessionServes, SessionEnds DEF Method
<1>2. call \in Call /\ call' \in Call
    BY <1>1 DEF SessionInv, TypeOK
<1>3. Method => call.op # "none" /\ ~call.done
    BY DEF Method, SetProfile, Migrate, ClearProfile, Replacing, Replaced, NotReplaced,
        SigningOut, SignOut, RemoveProfileCredentials, Session, InvalidateAuthenticatedCookie, Running
<1>4. \A r, l : Return(r, l) => call'.op = call.op /\ call'.profile = call.profile
    BY <1>2 DEF Return, Call
<1>5. call'.op = call.op /\ call'.profile = call.profile
    BY <1>4 DEF Method, SetProfile, Migrate, ClearProfile, Replacing, Replaced, NotReplaced,
        SigningOut, SignOut, RemoveProfileCredentials, Session, Reuse, LogIn,
        InvalidateAuthenticatedCookie, Expire
<1> QED BY <1>2, <1>3, <1>5 DEF Expire, NoCall
-----------------------------------------------------------------------------
(* Every step of a handler keeps the invariant and is a step of the        *)
(* session's contract, or none.                                            *)
Fits == BrokerTypeOK' /\ RowsFit' /\ AddFits' /\ JobFits'
ContractStep == [Next]_vars

LEMMA IdleFits ==
    ASSUME job' = Resting("idle"), call' = NoCall
    PROVE  AddFits' /\ JobFits' /\ job' \in Job
BY RestingTyped, NoCallTyped DEF JobFits, AddFits, Adding, JobSteps

(* A write of the profile file, however it ends.                           *)
LEMMA WriteFits ==
    ASSUME BrokerTypeOK, RowsFit, NEW outcome \in FileOutcomes,
           NEW newRows \in Seq(Profiles), NEW newActive,
           \A i, j \in DOMAIN newRows : newRows[i] = newRows[j] => i = j,
           newActive \in {newRows[i] : i \in DOMAIN newRows} \cup {NoProfile},
           newActive = NoProfile => newRows = <<>>,
           WriteFile(outcome, newRows, newActive)
    PROVE  /\ RowsFit' /\ rows' \in Seq(Profiles) /\ active' \in Profiles \cup {NoProfile}
           /\ unsaved' \in BOOLEAN /\ (unsaved => unsaved')
           /\ outcome = "ok" => rows' = newRows /\ active' = newActive
           /\ outcome = "half" => unsaved'
           /\ ~unsaved' => outcome = "ok" \/ UNCHANGED <<rows, active>>
<1>1. {newRows[i] : i \in DOMAIN newRows} \subseteq Profiles
    OBVIOUS
<1>2. unsaved' \in BOOLEAN /\ (unsaved => unsaved') /\ (outcome = "half" => unsaved')
    BY DEF WriteFile, BrokerTypeOK
<1>3. CASE outcome \in {"ok", "half"}
    <2>1. rows' = newRows /\ active' = newActive
        BY <1>3 DEF WriteFile
    <2> QED BY <1>1, <1>2, <1>3, <2>1 DEF RowsFit, Listed, WriteFile
<1>4. CASE outcome \notin {"ok", "half"}
    <2>1. UNCHANGED <<rows, active>>
        BY <1>4 DEF WriteFile
    <2>2. RowsFit'
        BY <2>1 DEF RowsFit, Listed
    <2> QED BY <1>2, <1>4, <2>1, <2>2 DEF BrokerTypeOK
<1> QED BY <1>3, <1>4

LEMMA RowsStay ==
    ASSUME RowsFit, UNCHANGED <<rows, active>>
    PROVE  RowsFit' /\ Listed' = Listed
BY DEF RowsFit, Listed

LEMMA ActivateIsStep ==
    ASSUME NEW p \in Profiles \cup {NoProfile}, Activate(p), UNCHANGED sessionVars
    PROVE  Next
BY DEF Activate, sessionVars, Next, BeginCall

LEMMA ReleaseIsStep ==
    ASSUME call.done, Release, UNCHANGED sessionVars
    PROVE  Next
BY DEF Release, sessionVars, Next, EndCall

LEMMA RemovalIsStep ==
    ASSUME NEW p \in Profiles, Begin("remove_profile_credentials", p, NoSecret),
           UNCHANGED sessionVars
    PROVE  Next
BY DEF sessionVars, Next, BeginCall

LEMMA HandlerInit == BrokerInit => HandlerInv
<1> SUFFICES ASSUME BrokerInit PROVE HandlerInv
    OBVIOUS
<1>1. rows \in Seq(Profiles) /\ \A i, j \in DOMAIN rows : rows[i] = rows[j] => i = j
    <2>1. CASE rows = <<>>
        BY <2>1 DEF BrokerInit
    <2>2. CASE rows \in {<<p>> : p \in Profiles}
        BY <2>2 DEF BrokerInit
    <2>3. CASE rows \in Profiles \X Profiles
        <3>1. PICK p \in Profiles, q \in Profiles : rows = <<p, q>>
            BY <2>3
        <3>2. rows \in Seq(Profiles)
            BY <3>1
        <3> QED BY <3>2 DEF BrokerInit
    <2> QED BY <2>1, <2>2, <2>3 DEF BrokerInit
<1>2. active \in Listed \cup {NoProfile} /\ (active = NoProfile => rows = <<>>)
    BY <1>1, ProfilesAssumption DEF BrokerInit, Listed
<1>3. Listed \subseteq Profiles
    BY <1>1 DEF Listed
<1>4. BrokerTypeOK
    BY <1>1, <1>2, <1>3, RestingTyped DEF BrokerInit, BrokerTypeOK, Nobody, Nothing, JobSteps
<1>5. job = Resting("down") /\ call = NoCall /\ current = NoProfile
    BY DEF BrokerInit, Init
<1>6. AddFits /\ JobFits
    BY <1>5, RestingTyped, NoCallTyped DEF AddFits, Adding, JobFits, JobSteps
<1> QED BY <1>1, <1>2, <1>4, <1>6 DEF HandlerInv, RowsFit

(* The start and the end of the broker.                                    *)
LEMMA BootFits ==
    ASSUME SessionInv, HandlerInv, Boot \/ Booted \/ BrokerCrash
    PROVE  Fits /\ ContractStep
<1> USE DEF HandlerInv, Fits, ContractStep
<1>1. CASE Boot /\ active = NoProfile
    <2>1. job' = Resting("idle") /\ call' = NoCall /\ job' \in Job
        BY <1>1, IdleFits DEF Boot, Reply, JobFits
    <2>2. RowsFit' /\ BrokerTypeOK'
        BY <1>1, <2>1, RowsStay DEF Boot, fileVars, BrokerTypeOK
    <2>3. UNCHANGED vars
        BY <1>1 DEF Boot, sessionVars, vars
    <2> QED BY <2>1, <2>2, <2>3, IdleFits
<1>2. CASE Boot /\ active # NoProfile
    <2>1. active \in Profiles /\ current' = active /\ active' = active
        BY <1>2 DEF Boot, BrokerTypeOK, fileVars
    <2>2. /\ job' \in Job /\ job'.step = "boot" /\ job'.op = "none" /\ job'.profile = NoProfile
        BY <1>2, StepTyped, RestingTyped DEF Boot, BrokerTypeOK, JobFits, JobSteps
    <2>3. call' \in Call /\ call'.op = "set_profile" /\ call'.profile = active
        BY <1>2, <2>1, BeginTyped DEF Boot, Ops
    <2>4. RowsFit' /\ BrokerTypeOK'
        BY <1>2, <2>1, <2>2, RowsStay DEF Boot, fileVars, BrokerTypeOK
    <2>5. JobFits' /\ AddFits'
        BY <2>1, <2>2, <2>3 DEF JobFits, AddFits, Adding
    <2>6. Next
        BY <1>2, <2>1 DEF Boot, sessionVars, Next, BeginCall
    <2> QED BY <2>4, <2>5, <2>6
<1>3. CASE Booted
    <2>1. job' = Resting("idle") /\ call' = NoCall /\ job' \in Job
        BY <1>3, IdleFits DEF Booted, Reply, Release
    <2>2. RowsFit' /\ BrokerTypeOK'
        BY <1>3, <2>1, RowsStay DEF Booted, fileVars, BrokerTypeOK
    <2> QED BY <1>3, <2>1, <2>2, IdleFits, ReleaseIsStep DEF Booted
<1>4. CASE BrokerCrash
    <2>1. job' = Resting("down") /\ call' = NoCall
        BY <1>4 DEF BrokerCrash, Crash
    <2>2. JobFits' /\ AddFits' /\ job' \in Job
        BY <2>1, RestingTyped, NoCallTyped DEF JobFits, AddFits, Adding, JobSteps
    <2>3. RowsFit' /\ BrokerTypeOK'
        BY <1>4, <2>2, RowsStay DEF BrokerCrash, fileVars, BrokerTypeOK, Nobody, Nothing
    <2> QED BY <1>4, <2>2, <2>3 DEF BrokerCrash, Next
<1> QED BY <1>1, <1>2, <1>3, <1>4

(* profile_add and the first rock_configure.                               *)
LEMMA AddProfileFits ==
    ASSUME SessionInv, HandlerInv, NEW op \in {"profile_add", "rock_configure"}, AddProfile(op)
    PROVE  Fits /\ ContractStep
<1> USE DEF HandlerInv, Fits, ContractStep
<1>1. PICK p \in Profiles, l \in Logins, outcome \in FileOutcomes :
        /\ Idle /\ Fresh(p) /\ WriteFile(outcome, Append(rows, p), p)
        /\ IF outcome = "ok"
             THEN /\ Activate(p)
                  /\ job' = [op |-> op, step |-> "activate", profile |-> p,
                             previous |-> active, login |-> l, client |-> "none"]
             ELSE UNCHANGED <<current, at, held, whole, call, job>>
        /\ UNCHANGED sessionVars
    BY DEF AddProfile
<1>2. p \notin Listed /\ rows \in Seq(Profiles) /\ active \in Profiles \cup {NoProfile}
    BY <1>1 DEF Fresh, BrokerTypeOK
<1>3. /\ Append(rows, p) \in Seq(Profiles) /\ Len(Append(rows, p)) = Len(rows) + 1
      /\ \A i, j \in DOMAIN Append(rows, p) : Append(rows, p)[i] = Append(rows, p)[j] => i = j
      /\ {Append(rows, p)[i] : i \in DOMAIN Append(rows, p)} = Listed \cup {p}
    BY <1>2, AppendRow
<1>4. p # NoProfile
    BY ProfilesAssumption
<1>5. /\ RowsFit' /\ rows' \in Seq(Profiles) /\ active' \in Profiles \cup {NoProfile}
      /\ unsaved' \in BOOLEAN /\ (outcome = "ok" => rows' = Append(rows, p) /\ active' = p)
    BY <1>1, <1>3, <1>4, WriteFits
<1>6. CASE outcome # "ok"
    <2>1. job' = Resting("idle") /\ call' = NoCall /\ job' \in Job
        BY <1>1, <1>6, IdleFits, RestingTyped DEF Idle, JobFits, JobSteps
    <2>2. BrokerTypeOK'
        BY <1>1, <1>5, <1>6, <2>1 DEF BrokerTypeOK
    <2>3. UNCHANGED vars
        BY <1>1, <1>6 DEF sessionVars, vars
    <2> QED BY <1>5, <2>1, <2>2, <2>3, IdleFits
<1>7. CASE outcome = "ok"
    <2>1. /\ current' = p /\ whole' = FALSE
          /\ at' \in [Clients -> Profiles \cup {NoProfile}]
          /\ held' \in [Clients -> Cookie \cup {NoCookie}]
          /\ call' \in Call /\ call'.profile = p /\ call'.op = "set_profile"
        BY <1>1, <1>4, <1>7, ActivateTyped
    <2> DEFINE new == [op |-> op, step |-> "activate", profile |-> p,
                       previous |-> active, login |-> l, client |-> "none"]
    <2>2. job' = new
        BY <1>1, <1>7
    <2>3. new \in Job
        BY <1>2 DEF Job, Handlers, JobSteps
    <2>4. /\ job' \in Job /\ job'.op = op /\ job'.step = "activate" /\ job'.profile = p
          /\ job'.previous = active /\ job'.login = l
        BY <2>2, <2>3
    <2> HIDE DEF new
    <2>5. BrokerTypeOK'
        BY <1>5, <2>1, <2>4 DEF BrokerTypeOK
    <2>6. Listed' = Listed \cup {p} /\ active' = p
        BY <1>3, <1>5, <1>7 DEF Listed
    <2>7. active = NoProfile => Len(rows') = 1
        BY <1>3, <1>5, <1>7 DEF RowsFit
    <2>8. AddFits'
        BY <1>2, <2>1, <2>4, <2>6, <2>7 DEF AddFits, Adding, RowsFit
    <2>9. JobFits'
        BY <2>1, <2>4 DEF JobFits
    <2> QED BY <1>1, <1>5, <1>7, <2>5, <2>8, <2>9, ActivateIsStep
<1> QED BY <1>6, <1>7

LEMMA AddActivatedFits ==
    ASSUME SessionInv, HandlerInv, AddActivated
    PROVE  Fits /\ ContractStep
<1> USE DEF HandlerInv, Fits, ContractStep
<1>1. /\ job.step = "activate" /\ call.done /\ profile_id = current
      /\ job.profile = current /\ job.login \in Logins /\ profile_id \in Profiles
    BY DEF AddActivated, Returned, JobFits, AddFits, Adding, SessionInv, CallFits, BrokerTypeOK, Listed
<1>2. /\ whole' = TRUE /\ at' \in [Clients -> Profiles \cup {NoProfile}]
      /\ held' \in [Clients -> Cookie \cup {NoCookie}]
    BY FinishTyped DEF AddActivated
<1>3. call' \in Call /\ call'.op = "configure" /\ call'.profile = profile_id
    BY <1>1, BeginTyped DEF AddActivated, Ops
<1>4. /\ job' \in Job /\ job'.step = "configure" /\ job'.op = job.op /\ job'.profile = job.profile
      /\ job'.previous = job.previous /\ job'.login = job.login
    BY StepTyped DEF AddActivated, BrokerTypeOK, JobSteps
<1>5. UNCHANGED <<rows, active, unsaved, current, sessionVars>>
    BY DEF AddActivated, fileVars
<1>6. RowsFit' /\ Listed' = Listed
    BY <1>5, RowsStay
<1>7. BrokerTypeOK'
    BY <1>2, <1>4, <1>5 DEF BrokerTypeOK
<1>8. AddFits'
    BY <1>1, <1>4, <1>5, <1>6 DEF AddFits, Adding
<1>9. JobFits'
    BY <1>1, <1>3, <1>4 DEF JobFits, AddFits, Adding
<1>10. Next
    BY <1>1, <1>5 DEF AddActivated, sessionVars, Next, BeginCall
<1> QED BY <1>6, <1>7, <1>8, <1>9, <1>10

LEMMA AddFailedFits ==
    ASSUME SessionInv, HandlerInv, AddFailed
    PROVE  Fits /\ ContractStep
<1> USE DEF HandlerInv, Fits, ContractStep
<1>1. Adding /\ job.profile \in Profiles
    BY DEF AddFailed, Adding, AddFits, Listed, BrokerTypeOK
<1>2. call' \in Call /\ call'.op = "remove_profile_credentials" /\ call'.profile = job.profile
    BY <1>1, BeginTyped DEF AddFailed, Ops
<1>3. /\ job' \in Job /\ job'.step = "unwind" /\ job'.op = job.op /\ job'.profile = job.profile
      /\ job'.previous = job.previous /\ job'.login = job.login
    BY StepTyped DEF AddFailed, BrokerTypeOK, JobSteps
<1>4. UNCHANGED <<rows, active, unsaved, current, at, held, whole, sessionVars>>
    BY DEF AddFailed, fileVars
<1>5. RowsFit' /\ Listed' = Listed
    BY <1>4, RowsStay
<1>6. BrokerTypeOK'
    BY <1>3, <1>4 DEF BrokerTypeOK
<1>7. AddFits'
    BY <1>1, <1>3, <1>4, <1>5 DEF AddFits, Adding
<1>8. JobFits'
    BY <1>1, <1>2, <1>3 DEF JobFits, AddFits
<1>9. Next
    BY <1>1, <1>4, RemovalIsStep DEF AddFailed
<1> QED BY <1>5, <1>6, <1>7, <1>8, <1>9

LEMMA UnwindFits ==
    ASSUME SessionInv, HandlerInv, Unwind
    PROVE  Fits /\ ContractStep
<1> USE DEF HandlerInv, Fits, ContractStep
<1>1. /\ job.step = "unwind" /\ call.done /\ job.profile \in Listed /\ job.profile = active
      /\ job.previous # NoProfile => job.previous \in Listed \ {job.profile}
      /\ job.previous = NoProfile => Len(rows) = 1
      /\ UNCHANGED sessionVars
    BY DEF Unwind, Returned, AddFits, Adding
<1>2. /\ Without(job.profile) \in Seq(Profiles) /\ Len(Without(job.profile)) = Len(rows) - 1
      /\ \A i, j \in DOMAIN Without(job.profile) :
            Without(job.profile)[i] = Without(job.profile)[j] => i = j
      /\ {Without(job.profile)[i] : i \in DOMAIN Without(job.profile)} = Listed \ {job.profile}
    BY <1>1, WithoutRows DEF BrokerTypeOK
<1>3. /\ ActiveWithout(job.profile) \in (Listed \ {job.profile}) \cup {NoProfile}
      /\ ActiveWithout(job.profile) = NoProfile => Without(job.profile) = <<>>
    BY <1>1, ActiveWithoutRow DEF BrokerTypeOK
<1>4. ASSUME Reply, Release, UNCHANGED <<current, at, held, whole>>,
             RowsFit', rows' \in Seq(Profiles), active' \in Profiles \cup {NoProfile},
             unsaved' \in BOOLEAN
      PROVE  Fits /\ ContractStep
    <2>1. job' = Resting("idle") /\ call' = NoCall /\ job' \in Job
        BY <1>4, IdleFits DEF Reply, Release
    <2>2. BrokerTypeOK'
        BY <1>4, <2>1 DEF BrokerTypeOK
    <2> QED BY <1>1, <1>4, <2>1, <2>2, IdleFits, ReleaseIsStep
<1>5. CASE Reply /\ Release /\ UNCHANGED <<fileVars, current, at, held, whole>>
    BY <1>4, <1>5, RowsStay DEF fileVars, BrokerTypeOK
<1>6. CASE \E outcome \in FileOutcomes :
             /\ WriteFile(outcome, Without(job.profile), ActiveWithout(job.profile))
             /\ \/ /\ outcome # "ok"
                   /\ Reply /\ Release
                   /\ UNCHANGED <<current, at, held, whole>>
                \/ /\ outcome = "ok" /\ job.previous # NoProfile
                   /\ Step("unwind_select") /\ Release
                   /\ UNCHANGED <<current, at, held, whole>>
                \/ /\ outcome = "ok" /\ job.previous = NoProfile
                   /\ Activate(NoProfile) /\ Step("reactivate")
    <2>1. PICK outcome \in FileOutcomes :
             /\ WriteFile(outcome, Without(job.profile), ActiveWithout(job.profile))
             /\ \/ /\ outcome # "ok"
                   /\ Reply /\ Release
                   /\ UNCHANGED <<current, at, held, whole>>
                \/ /\ outcome = "ok" /\ job.previous # NoProfile
                   /\ Step("unwind_select") /\ Release
                   /\ UNCHANGED <<current, at, held, whole>>
                \/ /\ outcome = "ok" /\ job.previous = NoProfile
                   /\ Activate(NoProfile) /\ Step("reactivate")
        BY <1>6
    <2>2. /\ RowsFit' /\ rows' \in Seq(Profiles) /\ active' \in Profiles \cup {NoProfile}
          /\ unsaved' \in BOOLEAN
          /\ outcome = "ok" => rows' = Without(job.profile) /\ active' = ActiveWithout(job.profile)
        BY <1>2, <1>3, <2>1, WriteFits
    <2>3. CASE outcome # "ok"
        BY <1>4, <2>1, <2>2, <2>3
    <2>4. CASE outcome = "ok" /\ job.previous # NoProfile
        <3>1. Step("unwind_select") /\ Release /\ UNCHANGED <<current, at, held, whole>>
            BY <2>1, <2>4
        <3>2. /\ job' \in Job /\ job'.step = "unwind_select" /\ job'.op = job.op
              /\ job'.previous = job.previous
            BY <3>1, StepTyped DEF BrokerTypeOK, JobSteps
        <3>3. Listed' = Listed \ {job.profile} /\ call' = NoCall
            BY <1>2, <2>2, <2>4, <3>1 DEF Listed, Release
        <3>4. BrokerTypeOK'
            BY <2>2, <3>1, <3>2 DEF BrokerTypeOK
        <3>5. JobFits' /\ AddFits'
            BY <1>1, <2>4, <3>2, <3>3, NoCallTyped DEF JobFits, AddFits, Adding
        <3> QED BY <1>1, <2>2, <3>1, <3>4, <3>5, ReleaseIsStep
    <2>5. CASE outcome = "ok" /\ job.previous = NoProfile
        <3>1. Activate(NoProfile) /\ Step("reactivate")
            BY <2>1, <2>5
        <3>2. /\ current' = NoProfile /\ whole' = FALSE
              /\ at' \in [Clients -> Profiles \cup {NoProfile}]
              /\ held' \in [Clients -> Cookie \cup {NoCookie}]
              /\ call' \in Call /\ call'.op = "clear_profile"
            BY <3>1, ActivateTyped
        <3>3. job' \in Job /\ job'.step = "reactivate" /\ job'.op = job.op
            BY <3>1, StepTyped DEF BrokerTypeOK, JobSteps
        <3>4. BrokerTypeOK'
            BY <2>2, <3>2, <3>3 DEF BrokerTypeOK
        <3>5. JobFits' /\ AddFits'
            BY <1>1, <3>2, <3>3 DEF JobFits, AddFits, Adding
        <3> QED BY <1>1, <2>2, <3>1, <3>4, <3>5, ActivateIsStep
    <2> QED BY <2>1, <2>3, <2>4, <2>5
<1> QED BY <1>5, <1>6 DEF Unwind

LEMMA UnwindSelectFits ==
    ASSUME SessionInv, HandlerInv, UnwindSelect
    PROVE  Fits /\ ContractStep
<1> USE DEF HandlerInv, Fits, ContractStep
<1>1. /\ job.step = "unwind_select" /\ call = NoCall /\ job.previous \in Listed
      /\ job.previous \in Profiles /\ UNCHANGED sessionVars
    BY DEF UnwindSelect, JobFits, AddFits, Listed, BrokerTypeOK
<1>2. PICK outcome \in FileOutcomes :
        /\ WriteFile(outcome, rows, job.previous)
        /\ IF outcome = "ok"
             THEN Activate(job.previous) /\ Step("reactivate")
             ELSE Reply /\ UNCHANGED <<current, at, held, whole, call>>
    BY DEF UnwindSelect
<1>3. /\ RowsFit' /\ rows' \in Seq(Profiles) /\ active' \in Profiles \cup {NoProfile}
      /\ unsaved' \in BOOLEAN
    BY <1>1, <1>2, WriteFits, ProfilesAssumption DEF RowsFit, BrokerTypeOK, Listed
<1>4. CASE outcome # "ok"
    <2>1. job' = Resting("idle") /\ call' = NoCall /\ job' \in Job
        BY <1>1, <1>2, <1>4, IdleFits DEF Reply
    <2>2. BrokerTypeOK'
        BY <1>2, <1>3, <1>4, <2>1 DEF BrokerTypeOK
    <2>3. UNCHANGED vars
        BY <1>1, <1>2, <1>4 DEF sessionVars, vars
    <2> QED BY <1>3, <2>1, <2>2, <2>3, IdleFits
<1>5. CASE outcome = "ok"
    <2>1. /\ current' = job.previous /\ whole' = FALSE
          /\ at' \in [Clients -> Profiles \cup {NoProfile}]
          /\ held' \in [Clients -> Cookie \cup {NoCookie}]
          /\ call' \in Call /\ call'.op = "set_profile" /\ call'.profile = job.previous
        BY <1>1, <1>2, <1>5, ActivateTyped, ProfilesAssumption
    <2>2. job' \in Job /\ job'.step = "reactivate" /\ job'.op = job.op
        BY <1>2, <1>5, StepTyped DEF BrokerTypeOK, JobSteps
    <2>3. BrokerTypeOK'
        BY <1>1, <1>3, <2>1, <2>2 DEF BrokerTypeOK
    <2>4. JobFits' /\ AddFits'
        BY <1>1, <2>1, <2>2, ProfilesAssumption DEF JobFits, AddFits, Adding
    <2> QED BY <1>1, <1>2, <1>3, <1>5, <2>3, <2>4, ActivateIsStep
<1> QED BY <1>4, <1>5

LEMMA ReactivatedFits ==
    ASSUME SessionInv, HandlerInv, Reactivated
    PROVE  Fits /\ ContractStep
<1> USE DEF HandlerInv, Fits, ContractStep
<1>1. /\ job' = Resting("idle") /\ call' = NoCall /\ job' \in Job
      /\ call.done /\ UNCHANGED <<sessionVars, rows, active, unsaved, current>>
    BY IdleFits DEF Reactivated, Reply, Release, Returned, fileVars
<1>2. /\ whole' \in BOOLEAN /\ at' \in [Clients -> Profiles \cup {NoProfile}]
      /\ held' \in [Clients -> Cookie \cup {NoCookie}]
    BY FinishTyped DEF Reactivated, BrokerTypeOK
<1>3. RowsFit' /\ BrokerTypeOK'
    BY <1>1, <1>2, RowsStay DEF BrokerTypeOK
<1> QED BY <1>1, <1>3, IdleFits, ReleaseIsStep DEF Reactivated

(* profile_switch and profile_remove.                                      *)
LEMMA SwitchFits ==
    ASSUME SessionInv, HandlerInv, ProfileSwitch
    PROVE  Fits /\ ContractStep
<1> USE DEF HandlerInv, Fits, ContractStep
<1>1. PICK p \in Listed, outcome \in FileOutcomes :
        /\ Idle /\ WriteFile(outcome, rows, p)
        /\ IF outcome = "ok"
             THEN /\ Activate(p)
                  /\ job' = [Resting("reactivate") EXCEPT !.op = "profile_switch",
                                                          !.profile = p]
             ELSE UNCHANGED <<current, at, held, whole, call, job>>
        /\ UNCHANGED sessionVars
    BY DEF ProfileSwitch
<1>2. p \in Profiles /\ p # NoProfile
    BY ProfilesAssumption DEF Listed, BrokerTypeOK
<1>3. /\ RowsFit' /\ rows' \in Seq(Profiles) /\ active' \in Profiles \cup {NoProfile}
      /\ unsaved' \in BOOLEAN
    BY <1>1, <1>2, WriteFits DEF RowsFit, BrokerTypeOK, Listed
<1>4. CASE outcome # "ok"
    <2>1. job' = Resting("idle") /\ call' = NoCall /\ job' \in Job
        BY <1>1, <1>4, IdleFits, RestingTyped DEF Idle, JobFits, JobSteps
    <2>2. BrokerTypeOK'
        BY <1>1, <1>3, <1>4, <2>1 DEF BrokerTypeOK
    <2>3. UNCHANGED vars
        BY <1>1, <1>4 DEF sessionVars, vars
    <2> QED BY <1>3, <2>1, <2>2, <2>3, IdleFits
<1>5. CASE outcome = "ok"
    <2>1. /\ current' = p /\ whole' = FALSE
          /\ at' \in [Clients -> Profiles \cup {NoProfile}]
          /\ held' \in [Clients -> Cookie \cup {NoCookie}]
          /\ call' \in Call /\ call'.op = "set_profile" /\ call'.profile = p
        BY <1>1, <1>2, <1>5, ActivateTyped
    <2>2. job' = [Resting("reactivate") EXCEPT !.op = "profile_switch", !.profile = p]
        BY <1>1, <1>5
    <2>3. job' \in Job /\ job'.step = "reactivate" /\ job'.op = "profile_switch"
        BY <1>2, <2>2 DEF Resting, Job, Handlers, JobSteps
    <2>4. BrokerTypeOK'
        BY <1>2, <1>3, <2>1, <2>3 DEF BrokerTypeOK
    <2>5. JobFits' /\ AddFits'
        BY <1>2, <2>1, <2>3 DEF JobFits, AddFits, Adding
    <2> QED BY <1>1, <1>2, <1>3, <1>5, <2>4, <2>5, ActivateIsStep
<1> QED BY <1>4, <1>5

LEMMA RemoveFits ==
    ASSUME SessionInv, HandlerInv, ProfileRemove
    PROVE  Fits /\ ContractStep
<1> USE DEF HandlerInv, Fits, ContractStep
<1>1. PICK p \in Listed :
        /\ job' = [Resting("remove") EXCEPT !.op = "profile_remove", !.profile = p]
        /\ Begin("remove_profile_credentials", p, NoSecret)
        /\ UNCHANGED <<sessionVars, fileVars, current, at, held, whole>>
    BY DEF ProfileRemove
<1>2. p \in Profiles
    BY DEF Listed, BrokerTypeOK
<1>3. call' \in Call /\ call'.op = "remove_profile_credentials" /\ call'.profile = p
    BY <1>1, <1>2, BeginTyped DEF Ops
<1>4. /\ job' \in Job /\ job'.step = "remove" /\ job'.op = "profile_remove" /\ job'.profile = p
    BY <1>1, <1>2 DEF Resting, Job, Handlers, JobSteps
<1>5. RowsFit' /\ Listed' = Listed
    BY <1>1, RowsStay DEF fileVars
<1>6. BrokerTypeOK'
    BY <1>1, <1>4 DEF BrokerTypeOK, fileVars
<1>7. JobFits' /\ AddFits'
    BY <1>1, <1>3, <1>4, <1>5 DEF JobFits, AddFits, Adding
<1> QED BY <1>1, <1>2, <1>5, <1>6, <1>7, RemovalIsStep

LEMMA RemoveRowFits ==
    ASSUME SessionInv, HandlerInv, RemoveRow
    PROVE  Fits /\ ContractStep
<1> USE DEF HandlerInv, Fits, ContractStep
<1>1. job.step = "remove" /\ call.done /\ job.profile \in Listed /\ UNCHANGED sessionVars
    BY DEF RemoveRow, Returned, JobFits
<1>2. ASSUME Reply, Release, UNCHANGED <<current, at, held, whole>>,
             RowsFit', rows' \in Seq(Profiles), active' \in Profiles \cup {NoProfile},
             unsaved' \in BOOLEAN
      PROVE  Fits /\ ContractStep
    <2>1. job' = Resting("idle") /\ call' = NoCall /\ job' \in Job
        BY <1>2, IdleFits DEF Reply, Release
    <2>2. BrokerTypeOK'
        BY <1>2, <2>1 DEF BrokerTypeOK
    <2> QED BY <1>1, <1>2, <2>1, <2>2, IdleFits, ReleaseIsStep
<1>3. CASE Reply /\ Release /\ UNCHANGED <<fileVars, current, at, held, whole>>
    BY <1>2, <1>3, RowsStay DEF fileVars, BrokerTypeOK
<1>4. ASSUME NEW outcome \in FileOutcomes,
             WriteFile(outcome, Without(job.profile), ActiveWithout(job.profile)),
             IF outcome = "ok" /\ job.profile = current
               THEN Activate(ActiveWithout(job.profile)) /\ Step("reactivate")
               ELSE Reply /\ Release /\ UNCHANGED <<current, at, held, whole>>
      PROVE  Fits /\ ContractStep
    <2> DEFINE q == ActiveWithout(job.profile)
    <2>1. /\ Without(job.profile) \in Seq(Profiles)
          /\ \A i, j \in DOMAIN Without(job.profile) :
                Without(job.profile)[i] = Without(job.profile)[j] => i = j
          /\ {Without(job.profile)[i] : i \in DOMAIN Without(job.profile)} = Listed \ {job.profile}
        BY <1>1, WithoutRows DEF BrokerTypeOK
    <2>2. /\ q \in (Listed \ {job.profile}) \cup {NoProfile}
          /\ q = NoProfile => Without(job.profile) = <<>>
        BY <1>1, ActiveWithoutRow DEF BrokerTypeOK
    <2>3. q \in Profiles \cup {NoProfile}
        BY <2>2 DEF Listed, BrokerTypeOK
    <2> HIDE DEF q
    <2>4. /\ RowsFit' /\ rows' \in Seq(Profiles) /\ active' \in Profiles \cup {NoProfile}
          /\ unsaved' \in BOOLEAN
        BY <1>4, <2>1, <2>2, WriteFits DEF q
    <2>5. CASE ~(outcome = "ok" /\ job.profile = current)
        BY <1>2, <1>4, <2>4, <2>5
    <2>6. CASE outcome = "ok" /\ job.profile = current
        <3>1. Activate(q) /\ Step("reactivate")
            BY <1>4, <2>6 DEF q
        <3>2. /\ current' = q /\ whole' = FALSE
              /\ at' \in [Clients -> Profiles \cup {NoProfile}]
              /\ held' \in [Clients -> Cookie \cup {NoCookie}]
              /\ call' \in Call /\ call'.profile = q
              /\ call'.op = IF q = NoProfile THEN "clear_profile" ELSE "set_profile"
            BY <2>3, <3>1, ActivateTyped
        <3>3. job' \in Job /\ job'.step = "reactivate" /\ job'.op = job.op
            BY <3>1, StepTyped DEF BrokerTypeOK, JobSteps
        <3>4. BrokerTypeOK'
            BY <2>3, <2>4, <3>2, <3>3 DEF BrokerTypeOK
        <3>5. JobFits' /\ AddFits'
            BY <1>1, <3>2, <3>3 DEF JobFits, AddFits, Adding
        <3> QED BY <1>1, <2>3, <2>4, <3>1, <3>4, <3>5, ActivateIsStep
    <2> QED BY <2>5, <2>6
<1> QED BY <1>3, <1>4 DEF RemoveRow

(* The handlers about the login of the active profile.                     *)
LEMMA ForActiveFits ==
    ASSUME SessionInv, HandlerInv,
           RockConfigure \/ ProfileCredentialsUpdate \/ ProfileSignOut \/ ProfileTest
    PROVE  Fits /\ ContractStep
<1> USE DEF HandlerInv, Fits, ContractStep
<1>1. PICK op \in Handlers, method \in {"configure", "sign_out", "test_connection"},
           l \in Logins \cup {NoSecret} :
        /\ ForActive(op, method, l)
        /\ IF method = "configure"
             THEN l \in Logins /\ op \in {"rock_configure", "profile_credentials_update"}
             ELSE l = NoSecret
        /\ method = "sign_out" => op = "profile_sign_out"
        /\ method = "test_connection" => op = "profile_test"
    BY DEF RockConfigure, ProfileCredentialsUpdate, ProfileSignOut, ProfileTest, Handlers
<1>2. profile_id \in Profiles \cup {NoProfile}
    BY DEF SessionInv, TypeOK
<1>3. /\ call' \in Call /\ call'.op = method /\ call'.profile = profile_id
    BY <1>1, <1>2, BeginTyped DEF ForActive, Ops
<1>4. /\ job' \in Job /\ job'.op = op /\ job'.profile = NoProfile /\ job'.client = "none"
      /\ job'.step = IF method = "configure" THEN "configure" ELSE "wait"
    BY <1>1 DEF ForActive, Resting, Job, Handlers, JobSteps
<1>5. UNCHANGED <<rows, active, unsaved, current, at, held, whole, sessionVars>>
    BY <1>1 DEF ForActive, fileVars
<1>6. RowsFit' /\ BrokerTypeOK'
    BY <1>4, <1>5, RowsStay DEF BrokerTypeOK
<1>7. "none" \notin Clients
    BY ClientsAssumption
<1>8. JobFits' /\ AddFits'
    BY <1>1, <1>3, <1>4, <1>7 DEF JobFits, AddFits, Adding
<1>9. Next
    <2>1. Begin(method, profile_id, l) /\ UNCHANGED <<saved, older, profile_id, cookie, ack>>
        BY <1>1, <1>5 DEF ForActive, sessionVars
    <2>2. CASE method = "configure"
        BY <1>1, <2>1, <2>2 DEF Next, BeginCall
    <2>3. CASE method \in {"sign_out", "test_connection"}
        BY <1>1, <2>1, <2>3 DEF Next, BeginCall
    <2> QED BY <2>2, <2>3
<1> QED BY <1>6, <1>8, <1>9

LEMMA LoginChangedFits ==
    ASSUME SessionInv, HandlerInv, Configured \/ SignedOut \/ Tested
    PROVE  Fits /\ ContractStep
<1> USE DEF HandlerInv, Fits, ContractStep
<1>1. /\ job' = Resting("idle") /\ call' = NoCall /\ job' \in Job
      /\ call.done /\ Release /\ UNCHANGED <<sessionVars, rows, active, current, at, whole>>
    BY IdleFits DEF Configured, SignedOut, Tested, Reply, Release, Returned, fileVars
<1>2. held' \in [Clients -> Cookie \cup {NoCookie}] /\ unsaved' \in BOOLEAN
    BY DEF Configured, SignedOut, Tested, Nothing, BrokerTypeOK, fileVars
<1>3. RowsFit' /\ BrokerTypeOK'
    BY <1>1, <1>2, RowsStay DEF BrokerTypeOK
<1> QED BY <1>1, <1>3, IdleFits, ReleaseIsStep

(* Requests of clients, and set_context.                                   *)
LEMMA RequestFits ==
    ASSUME SessionInv, HandlerInv, ClientRequest
    PROVE  Fits /\ ContractStep
<1> USE DEF HandlerInv, Fits, ContractStep
<1>1. PICK c \in Clients :
        /\ job' = [Resting("wait") EXCEPT !.op = "request", !.client = c]
        /\ Begin("authenticated_cookie", profile_id, NoSecret)
        /\ UNCHANGED <<sessionVars, fileVars, current, at, held, whole>>
    BY DEF ClientRequest
<1>2. profile_id \in Profiles \cup {NoProfile}
    BY DEF SessionInv, TypeOK
<1>3. call' \in Call /\ call'.op = "authenticated_cookie" /\ call'.profile = profile_id
    BY <1>1, <1>2, BeginTyped DEF Ops
<1>4. /\ job' \in Job /\ job'.op = "request" /\ job'.step = "wait" /\ job'.client = c
    BY <1>1 DEF Resting, Job, Handlers, JobSteps
<1>5. RowsFit' /\ BrokerTypeOK'
    BY <1>1, <1>4, RowsStay DEF BrokerTypeOK, fileVars
<1>6. JobFits' /\ AddFits'
    BY <1>3, <1>4 DEF JobFits, AddFits, Adding
<1>7. Next
    BY <1>1 DEF sessionVars, Next, BeginCall
<1> QED BY <1>5, <1>6, <1>7

LEMMA AnsweredFits ==
    ASSUME SessionInv, HandlerInv, Answered
    PROVE  Fits /\ ContractStep
<1> USE DEF HandlerInv, Fits, ContractStep
<1>1. /\ job.op = "request" /\ job.step = "wait" /\ call.op = "authenticated_cookie"
      /\ job.client \in Clients /\ call.done /\ call' = NoCall
      /\ UNCHANGED <<sessionVars, rows, active, unsaved, current, at, whole>>
    BY DEF Answered, Returned, JobFits, Release, fileVars
<1>2. held' \in [Clients -> Cookie \cup {NoCookie}]
    <2>1. CASE held' = held
        BY <2>1 DEF BrokerTypeOK
    <2>2. CASE /\ Returned("ok")
               /\ held' = [held EXCEPT ![job.client] =
                             [profile |-> call.profile, login |-> call.login]]
        <3>1. call.profile \in Profiles /\ call.login \in Logins
            BY <1>1, <2>2 DEF Returned, SessionInv, ResultAsTold, CallFits
        <3>2. [profile |-> call.profile, login |-> call.login] \in Cookie
            BY <3>1, CookieTyped
        <3> QED BY <2>2, <3>2 DEF BrokerTypeOK
    <2> QED BY <2>1, <2>2 DEF Answered
<1>3. CASE Reply
    <2>1. job' = Resting("idle") /\ job' \in Job
        BY <1>1, <1>3, IdleFits DEF Reply
    <2>2. RowsFit' /\ BrokerTypeOK'
        BY <1>1, <1>2, <2>1, RowsStay DEF BrokerTypeOK
    <2> QED BY <1>1, <2>1, <2>2, IdleFits, ReleaseIsStep DEF Answered
<1>4. CASE Step("refused")
    <2>1. job' \in Job /\ job'.step = "refused" /\ job'.op = "request" /\ job'.client = job.client
        BY <1>1, <1>4, StepTyped DEF BrokerTypeOK, JobSteps
    <2>2. RowsFit' /\ BrokerTypeOK'
        BY <1>1, <1>2, <2>1, RowsStay DEF BrokerTypeOK
    <2>3. JobFits' /\ AddFits'
        BY <1>1, <2>1 DEF JobFits, AddFits, Adding
    <2> QED BY <1>1, <2>2, <2>3, ReleaseIsStep DEF Answered
<1> QED BY <1>3, <1>4 DEF Answered

LEMMA RefusedFits ==
    ASSUME SessionInv, HandlerInv, Refused
    PROVE  Fits /\ ContractStep
<1> USE DEF HandlerInv, Fits, ContractStep
<1>1. /\ job.step = "refused" /\ (call = NoCall \/ call.op = "invalidate_authenticated_cookie")
      /\ UNCHANGED <<sessionVars, rows, active, unsaved, current, at, held, whole>>
    BY DEF Refused, JobFits, fileVars
<1>2. CASE Begin("invalidate_authenticated_cookie", profile_id, NoSecret) /\ UNCHANGED job
    <2>1. profile_id \in Profiles \cup {NoProfile}
        BY DEF SessionInv, TypeOK
    <2>2. call' \in Call /\ call'.op = "invalidate_authenticated_cookie"
        BY <1>2, <2>1, BeginTyped DEF Ops
    <2>3. RowsFit' /\ BrokerTypeOK'
        BY <1>1, <1>2, RowsStay DEF BrokerTypeOK
    <2>4. JobFits' /\ AddFits'
        BY <1>1, <1>2, <2>2 DEF JobFits, AddFits, Adding
    <2>5. Next
        BY <1>1, <1>2 DEF sessionVars, Next, BeginCall
    <2> QED BY <2>3, <2>4, <2>5
<1>3. CASE call.op = "none" /\ Reply /\ UNCHANGED call
    <2>1. job' = Resting("idle") /\ call' = NoCall /\ job' \in Job
        BY <1>1, <1>3, IdleFits DEF Reply
    <2>2. RowsFit' /\ BrokerTypeOK'
        BY <1>1, <2>1, RowsStay DEF BrokerTypeOK
    <2>3. UNCHANGED vars
        BY <1>1, <1>3 DEF sessionVars, vars
    <2> QED BY <2>1, <2>2, <2>3, IdleFits
<1>4. CASE call.done /\ Reply /\ Release
    <2>1. job' = Resting("idle") /\ call' = NoCall /\ job' \in Job
        BY <1>4, IdleFits DEF Reply, Release
    <2>2. RowsFit' /\ BrokerTypeOK'
        BY <1>1, <2>1, RowsStay DEF BrokerTypeOK
    <2> QED BY <1>1, <1>4, <2>1, <2>2, IdleFits, ReleaseIsStep
<1> QED BY <1>2, <1>3, <1>4 DEF Refused

LEMMA ContextFits ==
    ASSUME SessionInv, HandlerInv, SetContext
    PROVE  Fits /\ ContractStep
<1> USE DEF HandlerInv, Fits, ContractStep
<1>1. UNCHANGED <<vars, rows, active, unsaved, current, at, whole, job>>
    BY DEF SetContext, fileVars
<1>2. held' \in [Clients -> Cookie \cup {NoCookie}]
    BY DEF SetContext, BrokerTypeOK
<1>3. RowsFit' /\ BrokerTypeOK' /\ Listed' = Listed
    BY <1>1, <1>2, RowsStay DEF BrokerTypeOK
<1>4. JobFits' /\ AddFits'
    BY <1>1, <1>3 DEF JobFits, AddFits, Adding, vars
<1> QED BY <1>1, <1>3, <1>4

LEMMA SessionStepFits ==
    ASSUME SessionInv, HandlerInv, SessionStep
    PROVE  Fits /\ ContractStep
<1> USE DEF HandlerInv, Fits, ContractStep
<1>1. /\ call' \in Call /\ call'.op = call.op /\ call'.profile = call.profile
      /\ call = NoCall => call' = call
    BY MethodFits DEF SessionStep
<1>2. UNCHANGED <<rows, active, unsaved, current, at, held, whole, job>>
    BY DEF SessionStep, brokerVars
<1>3. RowsFit' /\ BrokerTypeOK' /\ Listed' = Listed
    BY <1>2, RowsStay DEF BrokerTypeOK
<1>4. JobFits' /\ AddFits'
    BY <1>1, <1>2, <1>3 DEF JobFits, AddFits, Adding
<1> QED BY <1>3, <1>4 DEF SessionStep, Next

LEMMA HandlerNext ==
    ASSUME SessionInv, HandlerInv, [BrokerNext]_allVars
    PROVE  HandlerInv' /\ [Next]_vars
<1>1. CASE BrokerNext
    <2>1. Fits /\ ContractStep
        BY <1>1, BootFits, AddProfileFits, AddActivatedFits, AddFailedFits, UnwindFits,
           UnwindSelectFits, ReactivatedFits, SwitchFits, RemoveFits, RemoveRowFits,
           ForActiveFits, LoginChangedFits, RequestFits, AnsweredFits, RefusedFits,
           ContextFits, SessionStepFits
           DEF BrokerNext, ProfileAdd, RockConfigureFirst
    <2> QED BY <2>1 DEF Fits, ContractStep, HandlerInv
<1>2. CASE UNCHANGED allVars
    <2>1. UNCHANGED <<vars, rows, active, unsaved, current, at, held, whole, job, call>>
        BY <1>2 DEF allVars, brokerVars, vars
    <2>2. RowsFit' /\ BrokerTypeOK' /\ Listed' = Listed
        BY <2>1, RowsStay DEF BrokerTypeOK, HandlerInv
    <2>3. JobFits' /\ AddFits'
        BY <2>1, <2>2 DEF JobFits, AddFits, Adding, HandlerInv
    <2> QED BY <2>1, <2>2, <2>3 DEF HandlerInv
<1> QED BY <1>1, <1>2

BothInv == SessionInv /\ HandlerInv

LEMMA BothNext == BothInv /\ [BrokerNext]_allVars => BothInv' /\ [Next]_vars
BY HandlerNext, SessionNext DEF BothInv

LEMMA BothKept == BrokerSpec => []BothInv
<1>1. BrokerInit => BothInv
    BY HandlerInit, SessionInit DEF BrokerInit, BothInv
<1> QED BY <1>1, BothNext, PTL DEF BrokerSpec

(* The handlers' state is well typed.                                      *)
THEOREM BrokerTyped == BrokerSpec => []BrokerTypeOK
<1>1. BothInv => BrokerTypeOK
    BY DEF BothInv, HandlerInv
<1> QED BY <1>1, BothKept, PTL

-----------------------------------------------------------------------------
(* What the handlers keep true between the profile file, the session, the  *)
(* saved logins and the clients: the invariants of ProfileLifecycle.       *)

(* The profile changes in the session while it is being activated.         *)
Moving == job.step \in {"boot", "activate", "reactivate"}
SelectedFits ==
    /\ ~Moving => profile_id = current
    /\ job.step = "down" => profile_id = NoProfile
FileFits == unsaved \/ job.step \in {"down", "unwind_select"} \/ active = current

(* Clients have been told of the selected profile.                         *)
ToldFits ==
    job.step \notin {"down", "boot"} /\ current # NoProfile =>
        \A c \in Clients : c \in ResetFirst \/ whole => at[c] = current

(* What clients hold is of the selected profile; what Magnus holds, of the *)
(* server it was told of.                                                  *)
HeldFits ==
    /\ current = NoProfile \/ job.step \in {"down", "boot"} => held = Nothing
    /\ \A c \in Clients : held[c] # NoCookie =>
        IF c = "magnus" THEN SameServer(held[c].profile, at[c]) ELSE held[c].profile = current

(* And it is of the saved login, until the handler that saved another one  *)
(* has cleared it.                                                         *)
Saved(p) == call.op = "configure" /\ Returned("ok") /\ p = profile_id
LoginFits ==
    unsaved \/ \A c \in Clients : held[c] # NoCookie /\ ack[held[c].profile] # NoSecret =>
        held[c].login = ack[held[c].profile] \/ Saved(held[c].profile)

AgreeInv ==
    /\ BothInv /\ SelectedFits /\ FileFits /\ RemovedProfileLeavesNoLogin
    /\ ToldFits /\ HeldFits /\ LoginFits
-----------------------------------------------------------------------------
(* What holds when, read backwards from JobFits.                           *)
LEMMA CallsStep ==
    ASSUME BothInv
    PROVE  /\ call.op = "configure" => job.step = "configure"
           /\ call.op = "sign_out" => job.step = "wait"
           /\ call.op = "remove_profile_credentials" => job.step \in {"unwind", "remove"}
           /\ call.op \in {"set_profile", "clear_profile"} <=> Moving
           /\ call.op = "set_profile" => call.profile = current
           /\ Moving /\ call.done => profile_id = current
           /\ job.step \in {"unwind", "remove"} =>
                /\ job.profile \in Listed /\ call.profile = job.profile
                /\ Returned("ok") => saved[job.profile] = NoSecret /\ ~older[job.profile]
<1> USE DEF BothInv, HandlerInv, JobFits, Moving, SessionInv, CallFits
<1>1. job.step \in JobSteps
    BY DEF BrokerTypeOK, Job
<1>2. call.op = "clear_profile" => job.step = "reactivate"
    BY <1>1, NoCallTyped DEF JobSteps
<1>3. call \in Call
    BY DEF TypeOK
<1> QED BY <1>1, <1>2, NoCallTyped DEF JobSteps, AddFits, Adding, Returned, ResultAsTold

(* A method changes no saved login but its own profile's.                  *)
LEMMA OwnLogin ==
    ASSUME BothInv, Method
    PROVE  \A q \in Profiles : q # call.profile => saved'[q] = saved[q] /\ older'[q] = older[q]
<1>1. saved \in [Profiles -> State] /\ older \in [Profiles -> BOOLEAN]
    BY DEF BothInv, SessionInv, TypeOK
<1>2. \A p, q \in Profiles : \A s, o :
        Save(p, s, o) /\ q # p => saved'[q] = saved[q] /\ older'[q] = older[q]
    BY <1>1 DEF Save
<1>3. call.op \in {"configure", "sign_out"} => call.profile = profile_id
    BY DEF BothInv, SessionInv, CallFits
<1>4. call.op = "remove_profile_credentials" => call.profile \in Profiles
    BY DEF BothInv, SessionInv, CallFits
<1>5. profile_id \in Profiles \cup {NoProfile}
    BY DEF BothInv, SessionInv, TypeOK
<1>6. CASE Migrate
    <2>1. call.op = "set_profile" /\ profile_id = call.profile /\ profile_id \in Profiles
        BY <1>6 DEF Migrate, Running, BothInv, SessionInv, CallFits
    <2>2. \E s, o : Save(profile_id, s, o)
        BY <1>6 DEF Migrate
    <2> QED BY <1>2, <2>1, <2>2
<1>7. CASE Replacing \/ Replaced
    <2>1. call.profile = profile_id /\ profile_id \in Profiles
        BY <1>3, <1>5, <1>7 DEF Replacing, Replaced, Running
    <2>2. \E s, o : Save(profile_id, s, o)
        BY <1>7 DEF Replacing, Replaced
    <2> QED BY <1>2, <2>1, <2>2
<1>8. CASE NotReplaced
    <2>1. call.profile = profile_id /\ UNCHANGED older
        BY <1>3, <1>8 DEF NotReplaced, Running
    <2>2. saved' = saved \/ \E s : saved' = [saved EXCEPT ![profile_id] = s]
        BY <1>8 DEF NotReplaced
    <2> QED BY <1>1, <2>1, <2>2
<1>9. CASE SigningOut \/ SignOut
    <2>1. call.profile = profile_id
        BY <1>3, <1>9 DEF SigningOut, SignOut, Running
    <2>2. UNCHANGED <<saved, older>> \/ (profile_id # NoProfile /\ \E s, o : Save(profile_id, s, o))
        BY <1>9 DEF SigningOut, SignOut, Erase
    <2> QED BY <1>2, <1>5, <2>1, <2>2
<1>10. CASE RemoveProfileCredentials
    <2>1. call.profile \in Profiles /\ \E s, o : Save(call.profile, s, o)
        BY <1>4, <1>10 DEF RemoveProfileCredentials, Running, Erase
    <2> QED BY <1>2, <2>1
<1>11. CASE SetProfile \/ ClearProfile \/ Session \/ InvalidateAuthenticatedCookie
    BY <1>11 DEF SetProfile, ClearProfile, Session, InvalidateAuthenticatedCookie
<1> QED BY <1>6, <1>7, <1>8, <1>9, <1>10, <1>11 DEF Method
-----------------------------------------------------------------------------
(* Every step of a handler keeps the agreement.                            *)
Agrees ==
    /\ SelectedFits' /\ FileFits' /\ RemovedProfileLeavesNoLogin'
    /\ ToldFits' /\ HeldFits' /\ LoginFits'

LEMMA LoginStays ==
    ASSUME LoginFits, unsaved => unsaved', UNCHANGED <<ack, profile_id>>,
           ~(call.op = "configure" /\ Returned("ok")),
           \A c \in Clients : held'[c] \in {held[c], NoCookie}
    PROVE  LoginFits'
BY DEF LoginFits, Saved, Returned

LEMMA RowsKeepLogins ==
    ASSUME RemovedProfileLeavesNoLogin, UNCHANGED <<saved, older>>,
           unsaved' \/ Listed \subseteq Listed', unsaved => unsaved'
    PROVE  RemovedProfileLeavesNoLogin'
BY DEF RemovedProfileLeavesNoLogin

(* The first half of _activate_profile, once the file agrees.              *)
LEMMA ActivateAgrees ==
    ASSUME AgreeInv, NEW p \in Profiles \cup {NoProfile}, Activate(p), UNCHANGED sessionVars,
           job.step \notin {"down", "boot", "configure"}, job'.step \in {"activate", "reactivate"},
           unsaved' \/ active' = p, unsaved => unsaved', RemovedProfileLeavesNoLogin'
    PROVE  Agrees
<1>1. /\ current' = p /\ whole' = FALSE /\ UNCHANGED <<saved, older, profile_id, ack>>
      /\ at' = [c \in Clients |-> IF c \in ResetFirst \/ (p = NoProfile /\ c = "magnus")
                                    THEN p ELSE at[c]]
      /\ held' = [c \in Clients |-> IF c = "magnus" /\ p # NoProfile THEN held[c] ELSE NoCookie]
    BY DEF Activate, sessionVars
<1>2. SelectedFits' /\ FileFits'
    BY <1>1 DEF SelectedFits, Moving, FileFits
<1>3. ToldFits'
    BY <1>1 DEF ToldFits
<1>4. HeldFits'
    <2>1. p = NoProfile => held' = Nothing
        BY <1>1 DEF Nothing
    <2>2. \A c \in Clients : held'[c] # NoCookie =>
              c = "magnus" /\ p # NoProfile /\ held'[c] = held[c] /\ at'[c] = at[c]
        BY <1>1 DEF ResetFirst
    <2> QED BY <1>1, <2>1, <2>2 DEF HeldFits, AgreeInv, SameServer
<1>5. LoginFits'
    <2>1. ~(call.op = "configure" /\ Returned("ok"))
        BY CallsStep DEF AgreeInv
    <2> QED BY <1>1, <2>1, LoginStays DEF AgreeInv
<1> QED BY <1>2, <1>3, <1>4, <1>5 DEF Agrees

(* The second half.                                                        *)
LEMMA FinishAgrees ==
    ASSUME AgreeInv, FinishActivation, job.step \in {"activate", "reactivate"}, call.done,
           UNCHANGED <<rows, active, unsaved, current, saved, older, profile_id, ack>>,
           job'.step \in {"idle", "configure"}
    PROVE  Agrees
<1>1. profile_id = current
    BY CallsStep DEF AgreeInv, Moving
<1>2. SelectedFits' /\ FileFits'
    BY <1>1 DEF SelectedFits, Moving, FileFits, AgreeInv
<1>3. RemovedProfileLeavesNoLogin'
    BY DEF AgreeInv, RemovedProfileLeavesNoLogin, Listed
<1>4. at' = IF current = NoProfile THEN at ELSE [c \in Clients |-> current]
    BY DEF FinishActivation
<1>5. \A c \in Clients : \/ held'[c] = NoCookie
                         \/ held'[c] = held[c] /\ (c = "magnus" /\ current # NoProfile => at[c] = current)
    BY DEF FinishActivation
<1>6. ToldFits'
    BY <1>4 DEF ToldFits
<1>7. HeldFits'
    <2>1. current = NoProfile => held' = Nothing
        BY DEF FinishActivation, AgreeInv, HeldFits
    <2>2. ASSUME NEW c \in Clients, held'[c] # NoCookie
          PROVE  IF c = "magnus" THEN SameServer(held'[c].profile, at'[c]) ELSE held'[c].profile = current
        <3>1. held'[c] = held[c] /\ (c = "magnus" /\ current # NoProfile => at[c] = current)
            BY <1>5, <2>2
        <3>2. c = "magnus" => at'[c] = at[c]
            BY <1>4, <3>1
        <3> QED BY <2>2, <3>1, <3>2 DEF AgreeInv, HeldFits
    <2> QED BY <2>1, <2>2 DEF HeldFits, SameServer
<1>8. LoginFits'
    <2>1. ~(call.op = "configure" /\ Returned("ok"))
        BY CallsStep DEF AgreeInv
    <2> QED BY <1>5, <2>1, LoginStays DEF AgreeInv
<1> QED BY <1>2, <1>3, <1>6, <1>7, <1>8 DEF Agrees

(* The start and the end of the broker.                                    *)
LEMMA BootAgrees ==
    ASSUME AgreeInv, BothInv', Boot \/ Booted \/ BrokerCrash
    PROVE  Agrees
<1> USE DEF AgreeInv
<1>1. UNCHANGED <<rows, active, unsaved, saved, older>>
    BY DEF Boot, Booted, BrokerCrash, Crash, fileVars, sessionVars
<1>2. RemovedProfileLeavesNoLogin'
    BY <1>1, RowsKeepLogins DEF Listed
<1>3. CASE Boot
    <2>1. /\ job.step = "down" /\ current' = active /\ held' = Nothing
          /\ UNCHANGED <<profile_id, ack>>
        BY <1>3 DEF Boot, sessionVars, HeldFits
    <2>2. IF active = NoProfile THEN job'.step = "idle" ELSE job'.step = "boot"
        BY <1>3, RestingTyped, StepTyped, ReplyTyped DEF Boot, JobSteps, BothInv, HandlerInv, BrokerTypeOK
    <2>3. profile_id = NoProfile
        BY <2>1 DEF SelectedFits
    <2>4. SelectedFits' /\ FileFits' /\ ToldFits'
        BY <1>1, <2>1, <2>2, <2>3 DEF SelectedFits, FileFits, ToldFits, Moving
    <2>5. HeldFits' /\ LoginFits'
        BY <2>1 DEF HeldFits, LoginFits, Nothing
    <2> QED BY <1>2, <2>4, <2>5 DEF Agrees
<1>4. CASE Booted
    <2>1. /\ job.step = "boot" /\ call.done /\ at' = [c \in Clients |-> current]
          /\ job'.step = "idle" /\ held = Nothing
          /\ UNCHANGED <<current, held, whole, ack, profile_id>>
        BY <1>4, ReplyTyped DEF Booted, sessionVars, HeldFits
    <2>2. profile_id = current /\ active = current /\ current # NoProfile
        BY <2>1, CallsStep, ProfilesAssumption DEF Moving, BothInv, HandlerInv, JobFits
    <2>3. SelectedFits' /\ FileFits' /\ ToldFits'
        BY <1>1, <2>1, <2>2 DEF SelectedFits, FileFits, ToldFits, Moving
    <2>4. HeldFits' /\ LoginFits'
        BY <2>1 DEF HeldFits, LoginFits, Nothing
    <2> QED BY <1>2, <2>3, <2>4 DEF Agrees
<1>5. CASE BrokerCrash
    <2>1. job'.step = "down" /\ held' = Nothing /\ current' = NoProfile /\ profile_id' = NoProfile
        BY <1>5, RestingTyped DEF BrokerCrash, Crash, JobSteps
    <2>2. SelectedFits' /\ FileFits' /\ ToldFits' /\ HeldFits' /\ LoginFits'
        BY <2>1 DEF SelectedFits, FileFits, ToldFits, HeldFits, LoginFits, Nothing
    <2> QED BY <1>2, <2>2 DEF Agrees
<1> QED BY <1>3, <1>4, <1>5

(* profile_add and the first rock_configure.                               *)
LEMMA AddAgrees ==
    ASSUME AgreeInv, BothInv', NEW op \in {"profile_add", "rock_configure"}, AddProfile(op)
    PROVE  Agrees
<1> USE DEF AgreeInv
<1>1. PICK p \in Profiles, l \in Logins, outcome \in FileOutcomes :
        /\ Idle /\ Fresh(p) /\ WriteFile(outcome, Append(rows, p), p)
        /\ IF outcome = "ok"
             THEN /\ Activate(p)
                  /\ job' = [op |-> op, step |-> "activate", profile |-> p,
                             previous |-> active, login |-> l, client |-> "none"]
             ELSE UNCHANGED <<current, at, held, whole, call, job>>
        /\ UNCHANGED sessionVars
    BY DEF AddProfile
<1>2. job.step = "idle" /\ UNCHANGED <<saved, older, profile_id, ack>>
    BY <1>1, RestingTyped DEF Idle, JobSteps, sessionVars
<1>3. {Append(rows, p)[i] : i \in DOMAIN Append(rows, p)} = Listed \cup {p}
    BY <1>1, AppendRow DEF Fresh, BothInv, HandlerInv, BrokerTypeOK
<1>4. /\ unsaved => unsaved'
      /\ outcome \in {"ok", "half"} => Listed' = Listed \cup {p} /\ active' = p
      /\ outcome \notin {"ok", "half"} => UNCHANGED <<rows, active>>
      /\ outcome = "half" => unsaved'
    BY <1>1, <1>3 DEF WriteFile, Listed
<1>5. RemovedProfileLeavesNoLogin'
    BY <1>2, <1>4, RowsKeepLogins DEF Listed
<1>6. CASE outcome = "ok"
    BY <1>1, <1>2, <1>4, <1>5, <1>6, ActivateAgrees
<1>7. CASE outcome # "ok"
    <2>1. UNCHANGED <<current, at, held, whole, call, job>>
        BY <1>1, <1>7
    <2>2. ~(call.op = "configure" /\ Returned("ok"))
        BY <1>2, CallsStep
    <2>3. LoginFits'
        BY <1>2, <1>4, <2>1, <2>2, LoginStays
    <2> QED BY <1>2, <1>4, <1>5, <1>7, <2>1, <2>3
            DEF Agrees, SelectedFits, FileFits, ToldFits, HeldFits, Moving, SameServer
<1> QED BY <1>6, <1>7

LEMMA AddActivatedAgrees ==
    ASSUME AgreeInv, AddActivated
    PROVE  Agrees
<1>1. job.step = "activate" /\ call.done /\ FinishActivation
      /\ UNCHANGED <<rows, active, unsaved, current, saved, older, profile_id, ack>>
    BY DEF AddActivated, Returned, fileVars, sessionVars
<1>2. job'.step = "configure"
    BY StepTyped DEF AddActivated, JobSteps, AgreeInv, BothInv, HandlerInv, BrokerTypeOK
<1> QED BY <1>1, <1>2, FinishAgrees

LEMMA ReactivatedAgrees ==
    ASSUME AgreeInv, Reactivated
    PROVE  Agrees
<1>1. /\ job.step = "reactivate" /\ call.done /\ job'.step = "idle"
      /\ UNCHANGED <<rows, active, unsaved, current, saved, older, profile_id, ack>>
    BY ReplyTyped DEF Reactivated, Returned, fileVars, sessionVars
<1>2. CASE FinishActivation
    BY <1>1, <1>2, FinishAgrees
<1>3. CASE UNCHANGED <<at, held, whole>>
    <2>1. profile_id = current /\ ~(call.op = "configure" /\ Returned("ok"))
        BY <1>1, CallsStep DEF AgreeInv, Moving
    <2>2. LoginFits' /\ RemovedProfileLeavesNoLogin'
        BY <1>1, <1>3, <2>1, LoginStays, RowsKeepLogins DEF AgreeInv, Listed
    <2> QED BY <1>1, <1>3, <2>1, <2>2
            DEF AgreeInv, Agrees, SelectedFits, FileFits, ToldFits, HeldFits, Moving, SameServer
<1> QED BY <1>2, <1>3 DEF Reactivated

(* Steps that change nothing but the handler and the call.                 *)
LEMMA QuietAgrees ==
    ASSUME AgreeInv, BothInv',
           \/ AddFailed \/ ProfileRemove \/ RockConfigure \/ ProfileCredentialsUpdate
           \/ ProfileSignOut \/ ProfileTest \/ ClientRequest \/ Refused
    PROVE  Agrees
<1> USE DEF AgreeInv
<1>1. UNCHANGED <<rows, active, unsaved, current, at, held, whole, saved, older, profile_id, ack>>
    BY DEF AddFailed, ProfileRemove, RockConfigure, ProfileCredentialsUpdate, ProfileSignOut,
        ProfileTest, ForActive, ClientRequest, Refused, fileVars, sessionVars
<1>2. job.step \notin {"down", "boot", "unwind_select"}
    BY RestingTyped DEF AddFailed, ProfileRemove, RockConfigure, ProfileCredentialsUpdate,
        ProfileSignOut, ProfileTest, ForActive, ClientRequest, Refused, Idle, JobSteps
<1>3. Moving => call.done
    BY RestingTyped DEF AddFailed, ProfileRemove, RockConfigure, ProfileCredentialsUpdate, Returned,
        ProfileSignOut, ProfileTest, ForActive, ClientRequest, Refused, Idle, JobSteps, Moving
<1>4. profile_id = current
    BY <1>3, CallsStep DEF SelectedFits
<1>5. job'.step \notin {"down", "boot"}
    <2>1. CASE AddFailed
        BY <2>1, StepTyped DEF AddFailed, JobSteps, BothInv, HandlerInv, BrokerTypeOK
    <2>2. CASE ProfileRemove
        BY <2>2 DEF ProfileRemove, Resting
    <2>3. CASE RockConfigure \/ ProfileCredentialsUpdate \/ ProfileSignOut \/ ProfileTest
        BY <2>3 DEF RockConfigure, ProfileCredentialsUpdate, ProfileSignOut, ProfileTest, ForActive, Resting
    <2>4. CASE ClientRequest
        BY <2>4 DEF ClientRequest, Resting
    <2>5. CASE Refused
        BY <2>5, ReplyTyped DEF Refused
    <2> QED BY <2>1, <2>2, <2>3, <2>4, <2>5
<1>6. ~(call.op = "configure" /\ Returned("ok"))
    BY CallsStep, RestingTyped DEF AddFailed, ProfileRemove, RockConfigure, ProfileCredentialsUpdate,
        ProfileSignOut, ProfileTest, ForActive, ClientRequest, Refused, Idle, Returned, JobSteps
<1>7. LoginFits' /\ RemovedProfileLeavesNoLogin'
    BY <1>1, <1>6, LoginStays, RowsKeepLogins DEF Listed
<1> QED BY <1>1, <1>2, <1>4, <1>5, <1>7
        DEF Agrees, SelectedFits, FileFits, ToldFits, HeldFits, SameServer

LEMMA UnwindAgrees ==
    ASSUME AgreeInv, BothInv', Unwind
    PROVE  Agrees
<1> USE DEF AgreeInv
<1>1. /\ job.step = "unwind" /\ call.done /\ ~Moving /\ job.profile \in Listed /\ job.profile = active
      /\ job.previous = NoProfile => Len(rows) = 1
      /\ UNCHANGED <<saved, older, profile_id, ack>> /\ UNCHANGED sessionVars
    BY DEF Unwind, Returned, sessionVars, BothInv, HandlerInv, AddFits, Adding, Moving
<1>2. ~(call.op = "configure" /\ Returned("ok"))
    BY <1>1, CallsStep
<1>3. CASE Reply /\ UNCHANGED <<fileVars, current, at, held, whole>>
    <2>1. job'.step = "idle"
        BY <1>3, ReplyTyped
    <2>2. LoginFits' /\ RemovedProfileLeavesNoLogin'
        BY <1>1, <1>2, <1>3, LoginStays, RowsKeepLogins DEF fileVars, Listed
    <2> QED BY <1>1, <1>3, <2>1, <2>2
            DEF Agrees, SelectedFits, FileFits, ToldFits, HeldFits, Moving, SameServer, fileVars
<1>4. ASSUME NEW outcome \in FileOutcomes, Returned("ok"),
             WriteFile(outcome, Without(job.profile), ActiveWithout(job.profile)),
             \/ /\ outcome # "ok" /\ Reply
                /\ UNCHANGED <<current, at, held, whole>>
             \/ /\ outcome = "ok" /\ job.previous # NoProfile /\ Step("unwind_select")
                /\ UNCHANGED <<current, at, held, whole>>
             \/ /\ outcome = "ok" /\ job.previous = NoProfile
                /\ Activate(NoProfile) /\ Step("reactivate")
      PROVE  Agrees
    <2>1. /\ {Without(job.profile)[i] : i \in DOMAIN Without(job.profile)} = Listed \ {job.profile}
          /\ Without(job.profile) \in Seq(Profiles) /\ Len(Without(job.profile)) = Len(rows) - 1
        BY <1>1, WithoutRows DEF BothInv, HandlerInv, BrokerTypeOK
    <2>2. /\ unsaved => unsaved'
          /\ outcome \in {"ok", "half"} =>
                Listed' = Listed \ {job.profile} /\ active' = ActiveWithout(job.profile)
          /\ outcome # "ok" => unsaved'
          /\ outcome \in {"lost", "refused"} => UNCHANGED <<rows, active>>
        BY <1>1, <1>4, <2>1 DEF WriteFile, Listed
    <2>3. saved[job.profile] = NoSecret /\ ~older[job.profile]
        BY <1>1, <1>4, CallsStep
    <2>4. RemovedProfileLeavesNoLogin'
        <3>1. CASE outcome # "ok"
            BY <2>2, <3>1 DEF RemovedProfileLeavesNoLogin
        <3>2. CASE outcome = "ok"
            BY <1>1, <2>2, <2>3, <3>2 DEF RemovedProfileLeavesNoLogin
        <3> QED BY <3>1, <3>2
    <2>5. CASE outcome # "ok" \/ job.previous # NoProfile
        <3>1. /\ UNCHANGED <<current, at, held, whole>>
              /\ IF outcome = "ok" THEN job'.step = "unwind_select" ELSE job'.step = "idle"
            BY <1>4, <2>5, ReplyTyped, StepTyped DEF JobSteps, BothInv, HandlerInv, BrokerTypeOK
        <3>2. LoginFits'
            BY <1>1, <1>2, <2>2, <3>1, LoginStays
        <3>3. SelectedFits'
            BY <1>1, <3>1 DEF SelectedFits, Moving
        <3>4. FileFits'
            BY <2>2, <3>1 DEF FileFits
        <3>5. ToldFits' /\ HeldFits'
            BY <1>1, <3>1 DEF ToldFits, HeldFits, Moving, SameServer
        <3> QED BY <2>4, <3>2, <3>3, <3>4, <3>5 DEF Agrees
    <2>6. CASE outcome = "ok" /\ job.previous = NoProfile
        <3>1. Without(job.profile) = <<>>
            <4>1. \A s \in Seq(Profiles) : Len(s) = 0 => s = <<>>
                OBVIOUS
            <4>2. Len(rows) = 1
                BY <1>1, <2>6
            <4>3. Len(Without(job.profile)) = 0
                BY <2>1, <4>2
            <4> QED BY <2>1, <4>1, <4>3
        <3>2. active' = NoProfile
            BY <1>1, <2>2, <2>6, <3>1 DEF ActiveWithout
        <3>3. job'.step = "reactivate"
            BY <1>4, <2>6, StepTyped DEF JobSteps, BothInv, HandlerInv, BrokerTypeOK
        <3> QED BY <1>1, <1>4, <2>2, <2>4, <2>6, <3>2, <3>3, ActivateAgrees
    <2> QED BY <2>5, <2>6
<1> QED BY <1>3, <1>4 DEF Unwind

LEMMA UnwindSelectAgrees ==
    ASSUME AgreeInv, BothInv', UnwindSelect
    PROVE  Agrees
<1> USE DEF AgreeInv
<1>1. PICK outcome \in FileOutcomes :
        /\ WriteFile(outcome, rows, job.previous)
        /\ IF outcome = "ok"
             THEN Activate(job.previous) /\ Step("reactivate")
             ELSE Reply /\ UNCHANGED <<current, at, held, whole, call>>
    BY DEF UnwindSelect
<1>2. /\ job.step = "unwind_select" /\ job.previous \in Listed /\ ~Moving
      /\ UNCHANGED <<saved, older, profile_id, ack>> /\ UNCHANGED sessionVars
    BY DEF UnwindSelect, sessionVars, BothInv, HandlerInv, AddFits, Moving
<1>3. /\ unsaved => unsaved'
      /\ Listed' = Listed /\ (outcome = "ok" => active' = job.previous)
      /\ outcome # "ok" => unsaved'
    BY <1>1, <1>2 DEF WriteFile, Listed
<1>4. job.previous \in Profiles
    BY <1>2 DEF Listed, BothInv, HandlerInv, BrokerTypeOK
<1>5. RemovedProfileLeavesNoLogin'
    BY <1>2, <1>3, RowsKeepLogins
<1>6. CASE outcome = "ok"
    <2>1. job'.step = "reactivate"
        BY <1>1, <1>6, StepTyped DEF JobSteps, BothInv, HandlerInv, BrokerTypeOK
    <2> QED BY <1>1, <1>2, <1>3, <1>4, <1>5, <1>6, <2>1, ActivateAgrees
<1>7. CASE outcome # "ok"
    <2>1. job'.step = "idle" /\ UNCHANGED <<current, at, held, whole, call>>
        BY <1>1, <1>7, ReplyTyped
    <2>2. LoginFits'
        BY <1>2, <1>3, <1>7 DEF LoginFits
    <2> QED BY <1>2, <1>3, <1>5, <1>7, <2>1, <2>2
            DEF Agrees, SelectedFits, FileFits, ToldFits, HeldFits, Moving, SameServer
<1> QED BY <1>6, <1>7

LEMMA SwitchAgrees ==
    ASSUME AgreeInv, BothInv', ProfileSwitch
    PROVE  Agrees
<1> USE DEF AgreeInv
<1>1. PICK p \in Listed, outcome \in FileOutcomes :
        /\ Idle /\ WriteFile(outcome, rows, p) /\ UNCHANGED sessionVars
        /\ IF outcome = "ok"
             THEN /\ Activate(p)
                  /\ job' = [Resting("reactivate") EXCEPT !.op = "profile_switch",
                                                          !.profile = p]
             ELSE UNCHANGED <<current, at, held, whole, call, job>>
    BY DEF ProfileSwitch
<1>2. job.step = "idle" /\ UNCHANGED <<saved, older, profile_id, ack>>
    BY <1>1, RestingTyped DEF Idle, JobSteps, sessionVars
<1>3. /\ unsaved => unsaved'
      /\ Listed' = Listed /\ (outcome = "ok" => active' = p)
      /\ outcome # "ok" => unsaved' \/ UNCHANGED active
    BY <1>1, <1>2 DEF WriteFile, Listed
<1>4. p \in Profiles
    BY DEF Listed, BothInv, HandlerInv, BrokerTypeOK
<1>5. RemovedProfileLeavesNoLogin'
    BY <1>2, <1>3, RowsKeepLogins
<1>6. CASE outcome = "ok"
    <2>1. job'.step = "reactivate"
        BY <1>1, <1>6 DEF Resting
    <2> QED BY <1>1, <1>2, <1>3, <1>4, <1>5, <1>6, <2>1, ActivateAgrees
<1>7. CASE outcome # "ok"
    <2>1. UNCHANGED <<current, at, held, whole, call, job>>
        BY <1>1, <1>7
    <2>2. LoginFits'
        <3>1. ~(call.op = "configure" /\ Returned("ok"))
            BY <1>2, CallsStep
        <3> QED BY <1>2, <1>3, <2>1, <3>1, LoginStays
    <2> QED BY <1>2, <1>3, <1>5, <1>7, <2>1, <2>2
            DEF Agrees, SelectedFits, FileFits, ToldFits, HeldFits, Moving, SameServer
<1> QED BY <1>6, <1>7

LEMMA RemoveRowAgrees ==
    ASSUME AgreeInv, BothInv', RemoveRow
    PROVE  Agrees
<1> USE DEF AgreeInv
<1>1. /\ job.step = "remove" /\ call.done /\ ~Moving /\ job.profile \in Listed
      /\ UNCHANGED <<saved, older, profile_id, ack>> /\ UNCHANGED sessionVars
    BY CallsStep DEF RemoveRow, Returned, sessionVars, Moving
<1>2. ~(call.op = "configure" /\ Returned("ok"))
    BY <1>1, CallsStep
<1>3. ASSUME Reply, UNCHANGED <<current, at, held, whole>>, unsaved => unsaved',
             unsaved' \/ active' = active \/ active' = current, RemovedProfileLeavesNoLogin'
      PROVE  Agrees
    <2>1. job'.step = "idle"
        BY <1>3, ReplyTyped
    <2>2. LoginFits'
        BY <1>1, <1>2, <1>3, LoginStays
    <2> QED BY <1>1, <1>3, <2>1, <2>2
            DEF Agrees, SelectedFits, FileFits, ToldFits, HeldFits, Moving, SameServer
<1>4. CASE Reply /\ UNCHANGED <<fileVars, current, at, held, whole>>
    <2>1. RemovedProfileLeavesNoLogin'
        BY <1>1, <1>4, RowsKeepLogins DEF fileVars, Listed
    <2> QED BY <1>3, <1>4, <2>1 DEF fileVars
<1>5. ASSUME NEW outcome \in FileOutcomes, Returned("ok"),
             WriteFile(outcome, Without(job.profile), ActiveWithout(job.profile)),
             IF outcome = "ok" /\ job.profile = current
               THEN Activate(ActiveWithout(job.profile)) /\ Step("reactivate")
               ELSE Reply /\ UNCHANGED <<current, at, held, whole>>
      PROVE  Agrees
    <2> DEFINE q == ActiveWithout(job.profile)
    <2>1. {Without(job.profile)[i] : i \in DOMAIN Without(job.profile)} = Listed \ {job.profile}
        BY <1>1, WithoutRows DEF BothInv, HandlerInv, BrokerTypeOK
    <2>2. q \in Profiles \cup {NoProfile} /\ (active # job.profile => q = active)
        BY <1>1, ActiveWithoutRow DEF BothInv, HandlerInv, BrokerTypeOK, Listed
    <2> HIDE DEF q
    <2>3. /\ unsaved => unsaved'
          /\ outcome \in {"ok", "half"} => Listed' = Listed \ {job.profile} /\ active' = q
          /\ outcome = "half" => unsaved'
          /\ outcome \in {"lost", "refused"} => UNCHANGED <<rows, active>>
        BY <1>1, <1>5, <2>1 DEF WriteFile, Listed, q
    <2>4. saved[job.profile] = NoSecret /\ ~older[job.profile]
        BY <1>1, <1>5, CallsStep
    <2>5. RemovedProfileLeavesNoLogin'
        <3>1. CASE outcome = "ok"
            BY <1>1, <2>3, <2>4, <3>1 DEF RemovedProfileLeavesNoLogin
        <3>2. CASE outcome # "ok"
            BY <1>1, <2>3, <3>2, OutcomesAssumption, RowsKeepLogins DEF Listed
        <3> QED BY <3>1, <3>2
    <2>6. CASE outcome = "ok" /\ job.profile = current
        <3>1. Activate(q) /\ job'.step = "reactivate"
            BY <1>5, <2>6, StepTyped DEF q, JobSteps, BothInv, HandlerInv, BrokerTypeOK
        <3> QED BY <1>1, <2>2, <2>3, <2>5, <2>6, <3>1, ActivateAgrees
    <2>7. CASE ~(outcome = "ok" /\ job.profile = current)
        <3>1. unsaved' \/ active' = active
            BY <1>1, <2>2, <2>3, <2>7, OutcomesAssumption DEF FileFits
        <3> QED BY <1>3, <1>5, <2>3, <2>5, <2>7, <3>1
    <2> QED BY <2>6, <2>7
<1> QED BY <1>4, <1>5 DEF RemoveRow

(* A login that was saved, dropped or tested.                              *)
LEMMA LoginChangedAgrees ==
    ASSUME AgreeInv, BothInv', Configured \/ SignedOut \/ Tested
    PROVE  Agrees
<1> USE DEF AgreeInv
<1>1. /\ job'.step = "idle" /\ job.step \in {"configure", "wait"}
      /\ UNCHANGED <<rows, active, current, at, whole, saved, older, profile_id, ack>>
    BY ReplyTyped DEF Configured, SignedOut, Tested, fileVars, sessionVars,
        BothInv, HandlerInv, JobFits
<1>2. unsaved => unsaved'
    BY DEF Configured, SignedOut, Tested, fileVars
<1>3. \A c \in Clients : held'[c] \in {held[c], NoCookie}
    BY DEF Configured, SignedOut, Tested, Nothing
<1>4. HeldFits'
    <2>1. held = Nothing => held' = Nothing
        BY DEF Configured, SignedOut, Tested, Nothing
    <2> QED BY <1>1, <1>3, <2>1 DEF HeldFits, SameServer
<1>5. LoginFits'
    <2>1. CASE call.op = "configure" /\ Returned("ok")
        <3>1. Configured
            BY <2>1, CallsStep DEF SignedOut, Tested, BothInv, HandlerInv, JobFits
        <3>2. held' = Nothing \/ unsaved'
            BY <2>1, <3>1 DEF Configured, Returned
        <3> QED BY <3>2 DEF LoginFits, Nothing
    <2>2. CASE ~(call.op = "configure" /\ Returned("ok"))
        BY <1>1, <1>2, <1>3, <2>2, LoginStays
    <2> QED BY <2>1, <2>2
<1>6. RemovedProfileLeavesNoLogin'
    BY <1>1, <1>2, RowsKeepLogins DEF Listed
<1> QED BY <1>1, <1>2, <1>4, <1>5, <1>6 DEF Agrees, SelectedFits, FileFits, ToldFits, Moving

LEMMA ContextAgrees ==
    ASSUME AgreeInv, SetContext
    PROVE  Agrees
<1> USE DEF AgreeInv
<1>1. /\ job.step = "idle"
      /\ UNCHANGED <<rows, active, unsaved, current, at, whole, saved, older, profile_id, ack, job>>
    BY RestingTyped DEF SetContext, Idle, JobSteps, fileVars, vars
<1>2. \A c \in Clients : held'[c] \in {held[c], NoCookie}
    BY DEF SetContext
<1>3. HeldFits'
    <2>1. held = Nothing => held' = Nothing
        BY DEF SetContext, Nothing
    <2> QED BY <1>1, <1>2, <2>1 DEF HeldFits, SameServer
<1>4. LoginFits' /\ RemovedProfileLeavesNoLogin'
    BY <1>1, <1>2, CallsStep, LoginStays, RowsKeepLogins DEF Listed
<1> QED BY <1>1, <1>3, <1>4 DEF Agrees, SelectedFits, FileFits, ToldFits, Moving

(* What a client's answer leaves held.                                     *)
LEMMA AnsweredAgrees ==
    ASSUME AgreeInv, BothInv', Answered
    PROVE  Agrees
<1> USE DEF AgreeInv
<1>1. /\ job.step = "wait" /\ call.op = "authenticated_cookie" /\ job.client \in Clients /\ call.done
      /\ UNCHANGED <<rows, active, unsaved, current, at, whole, saved, older, profile_id, ack>>
    BY DEF Answered, Returned, fileVars, sessionVars, BothInv, HandlerInv, JobFits
<1>2. job'.step \in {"idle", "refused"}
    BY ReplyTyped, StepTyped DEF Answered, JobSteps, BothInv, HandlerInv, BrokerTypeOK
<1>3. profile_id = current /\ call.profile = current
    BY <1>1 DEF SelectedFits, Moving, BothInv, SessionInv, CallFits
<1>4. RemovedProfileLeavesNoLogin'
    BY <1>1, RowsKeepLogins DEF Listed
<1>5. SelectedFits' /\ FileFits' /\ ToldFits'
    BY <1>1, <1>2, <1>3 DEF SelectedFits, FileFits, ToldFits, Moving
<1>6. CASE held' = held
    <2>1. LoginFits'
        BY <1>1, <1>6, LoginStays
    <2> QED BY <1>1, <1>2, <1>4, <1>5, <1>6, <2>1 DEF Agrees, HeldFits, SameServer
<1>7. CASE /\ Returned("ok") /\ SameServer(at[job.client], call.profile)
           /\ held' = [held EXCEPT ![job.client] = [profile |-> call.profile, login |-> call.login]]
    <2> DEFINE new == [profile |-> call.profile, login |-> call.login]
    <2>1. /\ profile_id \in Profiles
          /\ ack[profile_id] # NoSecret => call.login = ack[profile_id]
        BY <1>1, <1>7 DEF Returned, BothInv, SessionInv, ResultAsTold
    <2>2. current # NoProfile
        BY <1>3, <2>1, ProfilesAssumption
    <2>3. \A c \in Clients : held'[c] = IF c = job.client THEN new ELSE held[c]
        BY <1>1, <1>7 DEF BothInv, HandlerInv, BrokerTypeOK
    <2>4. new.profile = current /\ new.login = call.login
        BY <1>3
    <2> HIDE DEF new
    <2>5. SameServer(new.profile, at[job.client])
        BY <1>3, <1>7, <2>4 DEF SameServer
    <2>6. HeldFits'
        BY <1>1, <1>2, <2>2, <2>3, <2>4, <2>5 DEF HeldFits, SameServer
    <2>7. LoginFits'
        BY <1>1, <1>3, <2>1, <2>3, <2>4 DEF LoginFits, Saved
    <2> QED BY <1>4, <1>5, <2>6, <2>7 DEF Agrees
<1> QED BY <1>6, <1>7 DEF Answered

(* A step of the session itself.                                           *)
LEMMA SessionStepAgrees ==
    ASSUME AgreeInv, BothInv', SessionStep
    PROVE  Agrees
<1> USE DEF AgreeInv
<1>1. UNCHANGED <<rows, active, unsaved, current, at, held, whole, job>>
    BY DEF SessionStep, brokerVars
<1>2. ToldFits' /\ HeldFits' /\ FileFits'
    BY <1>1 DEF ToldFits, HeldFits, FileFits, SameServer
<1>3. CASE Expire
    <2>1. UNCHANGED <<saved, older, profile_id, ack, call>>
        BY <1>3 DEF Expire
    <2>2. RemovedProfileLeavesNoLogin'
        BY <1>1, <2>1, RowsKeepLogins DEF Listed
    <2> QED BY <1>1, <1>2, <2>1, <2>2 DEF Agrees, SelectedFits, LoginFits, Moving, Saved, Returned
<1>4. CASE Method
    <2>1. ~call.done /\ call' \in Call /\ call'.op = call.op /\ call'.profile = call.profile
        BY <1>4, MethodFits
           DEF BothInv, Method, SetProfile, Migrate, ClearProfile, Replacing, Replaced, NotReplaced,
               SigningOut, SignOut, RemoveProfileCredentials, Session, InvalidateAuthenticatedCookie,
               Running
    <2>2. SelectedFits'
        <3>1. CASE SetProfile \/ ClearProfile
            <4>1. Moving /\ job.step # "down"
                BY <3>1, CallsStep DEF SetProfile, ClearProfile, Running, Moving
            <4> QED BY <1>1, <4>1 DEF SelectedFits, Moving
        <3>2. CASE UNCHANGED profile_id
            BY <1>1, <3>2 DEF SelectedFits, Moving
        <3> QED BY <1>4, <3>1, <3>2
                DEF Method, Migrate, Replacing, Replaced, NotReplaced, SigningOut, SignOut,
                    RemoveProfileCredentials, Session, InvalidateAuthenticatedCookie
    <2>3. RemovedProfileLeavesNoLogin'
        <3> SUFFICES ASSUME ~unsaved, NEW p \in Profiles \ Listed
                     PROVE  saved'[p] = NoSecret /\ ~older'[p]
            BY <1>1 DEF RemovedProfileLeavesNoLogin, Listed
        <3>1. saved[p] = NoSecret /\ ~older[p]
            BY DEF RemovedProfileLeavesNoLogin
        <3>2. CASE p # call.profile
            BY <1>4, <3>1, <3>2, OwnLogin
        <3>3. CASE p = call.profile
            <4>1. call.op \in {"configure", "sign_out"} => call.profile = profile_id /\ ~Moving
                BY CallsStep DEF BothInv, SessionInv, CallFits, Moving
            <4>2. call.op \in {"set_profile", "configure", "sign_out"} => p = current
                BY <3>3, <4>1, CallsStep DEF SelectedFits
            <4>3. p # active
                BY ProfilesAssumption DEF BothInv, HandlerInv, RowsFit
            <4>4. job.step \notin {"down", "unwind_select"} => active = current
                BY DEF FileFits
            <4>5. call.op \in {"set_profile", "configure", "sign_out"} =>
                    job.step \notin {"down", "unwind_select"}
                BY CallsStep DEF Moving
            <4>6. call.op # "remove_profile_credentials"
                BY <3>3, CallsStep
            <4>7. UNCHANGED <<saved, older>>
                BY <1>4, <4>2, <4>3, <4>4, <4>5, <4>6
                   DEF Method, SetProfile, Migrate, ClearProfile, Replacing, Replaced, NotReplaced,
                       SigningOut, SignOut, RemoveProfileCredentials, Session,
                       InvalidateAuthenticatedCookie, Running
            <4> QED BY <3>1, <4>7
        <3> QED BY <3>2, <3>3
    <2>4. LoginFits'
        <3>1. CASE Replaced
            <4>1. /\ call'.op = "configure" /\ call'.done /\ call'.result = "ok"
                  /\ UNCHANGED profile_id
                BY <2>1, <3>1 DEF Replaced, Running, Return, Call, BothInv, SessionInv, TypeOK
            <4>2. \A p : p # profile_id => ack'[p] = ack[p]
                BY <3>1 DEF Replaced, BothInv, SessionInv, TypeOK
            <4> QED BY <1>1, <2>1, <4>1, <4>2 DEF LoginFits, Saved, Returned
        <3>2. CASE UNCHANGED ack
            BY <1>1, <2>1, <3>2 DEF LoginFits, Saved, Returned
        <3>3. CASE \E p : ack' = [ack EXCEPT ![p] = NoSecret]
            BY <1>1, <2>1, <3>3 DEF LoginFits, Saved, Returned, BothInv, SessionInv, TypeOK
        <3> QED BY <1>4, <3>1, <3>2, <3>3
                DEF Method, SetProfile, Migrate, ClearProfile, Replacing, NotReplaced, SigningOut,
                    SignOut, Erase, RemoveProfileCredentials, Session, InvalidateAuthenticatedCookie
    <2> QED BY <1>2, <2>2, <2>3, <2>4 DEF Agrees
<1> QED BY <1>3, <1>4 DEF SessionStep
-----------------------------------------------------------------------------
LEMMA AgreeInit == BrokerInit => AgreeInv
<1> SUFFICES ASSUME BrokerInit PROVE AgreeInv
    OBVIOUS
<1>1. BothInv
    BY HandlerInit, SessionInit DEF BrokerInit, BothInv
<1>2. job.step = "down" /\ profile_id = NoProfile /\ current = NoProfile /\ held = Nothing
    BY RestingTyped DEF BrokerInit, Init, JobSteps
<1>3. RemovedProfileLeavesNoLogin
    BY DEF BrokerInit, Init, RemovedProfileLeavesNoLogin
<1> QED BY <1>1, <1>2, <1>3
        DEF AgreeInv, SelectedFits, FileFits, ToldFits, HeldFits, LoginFits, Nothing

LEMMA AgreeNext == AgreeInv /\ [BrokerNext]_allVars => AgreeInv'
<1> SUFFICES ASSUME AgreeInv, [BrokerNext]_allVars PROVE AgreeInv'
    OBVIOUS
<1>1. BothInv'
    BY BothNext DEF AgreeInv
<1>2. CASE BrokerNext
    <2>1. Agrees
        BY <1>1, <1>2, BootAgrees, AddAgrees, AddActivatedAgrees, ReactivatedAgrees, QuietAgrees,
           UnwindAgrees, UnwindSelectAgrees, SwitchAgrees, RemoveRowAgrees, LoginChangedAgrees,
           ContextAgrees, AnsweredAgrees, SessionStepAgrees
           DEF BrokerNext, ProfileAdd, RockConfigureFirst
    <2> QED BY <1>1, <2>1 DEF Agrees, AgreeInv
<1>3. CASE UNCHANGED allVars
    BY <1>1, <1>3 DEF allVars, brokerVars, vars, AgreeInv, SelectedFits, FileFits, Moving, Listed,
        RemovedProfileLeavesNoLogin, ToldFits, HeldFits, LoginFits, Saved, Returned, SameServer
<1> QED BY <1>2, <1>3

LEMMA AgreeKept == BrokerSpec => []AgreeInv
BY AgreeInit, AgreeNext, PTL DEF BrokerSpec

(* Between handlers the profile the file calls active, the one the broker  *)
(* addresses and the one the session saves logins for are the same, unless *)
(* a write of the file failed half way or while taking a change back.      *)
THEOREM SelectionAgrees == BrokerSpec => []SelectedIsActive
<1>1. AgreeInv => SelectedIsActive
    BY RestingTyped DEF AgreeInv, SelectedFits, FileFits, SelectedIsActive, Idle, Moving, JobSteps
<1> QED BY <1>1, AgreeKept, PTL

(* No login is left behind for a profile that is not in the file, whatever *)
(* fails and whenever the broker dies.                                     *)
THEOREM RemovalIsComplete == BrokerSpec => []RemovedProfileLeavesNoLogin
<1>1. AgreeInv => RemovedProfileLeavesNoLogin
    BY DEF AgreeInv
<1> QED BY <1>1, AgreeKept, PTL

(* Between handlers clients address the server of the selected profile.    *)
THEOREM ClientsAgree == BrokerSpec => []ClientsFollowProfile
<1>1. AgreeInv => ClientsFollowProfile
    BY RestingTyped
       DEF AgreeInv, SelectedFits, ToldFits, ClientsFollowProfile, Idle, Moving, JobSteps
<1> QED BY <1>1, AgreeKept, PTL

(* What clients hold between handlers is of the selected profile and of    *)
(* its saved login.                                                        *)
THEOREM HeldAgrees == BrokerSpec => []HeldOfPresentLogin
<1>1. ASSUME AgreeInv, Idle, ~unsaved, NEW c \in Clients, held[c] # NoCookie
      PROVE  /\ c # "magnus" => held[c].profile = profile_id
             /\ c = "magnus" /\ whole => SameServer(held[c].profile, profile_id)
             /\ held[c].profile = profile_id /\ ack[profile_id] # NoSecret
                  => held[c].login = ack[profile_id]
    <2>1. job.step = "idle" /\ profile_id = current
        BY <1>1, RestingTyped DEF Idle, JobSteps, AgreeInv, SelectedFits, Moving
    <2>2. current # NoProfile
        BY <1>1 DEF AgreeInv, HeldFits, Nothing
    <2>3. whole => at[c] = current
        BY <2>1, <2>2, <1>1 DEF AgreeInv, ToldFits
    <2>4. ~Saved(held[c].profile)
        BY <1>1, <2>1, CallsStep DEF Saved, AgreeInv
    <2> QED BY <1>1, <2>1, <2>3, <2>4 DEF AgreeInv, HeldFits, LoginFits
<1>2. AgreeInv => HeldOfPresentLogin
    BY <1>1 DEF HeldOfPresentLogin
<1> QED BY <1>2, AgreeKept, PTL
===============================================================================
