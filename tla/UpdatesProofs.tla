----------------------------- MODULE UpdatesProofs -----------------------------
(***************************************************************************)
(* Proofs about the self-update, for any number of workers, commits, edits *)
(* by the user, crashes and failing writes.                                *)
(***************************************************************************)
EXTENDS Updates, TLAPS

Stages == {"none", "begun", "locked", "examined", "staged", "rechecked", "merged",
           "verified", "restarted", "reported", "failed"}
Work == [at : {"none"}] \cup [at : Stages \ {"none"}, want : Revisions, parent : BOOLEAN]
        \cup [at : Stages \ {"none"}, want : Revisions, parent : BOOLEAN, before : Heads]
Check == [at : {"none", "started", "decided"}] \cup [at : {"read"}, head : Heads]
         \cup [at : {"decided"}, result : [state : States \ {"updated"}, available : BOOLEAN,
                                           revision : 0..MaxRevision]]

(* What a check offered is a commit the repository has, and everything     *)
(* that may start an update or is one goes back to such an offer.          *)
Offers(record) == record.available => record.revision \in offered
OfferFits ==
    /\ offered \subseteq 1..remote
    /\ Offers(file) /\ Offers(mem)
    /\ "result" \in DOMAIN check => Offers(check.result)
    /\ request.at \in {"allowed", "clean", "marked"} => request.want \in offered
    /\ \A w \in Workers : work[w].at # "none" => work[w].want \in offered
    /\ \A w \in Workers : work[w].at \in {"staged", "rechecked", "merged", "verified", "restarted"}
         => Validates(work[w].want)

(* The worker between taking the lock and its end is the one that has it.  *)
LockFits ==
    \A w \in Workers : work[w].at \notin {"none", "begun", "failed"} => lock = w

(* The checkout only moves forward or away, so once it has passed the      *)
(* commit of a worker it never comes back to it.                           *)
Passed(w) == checkout.head.own \/ checkout.head.revision > work[w].want
ShellFits ==
    /\ checkout.head.revision <= remote
    /\ \A w \in Workers :
        /\ work[w].at = "verified" => At(w) \/ Passed(w)
        /\ work[w].at = "restarted" =>
            shell = [revision |-> work[w].want, own |-> FALSE] \/ Passed(w)

WorkFits == UpdateTypeOK /\ work \in [Workers -> Work] /\ check \in Check
UpdateInv == WorkFits /\ OfferFits /\ LockFits /\ ShellFits
-----------------------------------------------------------------------------
(* Pieces of steps.                                                        *)

LEMMA MovesTo ==
    ASSUME WorkFits, NEW w \in Workers, work[w].at # "none",
           NEW at \in Stages \ {"none"}, To(w, at)
    PROVE  /\ work' \in [Workers -> Work] /\ work'[w].at = at
           /\ work'[w].want = work[w].want
           /\ \A v \in Workers : v # w => work'[v] = work[v]
BY DEF WorkFits, To, Work

LEMMA Written ==
    ASSUME WorkFits, NEW record \in Record, Write(record)
    PROVE  /\ file' \in Record /\ old' \in BOOLEAN /\ mishaps' \in 0..MaxMishaps
           /\ file' = record \/ file' = file
<1>1. file \in Record /\ old \in BOOLEAN /\ mishaps \in 0..MaxMishaps
    BY DEF WorkFits, UpdateTypeOK
<1>2. Mishap => mishaps' \in 0..MaxMishaps
    BY <1>1, UpdateBounds DEF Mishap
<1> QED BY <1>1, <1>2 DEF Write

LEMMA LoadedTyped ==
    ASSUME WorkFits
    PROVE  /\ Loaded \in Record /\ Seen \in Record
           /\ Loaded.available = file.available /\ Loaded.revision = file.revision
           /\ Seen \in {mem, Loaded}
BY DEF WorkFits, UpdateTypeOK, Loaded, Seen, Record, States

LEMMA UpdateInit == Init => UpdateInv
<1> SUFFICES ASSUME Init PROVE UpdateInv
    OBVIOUS
<1>1. 1 \in Revisions /\ 0 \in 0..MaxRevision /\ 0 \in 0..MaxMishaps
    BY UpdateBounds DEF Revisions
<1>2. Idle \in Record /\ ~Idle.available
    BY <1>1 DEF Idle, Record, States
<1>3. work \in [Workers -> Work] /\ \A w \in Workers : work[w].at = "none"
    BY DEF Init, NoWork, Work
<1>4. check \in Check /\ "result" \notin DOMAIN check /\ check.at = "none"
    BY DEF Init, NoCheck, Check
<1>5. request.at = "idle" /\ request \in [at : {"idle", "asked", "allowed", "clean", "marked"},
                                          want : 0..MaxRevision]
    BY <1>1 DEF Init, NoRequest
<1>6. WorkFits
    BY <1>1, <1>2, <1>3, <1>4, <1>5 DEF Init, WorkFits, UpdateTypeOK, Heads
<1>7. OfferFits /\ LockFits /\ ShellFits
    BY <1>2, <1>3, <1>4, <1>5 DEF Init, OfferFits, LockFits, ShellFits, Offers
<1> QED BY <1>6, <1>7 DEF UpdateInv
-----------------------------------------------------------------------------
(* Steps that leave the checkout, the repository and the workers alone.    *)
LEMMA ManagerFits ==
    ASSUME UpdateInv, UNCHANGED <<world, workerVars, offered>>,
           file' \in Record, mem' \in Record, old' \in BOOLEAN, up' \in BOOLEAN,
           mishaps' \in 0..MaxMishaps, check' \in Check,
           request' \in [at : {"idle", "asked", "allowed", "clean", "marked"}, want : 0..MaxRevision],
           Offers(file)', Offers(mem)',
           "result" \in DOMAIN check' => Offers(check'.result),
           request'.at \in {"allowed", "clean", "marked"} => request'.want \in offered
    PROVE  UpdateInv'
<1> USE DEF UpdateInv, WorkFits
<1>1. UNCHANGED <<checkout, remote, shell, work, lock, offered>>
    BY DEF world, workerVars
<1>2. check'.at \in {"none", "started", "read", "decided"}
    BY DEF Check
<1>3. WorkFits'
    <2>1. \A w \in Workers : work'[w].at # "none" => work'[w].want \in Revisions
        BY <1>1 DEF UpdateTypeOK
    <2>2. {old', up'} \subseteq BOOLEAN
        OBVIOUS
    <2> QED BY <1>1, <1>2, <2>1, <2>2 DEF UpdateTypeOK
<1>4. OfferFits' /\ LockFits' /\ ShellFits'
    BY <1>1 DEF OfferFits, LockFits, ShellFits, Offers, Passed, At
<1> QED BY <1>3, <1>4

LEMMA InvTypes ==
    ASSUME UpdateInv
    PROVE  /\ file \in Record /\ mem \in Record /\ old \in BOOLEAN /\ up \in BOOLEAN
           /\ mishaps \in 0..MaxMishaps /\ check \in Check
           /\ request \in [at : {"idle", "asked", "allowed", "clean", "marked"}, want : 0..MaxRevision]
           /\ Offers(file) /\ Offers(mem) /\ ("result" \in DOMAIN check => Offers(check.result))
           /\ request.at \in {"allowed", "clean", "marked"} => request.want \in offered
           /\ offered \subseteq Revisions
BY DEF UpdateInv, WorkFits, UpdateTypeOK, OfferFits

LEMMA SmallTyped ==
    /\ NoCheck \in Check /\ "result" \notin DOMAIN NoCheck
    /\ [at |-> "started"] \in Check /\ "result" \notin DOMAIN [at |-> "started"]
    /\ [at |-> "decided"] \in Check /\ "result" \notin DOMAIN [at |-> "decided"]
    /\ NoRequest \in [at : {"idle", "asked", "allowed", "clean", "marked"}, want : 0..MaxRevision]
    /\ NoRequest.at = "idle"
    /\ [NoRequest EXCEPT !.at = "asked"]
         \in [at : {"idle", "asked", "allowed", "clean", "marked"}, want : 0..MaxRevision]
    /\ [NoRequest EXCEPT !.at = "asked"].at = "asked"
BY UpdateBounds DEF NoCheck, Check, NoRequest

LEMMA StatusFits ==
    ASSUME UpdateInv, Status
    PROVE  UpdateInv'
<1>1. UNCHANGED <<world, workerVars, offered, up>>
    BY DEF Status
<1>2. Seen \in Record /\ (Offers(file) /\ Offers(mem) => Offers(Seen))
    BY LoadedTyped DEF UpdateInv, Offers
<1>3. CASE mem' = Seen /\ UNCHANGED <<check, file, old, mishaps>>
           /\ (request' = [NoRequest EXCEPT !.at = "asked"] \/ UNCHANGED request)
    <2>1. Offers(file)' /\ Offers(mem)' /\ ("result" \in DOMAIN check' => Offers(check'.result))
        BY <1>1, <1>2, <1>3, InvTypes DEF Offers
    <2> QED BY <1>1, <1>2, <1>3, <2>1, InvTypes, SmallTyped, ManagerFits
<1>4. CASE BeginCheck /\ UNCHANGED request
    <2> DEFINE new == [Seen EXCEPT !.state = "checking"]
    <2>1. new \in Record /\ new.available = Seen.available /\ new.revision = Seen.revision
        BY <1>2 DEF Record, States
    <2>2. mem' = new /\ Write(new) /\ check' \in {NoCheck, [at |-> "started"]}
        BY <1>4 DEF BeginCheck
    <2> HIDE DEF new
    <2>3. file' \in Record /\ old' \in BOOLEAN /\ mishaps' \in 0..MaxMishaps /\ file' \in {new, file}
        BY <2>1, <2>2, Written DEF UpdateInv
    <2>4. Offers(file)' /\ Offers(mem)' /\ ("result" \in DOMAIN check' => Offers(check'.result))
        BY <1>1, <1>2, <2>1, <2>2, <2>3, InvTypes, SmallTyped DEF Offers
    <2> QED BY <1>1, <1>4, <2>1, <2>2, <2>3, <2>4, InvTypes, SmallTyped, ManagerFits
<1> QED BY <1>3, <1>4 DEF Status

LEMMA ErrorFits ==
    ASSUME UpdateInv, NEW state \in {"error", "modified", "updating"},
           mem' = [mem EXCEPT !.state = state], Write(mem')
    PROVE  /\ mem' \in Record /\ file' \in Record /\ old' \in BOOLEAN /\ mishaps' \in 0..MaxMishaps
           /\ UNCHANGED offered => Offers(file)' /\ Offers(mem)'
<1>1. mem' \in Record /\ mem'.available = mem.available /\ mem'.revision = mem.revision
    BY InvTypes DEF Record, States
<1>2. file' \in Record /\ old' \in BOOLEAN /\ mishaps' \in 0..MaxMishaps /\ file' \in {mem', file}
    BY <1>1, Written DEF UpdateInv
<1> QED BY <1>1, <1>2, InvTypes DEF Offers

LEMMA StartFits ==
    ASSUME UpdateInv, AskUpdate \/ Allow \/ LookClean \/ MarkUpdating
    PROVE  UpdateInv'
<1>1. UNCHANGED <<world, workerVars, offered, up, check>>
    BY DEF AskUpdate, Allow, LookClean, MarkUpdating
<1>2. /\ request' \in [at : {"idle", "asked", "allowed", "clean", "marked"}, want : 0..MaxRevision]
      /\ request'.at \in {"allowed", "clean", "marked"} => request'.want \in offered
    <2>1. CASE AskUpdate
        BY <2>1, SmallTyped DEF AskUpdate
    <2>2. CASE Allow
        <3>1. mem.revision \in 0..MaxRevision
            BY InvTypes DEF Record
        <3> QED BY <2>2, <3>1, InvTypes, SmallTyped DEF Allow, Offers
    <2>3. CASE LookClean \/ MarkUpdating
        <3>1. request.want \in offered
            BY <2>3, InvTypes DEF LookClean, MarkUpdating
        <3> QED BY <2>3, <3>1, InvTypes, SmallTyped DEF LookClean, MarkUpdating
    <2> QED BY <2>1, <2>2, <2>3
<1>3. CASE UNCHANGED <<mem, file, old, mishaps>>
    <2>1. Offers(file)' /\ Offers(mem)' /\ ("result" \in DOMAIN check' => Offers(check'.result))
        BY <1>1, <1>3, InvTypes DEF Offers
    <2> QED BY <1>1, <1>2, <1>3, <2>1, InvTypes, ManagerFits
<1>4. CASE \E state \in {"error", "modified", "updating"} :
               mem' = [mem EXCEPT !.state = state] /\ Write(mem')
    <2>1. "result" \in DOMAIN check' => Offers(check'.result)
        BY <1>1, InvTypes DEF Offers
    <2> QED BY <1>1, <1>2, <1>4, <2>1, ErrorFits, InvTypes, ManagerFits
<1>5. SetError("error") \/ SetError("modified") => <1>4!1
    BY DEF SetError
<1>6. UNCHANGED <<mem, file, old, mishaps>> \/ <1>4!1
    BY <1>5 DEF AskUpdate, Allow, LookClean, MarkUpdating
<1> QED BY <1>3, <1>4, <1>6

LEMMA DecideTyped ==
    ASSUME NEW state \in States \ {"updated"}, NEW available \in BOOLEAN,
           NEW r \in 0..MaxRevision, Decide(state, available, r)
    PROVE  /\ check' \in Check /\ check'.result.available = available
           /\ check'.result.revision = r
BY DEF Decide, Check

LEMMA CheckFits ==
    ASSUME UpdateInv, CheckReads \/ CheckPublishes
    PROVE  UpdateInv'
<1>1. UNCHANGED <<world, workerVars, offered, up, request>>
    BY DEF CheckReads, CheckPublishes
<1>2. CASE CheckReads
    <2>1. UNCHANGED <<mem, file, old, mishaps>>
        BY <1>2 DEF CheckReads
    <2>2. check' \in Check /\ ("result" \in DOMAIN check' => ~check'.result.available)
        <3>1. checkout.head \in Heads /\ 0 \in 0..MaxRevision
            BY UpdateBounds DEF UpdateInv, WorkFits, UpdateTypeOK
        <3>2. CASE CheckFails
            BY <3>2, SmallTyped DEF CheckFails
        <3>3. CASE Decide("modified", FALSE, 0)
            BY <3>1, <3>3, DecideTyped DEF States
        <3>4. CASE check' = [at |-> "read", head |-> checkout.head]
            BY <3>1, <3>4 DEF Check
        <3> QED BY <1>2, <3>2, <3>3, <3>4 DEF CheckReads
    <2>3. Offers(file)' /\ Offers(mem)' /\ ("result" \in DOMAIN check' => Offers(check'.result))
        BY <1>1, <2>1, <2>2, InvTypes DEF Offers
    <2> QED BY <1>1, <2>1, <2>2, <2>3, InvTypes, ManagerFits
<1>3. CASE CheckPublishes
    <2>1. mem' \in Record /\ Offers(mem)'
        BY <1>1, <1>3, InvTypes DEF CheckPublishes, Check, Record, States, Offers
    <2>2. Write(mem') /\ check' = NoCheck
        BY <1>3 DEF CheckPublishes
    <2>3. file' \in Record /\ old' \in BOOLEAN /\ mishaps' \in 0..MaxMishaps /\ file' \in {mem', file}
        BY <2>1, <2>2, Written DEF UpdateInv
    <2>4. Offers(file)'
        BY <1>1, <2>1, <2>3, InvTypes DEF Offers
    <2> QED BY <1>1, <2>1, <2>2, <2>3, <2>4, InvTypes, SmallTyped, ManagerFits
<1> QED BY <1>2, <1>3

(* The broker starts and stops, alone or with the shell.                   *)
LEMMA StoppedTyped ==
    ASSUME UpdateInv, Stopped
    PROVE  /\ up' = FALSE /\ check' = NoCheck /\ request' = NoRequest /\ UNCHANGED mem
BY DEF Stopped

LEMMA CrashFits ==
    ASSUME UpdateInv, BrokerCrash \/ TenMinutes
    PROVE  UpdateInv'
<1>1. UNCHANGED <<world, file, workerVars, offered, mem>>
    BY DEF BrokerCrash, TenMinutes, Stopped, brokerVars
<1>2. CASE BrokerCrash
    <2>1. mishaps' \in 0..MaxMishaps /\ old' = old
        BY <1>2, InvTypes, UpdateBounds DEF BrokerCrash, Mishap
    <2>2. up' = FALSE /\ check' = NoCheck /\ request' = NoRequest
        BY <1>2 DEF BrokerCrash, Stopped
    <2>3. Offers(file)' /\ Offers(mem)'
        BY <1>1, InvTypes DEF Offers
    <2> QED BY <1>1, <2>1, <2>2, <2>3, InvTypes, SmallTyped, ManagerFits
<1>3. CASE TenMinutes
    <2>1. UNCHANGED <<check, request, up, mishaps>> /\ old' = TRUE
        BY <1>3 DEF TenMinutes, brokerVars
    <2>2. Offers(file)' /\ Offers(mem)' /\ ("result" \in DOMAIN check' => Offers(check'.result))
        BY <1>1, <2>1, InvTypes DEF Offers
    <2> QED BY <1>1, <2>1, <2>2, InvTypes, ManagerFits
<1> QED BY <1>2, <1>3

LEMMA StartsFits ==
    ASSUME UpdateInv, BrokerStart
    PROVE  UpdateInv'
<1> USE DEF UpdateInv
<1>1. UNCHANGED <<checkout, remote, shell, file, old, check, request, lock, mishaps, offered>>
    BY DEF BrokerStart, world
<1>2. up' = TRUE /\ mem' \in Record /\ Offers(mem)' /\ Offers(file)'
    BY <1>1, LoadedTyped, InvTypes DEF BrokerStart, Offers
<1>3. \A w \in Workers : work'[w] \in Work /\ work'[w].at = work[w].at
                         /\ (work[w].at # "none" => work'[w].want = work[w].want)
    BY DEF BrokerStart, WorkFits, Work, NoWork
<1>4. work' \in [Workers -> Work]
    BY <1>3 DEF BrokerStart
<1>5. WorkFits'
    <2>1. {old', up'} \subseteq BOOLEAN
        BY <1>1, <1>2, InvTypes
    <2> QED BY <1>1, <1>2, <1>3, <1>4, <2>1 DEF WorkFits, UpdateTypeOK
<1>6. OfferFits'
    BY <1>1, <1>2, <1>3 DEF OfferFits, Offers, Validates
<1>7. LockFits' /\ ShellFits'
    BY <1>1, <1>3 DEF LockFits, ShellFits, Passed, At
<1> QED BY <1>5, <1>6, <1>7

(* The repository and the user.                                            *)
LEMMA WorldFits ==
    ASSUME UpdateInv, Publish \/ UserEdits
    PROVE  UpdateInv'
<1> USE DEF UpdateInv
<1>1. UNCHANGED <<shell, file, old, up, mem, check, request, work, lock, offered>>
    BY DEF Publish, UserEdits, brokerVars, workerVars
<1>2. remote' \in Revisions /\ remote <= remote' /\ remote \in Revisions /\ mishaps' \in 0..MaxMishaps
    <2>1. CASE Publish
        BY <2>1, UpdateBounds, InvTypes DEF Publish, WorkFits, UpdateTypeOK, Revisions
    <2>2. CASE UserEdits
        <3>1. remote' = remote /\ remote \in Revisions
            BY <2>2 DEF UserEdits, WorkFits, UpdateTypeOK
        <3>2. mishaps' \in 0..MaxMishaps
            BY <2>2, UpdateBounds, InvTypes DEF UserEdits, Mishap
        <3> QED BY <3>1, <3>2 DEF Revisions
    <2> QED BY <2>1, <2>2
<1>3. /\ checkout' \in [head : Heads, files : {"clean", "untracked", "tracked"}, canonical : BOOLEAN]
      /\ \/ checkout'.head = checkout.head
         \/ checkout'.head.own /\ checkout'.head.revision = checkout.head.revision
         \/ ~checkout.head.own /\ checkout.head.revision <= remote
            /\ checkout'.head = [revision |-> remote, own |-> FALSE]
    <2>1. checkout \in [head : Heads, files : {"clean", "untracked", "tracked"}, canonical : BOOLEAN]
          /\ remote \in Revisions
        BY DEF WorkFits, UpdateTypeOK
    <2>2. CASE Publish
        BY <2>1, <2>2 DEF Publish
    <2>3. CASE UserEdits
        <3>1. CASE checkout' = [checkout EXCEPT !.head.own = TRUE, !.files = "clean"]
            BY <2>1, <3>1 DEF Heads
        <3>2. CASE \E f \in {"clean", "untracked", "tracked"} :
                     checkout' = [checkout EXCEPT !.files = f]
            BY <2>1, <3>2 DEF Heads
        <3>3. CASE /\ Ancestor(checkout.head, remote)
                   /\ checkout' = [checkout EXCEPT !.head.revision = remote]
            BY <2>1, <3>3 DEF Heads, Ancestor
        <3>4. CASE checkout' = [checkout EXCEPT !.canonical = ~@]
            BY <2>1, <3>4 DEF Heads
        <3> QED BY <2>3, <3>1, <3>2, <3>3, <3>4 DEF UserEdits
    <2> QED BY <2>2, <2>3
<1>4. checkout.head.revision \in Nat /\ remote \in Nat /\ remote' \in Nat
      /\ \A w \in Workers : work[w].at # "none" => work[w].want \in Nat
    BY <1>2 DEF WorkFits, UpdateTypeOK, Heads, Revisions
<1>5. WorkFits'
    BY <1>1, <1>2, <1>3 DEF WorkFits, UpdateTypeOK
<1>6. OfferFits'
    <2>1. offered \subseteq 1..remote'
        BY <1>2, <1>4 DEF OfferFits
    <2> QED BY <1>1, <2>1 DEF OfferFits, Offers
<1>7. LockFits'
    BY <1>1 DEF LockFits
<1>8. ShellFits'
    <2>1. checkout'.head.revision <= remote'
        BY <1>2, <1>3, <1>4 DEF ShellFits
    <2>2. \A w \in Workers : work[w].at # "none" /\ Passed(w) => checkout'.head.own \/ checkout'.head.revision > work[w].want
        BY <1>3, <1>4 DEF Passed
    <2>3. \A w \in Workers : work[w].at # "none" /\ At(w) =>
            \/ checkout'.head = [revision |-> work[w].want, own |-> FALSE]
            \/ checkout'.head.own \/ checkout'.head.revision > work[w].want
        BY <1>3, <1>4 DEF At
    <2> QED BY <1>1, <2>1, <2>2, <2>3 DEF ShellFits, Passed, At
<1> QED BY <1>5, <1>6, <1>7, <1>8

(* A request launches a worker, and a check makes an offer.                *)
LEMMA LaunchFits ==
    ASSUME UpdateInv, Launch
    PROVE  UpdateInv'
<1> USE DEF UpdateInv
<1>1. /\ UNCHANGED <<checkout, remote, shell, lock, offered, up, check>> /\ request.at = "marked"
      /\ request' = NoRequest
    BY DEF Launch, world
<1>2. request.want \in offered /\ request.want \in Revisions
    BY <1>1, InvTypes
<1>3. CASE SetError("error") /\ UNCHANGED work
    <2>1. UNCHANGED <<world, workerVars, offered>>
        BY <1>1, <1>3 DEF world, workerVars
    <2>2. mem' \in Record /\ file' \in Record /\ old' \in BOOLEAN /\ mishaps' \in 0..MaxMishaps
          /\ Offers(file)' /\ Offers(mem)'
        BY <1>1, <1>3, ErrorFits DEF SetError
    <2>3. "result" \in DOMAIN check' => Offers(check'.result)
        BY <1>1, InvTypes DEF Offers
    <2> QED BY <1>1, <2>1, <2>2, <2>3, InvTypes, SmallTyped, ManagerFits
<1>4. CASE \E w \in Workers :
             /\ work[w].at = "none"
             /\ work' = [work EXCEPT ![w] = [at |-> "begun", want |-> request.want, parent |-> TRUE]]
             /\ UNCHANGED <<mem, file, old, mishaps>>
    <2>1. PICK w \in Workers :
             /\ work[w].at = "none" /\ UNCHANGED <<mem, file, old, mishaps>>
             /\ work' = [work EXCEPT ![w] = [at |-> "begun", want |-> request.want, parent |-> TRUE]]
        BY <1>4
    <2>2. /\ work' \in [Workers -> Work] /\ work'[w].at = "begun" /\ work'[w].want = request.want
          /\ \A v \in Workers : v # w => work'[v] = work[v]
        BY <1>2, <2>1 DEF WorkFits, Work, Stages
    <2>3. WorkFits'
        BY <1>1, <1>2, <2>1, <2>2, SmallTyped DEF WorkFits, UpdateTypeOK
    <2>4. OfferFits'
        BY <1>1, <1>2, <2>1, <2>2, SmallTyped DEF OfferFits, Offers
    <2>5. LockFits' /\ ShellFits'
        BY <1>1, <2>2 DEF LockFits, ShellFits, Passed, At
    <2> QED BY <2>3, <2>4, <2>5
<1> QED BY <1>3, <1>4 DEF Launch

LEMMA FetchFits ==
    ASSUME UpdateInv, CheckFetches
    PROVE  UpdateInv'
<1> USE DEF UpdateInv
<1>1. UNCHANGED <<checkout, remote, shell, work, lock, up, file, old, mem, request, mishaps>>
    BY DEF CheckFetches, world, workerVars
<1>2. remote \in Revisions /\ remote \in 1..remote /\ remote \in 0..MaxRevision
    BY UpdateBounds DEF WorkFits, UpdateTypeOK, Revisions
<1>3. /\ offered' \in {offered, offered \cup {remote}}
      /\ check' \in Check /\ ("result" \in DOMAIN check' => Offers(check.result)')
    <2>1. CASE CheckFails /\ UNCHANGED offered
        BY <2>1, SmallTyped DEF CheckFails
    <2>2. CASE /\ Decide(Availability, Availability = "available", remote)
               /\ offered' = offered \cup (IF Availability = "available" THEN {remote} ELSE {})
        <3>1. Availability \in States \ {"updated"}
            BY DEF Availability, States
        <3>2. /\ check' \in Check /\ check'.result.revision = remote
              /\ check'.result.available => Availability = "available"
            <4>1. CASE Availability = "available"
                BY <1>2, <2>2, <3>1, <4>1, DecideTyped
            <4>2. CASE Availability # "available"
                BY <1>2, <2>2, <3>1, <4>2, DecideTyped
            <4> QED BY <4>1, <4>2
        <3> QED BY <2>2, <3>2 DEF Offers
    <2> QED BY <2>1, <2>2 DEF CheckFetches
<1>4. WorkFits'
    <2>1. check'.at \in {"none", "started", "read", "decided"}
        BY <1>3 DEF Check
    <2> QED BY <1>1, <1>2, <1>3, <2>1 DEF WorkFits, UpdateTypeOK
<1>5. OfferFits'
    BY <1>1, <1>2, <1>3 DEF OfferFits, Offers
<1>6. LockFits' /\ ShellFits'
    BY <1>1 DEF LockFits, ShellFits, Passed, At
<1> QED BY <1>4, <1>5, <1>6
-----------------------------------------------------------------------------
(* Workers.                                                                *)
Moves(w, at) ==
    /\ work' \in [Workers -> Work] /\ work'[w].at = at
    /\ at # "none" => work[w].at # "none" /\ work'[w].want = work[w].want
    /\ \A v \in Workers : v # w => work'[v] = work[v]

LEMMA WorkerFits ==
    ASSUME UpdateInv, NEW w \in Workers, NEW at \in Stages, Moves(w, at),
           UNCHANGED <<remote, offered>>, UNCHANGED brokerVars \/ Stopped,
           checkout' \in [head : Heads, files : {"clean", "untracked", "tracked"}, canonical : BOOLEAN],
           shell' \in Heads, file' \in Record, old' \in BOOLEAN, mishaps' \in 0..MaxMishaps,
           Offers(file)', lock' \in Workers \cup {NoWorker},
           at \in {"staged", "rechecked", "merged", "verified", "restarted"} => Validates(work[w].want),
           LockFits', ShellFits'
    PROVE  UpdateInv'
<1> USE DEF UpdateInv, Moves
<1>1. /\ up' \in BOOLEAN /\ mem' = mem /\ check' \in {check, NoCheck} /\ request' \in {request, NoRequest}
    BY InvTypes DEF brokerVars, Stopped
<1>2. \A v \in Workers : work'[v].at # "none" =>
        work[v].at # "none" /\ work'[v].want = work[v].want
    OBVIOUS
<1>3. WorkFits'
    <2>1. {old', up'} \subseteq BOOLEAN
        BY <1>1
    <2>2. check' \in Check /\ check'.at \in {"none", "started", "read", "decided"}
        BY <1>1, SmallTyped DEF WorkFits, Check
    <2>3. request' \in [at : {"idle", "asked", "allowed", "clean", "marked"}, want : 0..MaxRevision]
        BY <1>1, SmallTyped, InvTypes
    <2> QED BY <1>1, <1>2, <2>1, <2>2, <2>3 DEF WorkFits, UpdateTypeOK
<1>4. OfferFits'
    <2>1. "result" \in DOMAIN check' => Offers(check.result)'
        BY <1>1, SmallTyped DEF OfferFits, Offers
    <2>2. request'.at \in {"allowed", "clean", "marked"} => request'.want \in offered'
        BY <1>1, SmallTyped DEF OfferFits
    <2> QED BY <1>1, <1>2, <2>1, <2>2 DEF OfferFits, Offers, Validates
<1> QED BY <1>3, <1>4

LEMMA LockMoves ==
    ASSUME UpdateInv, NEW w \in Workers, NEW at \in Stages, Moves(w, at),
           \/ Release(w) /\ at \in {"none", "failed"}
           \/ UNCHANGED lock /\ (at \in {"none", "failed"} \/ work[w].at \notin {"none", "begun", "failed"})
           \/ lock = NoWorker /\ lock' = w
    PROVE  LockFits' /\ lock' \in Workers \cup {NoWorker}
BY UpdateBounds DEF UpdateInv, Moves, LockFits, Release, WorkFits, UpdateTypeOK

(* A step that neither moves the checkout nor starts the shell.            *)
LEMMA StayFits ==
    ASSUME UpdateInv, NEW w \in Workers, NEW at \in Stages, Moves(w, at),
           UNCHANGED <<world, offered, old>>, UNCHANGED brokerVars \/ Stopped,
           at # "restarted", at = "verified" => At(w),
           at \in {"staged", "rechecked", "merged", "verified"} => Validates(work[w].want),
           file' \in Record, mishaps' \in 0..MaxMishaps, Offers(file)',
           \/ Release(w) /\ at \in {"none", "failed"}
           \/ UNCHANGED lock /\ (at \in {"none", "failed"} \/ work[w].at \notin {"none", "begun", "failed"})
           \/ lock = NoWorker /\ lock' = w
    PROVE  UpdateInv'
<1>1. UNCHANGED <<checkout, remote, shell>>
    BY DEF world
<1>2. ShellFits'
    BY <1>1 DEF UpdateInv, ShellFits, Moves, Passed, At
<1> QED BY <1>1, <1>2, LockMoves, WorkerFits, InvTypes DEF UpdateInv, WorkFits, UpdateTypeOK

LEMMA MovesOn ==
    ASSUME UpdateInv, NEW w \in Workers, work[w].at # "none",
           NEW at \in Stages \ {"none"}, To(w, at)
    PROVE  Moves(w, at)
BY MovesTo DEF UpdateInv, Moves

LEMMA FailFits ==
    ASSUME UpdateInv, NEW w \in Workers, work[w].at # "none", Fail(w),
           UNCHANGED <<world, file, old, mishaps, offered>>, UNCHANGED brokerVars \/ Stopped
    PROVE  UpdateInv'
<1>1. Moves(w, "failed") /\ Release(w)
    BY MovesOn DEF Fail, Stages
<1>2. Offers(file)' /\ file' \in Record /\ mishaps' \in 0..MaxMishaps
    BY InvTypes DEF Offers
<1> QED BY <1>1, <1>2, StayFits DEF Stages

(* From the start of a worker to the last look before the merge.           *)
LEMMA ExaminesFits ==
    ASSUME UpdateInv, NEW w \in Workers, Begin(w) \/ Examine(w) \/ ValidateStaged(w) \/ Recheck(w)
    PROVE  UpdateInv'
<1>1. /\ work[w].at # "none"
      /\ UNCHANGED <<world, file, old, brokerVars, mishaps, offered>>
    BY DEF Begin, Examine, ValidateStaged, Recheck
<1>2. CASE Fail(w)
    BY <1>1, <1>2, FailFits
<1>3. Offers(file)' /\ file' \in Record /\ mishaps' \in 0..MaxMishaps
    BY <1>1, InvTypes DEF Offers
<1>4. CASE Begin(w) /\ lock = NoWorker /\ lock' = w /\ To(w, "locked")
    <2>1. Moves(w, "locked")
        BY <1>1, <1>4, MovesOn DEF Stages
    <2> QED BY <1>1, <1>3, <1>4, <2>1, StayFits DEF Stages
<1>5. CASE /\ Examine(w) /\ UNCHANGED lock
           /\ work' = [work EXCEPT ![w] = [at |-> "examined", want |-> @.want,
                                           parent |-> @.parent, before |-> checkout.head]]
    <2>1. work[w].want \in Revisions /\ work[w].parent \in BOOLEAN /\ checkout.head \in Heads
        BY <1>1 DEF UpdateInv, WorkFits, UpdateTypeOK, Work
    <2>2. Moves(w, "examined")
        BY <1>1, <1>5, <2>1 DEF Moves, Work, Stages, UpdateInv, WorkFits
    <2>3. work[w].at = "locked"
        BY <1>5 DEF Examine
    <2> QED BY <1>1, <1>3, <1>5, <2>2, <2>3, StayFits DEF Stages
<1>6. CASE ValidateStaged(w) /\ Validates(work[w].want) /\ To(w, "staged") /\ UNCHANGED lock
    <2>1. Moves(w, "staged") /\ work[w].at = "examined"
        BY <1>1, <1>6, MovesOn DEF Stages, ValidateStaged
    <2> QED BY <1>1, <1>3, <1>6, <2>1, StayFits DEF Stages
<1>7. CASE Recheck(w) /\ To(w, "rechecked") /\ UNCHANGED lock
    <2>1. Moves(w, "rechecked") /\ work[w].at = "staged"
        BY <1>1, <1>7, MovesOn DEF Stages, Recheck
    <2>2. Validates(work[w].want)
        BY <2>1 DEF UpdateInv, OfferFits
    <2> QED BY <1>1, <1>3, <1>7, <2>1, <2>2, StayFits DEF Stages
<1> QED BY <1>2, <1>4, <1>5, <1>6, <1>7 DEF Begin, Examine, ValidateStaged, Recheck

(* The merge: what it may do to the checkout.                              *)
LEMMA MergeKeeps ==
    ASSUME UpdateInv, NEW w \in Workers, Merge(w), checkout' # checkout
    PROVE  /\ ~checkout.head.own /\ To(w, "merged") /\ UNCHANGED lock
           /\ checkout' \in [head : Heads, files : {"clean", "untracked", "tracked"}, canonical : BOOLEAN]
           /\ checkout'.head.revision = work[w].want /\ ~checkout'.head.own
           /\ checkout'.files = checkout.files
<1>1. checkout \in [head : Heads, files : {"clean", "untracked", "tracked"}, canonical : BOOLEAN]
    BY DEF UpdateInv, WorkFits, UpdateTypeOK
<1>2. work[w].want \in Revisions
    BY DEF Merge, UpdateInv, WorkFits, UpdateTypeOK
<1>3. /\ Ancestor(checkout.head, work[w].want) /\ To(w, "merged") /\ UNCHANGED lock
      /\ checkout' = [checkout EXCEPT !.head.revision = work[w].want]
    BY DEF Merge
<1> QED BY <1>1, <1>2, <1>3 DEF Ancestor, Heads

LEMMA MergeFits ==
    ASSUME UpdateInv, NEW w \in Workers, Merge(w)
    PROVE  UpdateInv'
<1>1. /\ work[w].at = "rechecked" /\ UNCHANGED <<remote, shell, file, old, brokerVars, mishaps, offered>>
      /\ lock = w
    BY DEF Merge, UpdateInv, LockFits
<1>2. Offers(file)' /\ file' \in Record /\ mishaps' \in 0..MaxMishaps
    BY <1>1, InvTypes DEF Offers
<1>3. Validates(work[w].want) /\ work[w].want \in offered /\ work[w].want \in Revisions
    BY <1>1 DEF UpdateInv, OfferFits, WorkFits, UpdateTypeOK
<1>4. CASE UNCHANGED checkout /\ Fail(w)
    BY <1>1, <1>4, FailFits DEF world
<1>5. CASE UNCHANGED checkout /\ To(w, "merged") /\ UNCHANGED lock
    <2>1. Moves(w, "merged")
        BY <1>1, <1>5, MovesOn DEF Stages
    <2> QED BY <1>1, <1>2, <1>3, <1>5, <2>1, StayFits DEF Stages, world
<1>6. CASE checkout' # checkout
    <2>1. /\ To(w, "merged") /\ UNCHANGED lock /\ checkout'.head.revision = work[w].want
          /\ checkout' \in [head : Heads, files : {"clean", "untracked", "tracked"}, canonical : BOOLEAN]
        BY <1>6, MergeKeeps
    <2>2. Moves(w, "merged")
        BY <1>1, <2>1, MovesOn DEF Stages
    <2>3. ShellFits'
        <3>1. work[w].want <= remote
            <4>1. work[w].want \in 1..remote
                BY <1>3 DEF UpdateInv, OfferFits
            <4>2. remote \in Nat
                BY DEF UpdateInv, WorkFits, UpdateTypeOK, Revisions
            <4> QED BY <4>1, <4>2
        <3>2. \A v \in Workers : v # w => work[v].at \notin {"verified", "restarted"}
            BY <1>1 DEF UpdateInv, LockFits
        <3>3. \A v \in Workers : work'[v].at \notin {"verified", "restarted"}
            BY <2>2, <3>2 DEF Moves
        <3> QED BY <1>1, <2>1, <3>1, <3>3 DEF ShellFits
    <2>4. LockFits' /\ lock' \in Workers \cup {NoWorker}
        BY <1>1, <2>1, <2>2, LockMoves DEF Stages
    <2>5. shell' \in Heads /\ old' \in BOOLEAN
        BY <1>1, InvTypes DEF UpdateInv, WorkFits, UpdateTypeOK
    <2> QED BY <1>1, <1>2, <1>3, <2>1, <2>2, <2>3, <2>4, <2>5, WorkerFits DEF Stages
<1> QED BY <1>4, <1>5, <1>6 DEF Merge

(* From the merge to the end.                                              *)
LEMMA RestartFits ==
    ASSUME UpdateInv, NEW w \in Workers, RestartShell(w)
    PROVE  UpdateInv'
<1>1. /\ work[w].at = "verified" /\ UNCHANGED <<checkout, remote, file, old, mishaps, offered>>
      /\ lock = w
    BY DEF RestartShell, UpdateInv, LockFits
<1>2. CASE Fail(w) /\ UNCHANGED shell /\ (Terminate(w) \/ UNCHANGED brokerVars)
    BY <1>1, <1>2, FailFits DEF world, Terminate
<1>3. CASE shell' = checkout.head /\ To(w, "restarted") /\ UNCHANGED <<lock, brokerVars>>
    <2>1. Moves(w, "restarted")
        BY <1>1, <1>3, MovesOn DEF Stages
    <2>2. Validates(work[w].want) /\ (At(w) \/ Passed(w))
        BY <1>1 DEF UpdateInv, OfferFits, ShellFits
    <2>3. \A v \in Workers : v # w => work'[v].at \notin {"verified", "restarted"}
        BY <1>1, <2>1 DEF UpdateInv, LockFits, Moves
    <2>4. ShellFits'
        <3>1. checkout'.head.revision <= remote'
            BY <1>1 DEF UpdateInv, ShellFits
        <3>2. At(w) \/ Passed(w)' 
            BY <1>1, <2>1, <2>2 DEF Passed, Moves
        <3> QED BY <1>1, <1>3, <2>1, <2>3, <3>1, <3>2 DEF ShellFits, At, Moves
    <2>5. LockFits' /\ lock' \in Workers \cup {NoWorker}
        BY <1>1, <1>3, <2>1, LockMoves DEF Stages
    <2>6. /\ checkout' \in [head : Heads, files : {"clean", "untracked", "tracked"}, canonical : BOOLEAN]
          /\ shell' \in Heads
        BY <1>1, <1>3 DEF UpdateInv, WorkFits, UpdateTypeOK
    <2>7. Offers(file)' /\ file' \in Record /\ mishaps' \in 0..MaxMishaps /\ old' \in BOOLEAN
        BY <1>1, InvTypes DEF Offers
    <2> QED BY <1>1, <1>3, <2>1, <2>2, <2>4, <2>5, <2>6, <2>7, WorkerFits DEF Stages
<1> QED BY <1>2, <1>3 DEF RestartShell

LEMMA ReportFits ==
    ASSUME UpdateInv, NEW w \in Workers, Verify(w) \/ Report(w)
    PROVE  UpdateInv'
<1>1. work[w].at # "none" /\ UNCHANGED <<world, brokerVars, offered>>
    BY DEF Verify, Report
<1>2. CASE Fail(w) /\ UNCHANGED <<file, old, mishaps>>
    BY <1>1, <1>2, FailFits
<1>3. CASE /\ Verify(w) /\ At(w) /\ To(w, "verified") /\ UNCHANGED lock
    <2>1. Moves(w, "verified") /\ work[w].at = "merged" /\ UNCHANGED <<file, old, mishaps>>
        BY <1>1, <1>3, MovesOn DEF Stages, Verify
    <2>2. Validates(work[w].want)
        BY <2>1 DEF UpdateInv, OfferFits
    <2>3. Offers(file)' /\ file' \in Record /\ mishaps' \in 0..MaxMishaps
        BY <1>1, <2>1, InvTypes DEF Offers
    <2> QED BY <1>1, <1>3, <2>1, <2>2, <2>3, StayFits DEF Stages
<1>4. CASE /\ Report(w) /\ UNCHANGED <<lock, mishaps>> /\ To(w, "reported") /\ old' = FALSE
           /\ file' = [state |-> "updated", available |-> FALSE, revision |-> work[w].want]
    <2>1. Moves(w, "reported") /\ work[w].at = "restarted"
        BY <1>1, <1>4, MovesOn DEF Stages, Report
    <2>2. work[w].want \in 0..MaxRevision
        BY <1>1 DEF UpdateInv, WorkFits, UpdateTypeOK, Revisions
    <2>3. Offers(file)' /\ file' \in Record /\ mishaps' \in 0..MaxMishaps /\ old' \in BOOLEAN
        BY <1>4, <2>2, InvTypes DEF Offers, Record, States
    <2>4. LockFits' /\ lock' \in Workers \cup {NoWorker}
        BY <1>4, <2>1, LockMoves DEF Stages
    <2>5. UNCHANGED <<checkout, remote, shell>>
        BY <1>1 DEF world
    <2>6. ShellFits'
        BY <2>1, <2>5 DEF UpdateInv, ShellFits, Moves, Passed, At
    <2> QED BY <1>1, <2>1, <2>3, <2>4, <2>5, <2>6, WorkerFits
            DEF Stages, UpdateInv, WorkFits, UpdateTypeOK
<1> QED BY <1>2, <1>3, <1>4 DEF Verify, Report

LEMMA LeaveFits ==
    ASSUME UpdateInv, NEW w \in Workers, Leave(w) \/ ReportFailure(w) \/ WorkerDies(w)
    PROVE  UpdateInv'
<1>1. /\ work' = [work EXCEPT ![w] = NoWork] /\ work[w].at # "none"
      /\ UNCHANGED <<world, offered>> /\ (UNCHANGED brokerVars \/ Stopped)
      /\ Release(w) \/ UNCHANGED lock
    BY DEF Leave, ReportFailure, WorkerDies, Terminate
<1>2. Moves(w, "none")
    BY <1>1 DEF Moves, UpdateInv, WorkFits, Work, NoWork
<1>3. file' \in Record /\ mishaps' \in 0..MaxMishaps /\ old' \in BOOLEAN /\ Offers(file)'
    <2>1. CASE Leave(w)
        BY <2>1, InvTypes DEF Leave, Offers
    <2>2. CASE WorkerDies(w)
        BY <2>2, InvTypes, UpdateBounds DEF WorkerDies, Mishap, Offers
    <2>3. CASE ReportFailure(w)
        <3> DEFINE record == [state |-> "error", available |-> FALSE, revision |-> work[w].want]
        <3>1. work[w].want \in 0..MaxRevision
            BY <1>1 DEF UpdateInv, WorkFits, UpdateTypeOK, Revisions
        <3>2. record \in Record /\ ~record.available
            BY <3>1 DEF Record, States
        <3>3. Write(record)
            BY <2>3 DEF ReportFailure
        <3> HIDE DEF record
        <3> QED BY <1>1, <3>2, <3>3, Written, InvTypes DEF UpdateInv, Offers
    <2> QED BY <2>1, <2>2, <2>3
<1>4. LockFits' /\ lock' \in Workers \cup {NoWorker}
    BY <1>1, <1>2, LockMoves DEF Stages
<1>5. UNCHANGED <<checkout, remote, shell>>
    BY <1>1 DEF world
<1>6. ShellFits'
    BY <1>2, <1>5 DEF UpdateInv, ShellFits, Moves, Passed, At
<1> QED BY <1>1, <1>2, <1>3, <1>4, <1>5, <1>6, WorkerFits
        DEF Stages, UpdateInv, WorkFits, UpdateTypeOK
-----------------------------------------------------------------------------
LEMMA UpdateNext == UpdateInv /\ [Next]_vars => UpdateInv'
<1> SUFFICES ASSUME UpdateInv, [Next]_vars PROVE UpdateInv'
    OBVIOUS
<1>1. CASE Next
    BY <1>1, WorldFits, CrashFits, StatusFits, StartFits, LaunchFits, CheckFits, FetchFits, StartsFits,
       ExaminesFits, MergeFits, RestartFits, ReportFits, LeaveFits
       DEF Next, StartSteps, CheckSteps, WorkerStep
<1>2. CASE UNCHANGED vars
    BY <1>2 DEF vars, world, brokerVars, workerVars, UpdateInv, WorkFits, UpdateTypeOK, OfferFits, Offers,
        LockFits, ShellFits, Passed, At
<1> QED BY <1>1, <1>2

LEMMA UpdateKept == Spec => []UpdateInv
BY UpdateInit, UpdateNext, PTL DEF Spec

(* The state of the update is well typed.                                  *)
THEOREM UpdateTyped == Spec => []UpdateTypeOK
<1>1. UpdateInv => UpdateTypeOK
    BY DEF UpdateInv, WorkFits
<1> QED BY <1>1, UpdateKept, PTL

(* Who moves the checkout.                                                 *)
LEMMA WhoMoves ==
    ASSUME UpdateInv, [Next]_vars, ~ByUser
    PROVE  UNCHANGED checkout \/ \E w \in Workers : Merge(w)
<1>1. UserEdits => ByUser
    BY InvTypes DEF UserEdits, Mishap, ByUser, workerVars
<1>2. CASE UserEdits \/ UNCHANGED vars
    BY <1>1, <1>2 DEF vars, world
<1>3. CASE Publish \/ TenMinutes \/ Status \/ AskUpdate \/ StartSteps \/ CheckSteps
           \/ BrokerCrash \/ BrokerStart
    BY <1>3 DEF Publish, TenMinutes, Status, AskUpdate, StartSteps, Allow, LookClean, MarkUpdating,
        Launch, CheckSteps, CheckReads, CheckFetches, CheckPublishes, BrokerCrash, BrokerStart, world
<1>4. ASSUME NEW w \in Workers, WorkerStep(w) \/ WorkerDies(w)
      PROVE  UNCHANGED checkout \/ Merge(w)
    BY <1>4 DEF WorkerStep, Begin, Examine, ValidateStaged, Recheck, Verify, RestartShell, Report,
        Leave, ReportFailure, WorkerDies, world
<1> QED BY <1>2, <1>3, <1>4 DEF Next

(* Only a commit that a check offered and that was validated is installed. *)
THEOREM InstallsTheOffer == Spec => InstallsOnlyTheOffer
<1>1. ASSUME UpdateInv, [Next]_vars
      PROVE  checkout'.head # checkout.head /\ ~ByUser => checkout'.head.revision \in offered \ Broken
    <2> SUFFICES ASSUME checkout'.head # checkout.head, ~ByUser
                 PROVE  checkout'.head.revision \in offered \ Broken
        OBVIOUS
    <2>1. PICK w \in Workers : Merge(w)
        BY <1>1, WhoMoves
    <2>2. work[w].want \in offered /\ Validates(work[w].want)
        BY <1>1, <2>1 DEF Merge, UpdateInv, OfferFits
    <2>3. checkout'.head.revision = work[w].want
        <3>1. checkout' # checkout
            OBVIOUS
        <3> QED BY <1>1, <2>1, <3>1, MergeKeeps
    <2> QED BY <2>2, <2>3 DEF Validates
<1> QED BY <1>1, UpdateKept, PTL DEF Spec, InstallsOnlyTheOffer

(* No step of an update touches the user's files or commits.               *)
THEOREM KeepsUserWork == Spec => UserWorkIsKept
<1>1. ASSUME UpdateInv, [Next]_vars
      PROVE  ~ByUser => /\ checkout'.files = checkout.files
                        /\ checkout.head.own => checkout'.head = checkout.head
    <2> SUFFICES ASSUME ~ByUser, checkout' # checkout
                 PROVE  checkout'.files = checkout.files /\ ~checkout.head.own
        OBVIOUS
    <2>1. PICK w \in Workers : Merge(w)
        BY <1>1, WhoMoves
    <2> QED BY <1>1, <2>1, MergeKeeps
<1> QED BY <1>1, UpdateKept, PTL DEF Spec, UserWorkIsKept

(* "updated" is only written while the shell runs the commit it names.     *)
THEOREM UpdatedRuns == Spec => UpdatedIsRunning
<1>1. ASSUME UpdateInv, [Next]_vars
      PROVE  file'.state = "updated" /\ file.state # "updated" =>
               shell = [revision |-> file'.revision, own |-> FALSE]
    <2> SUFFICES ASSUME file'.state = "updated", file.state # "updated"
                 PROVE  shell = [revision |-> file'.revision, own |-> FALSE]
        OBVIOUS
    <2>1. \A record : Write(record) => file' = record \/ file' = file
        BY DEF Write
    <2>2. mem \in Record /\ Seen \in Record
        BY <1>1, InvTypes, LoadedTyped DEF UpdateInv
    <2>3. ~(Status \/ Allow \/ LookClean \/ MarkUpdating \/ Launch)
        BY <2>1, <2>2 DEF Status, BeginCheck, Allow, LookClean, MarkUpdating, Launch, SetError, Record
    <2>4. ~CheckPublishes
        <3>1. SUFFICES ASSUME CheckPublishes PROVE FALSE
            OBVIOUS
        <3>2. mem'.state # "updated"
            BY <1>1, <2>2, <3>1, InvTypes DEF CheckPublishes, Check, Record
        <3> QED BY <2>1, <3>1, <3>2 DEF CheckPublishes
    <2>5. PICK w \in Workers : Report(w) /\ file' = [state |-> "updated", available |-> FALSE,
                                                     revision |-> work[w].want] /\ At(w)
        <3>1. ~(Publish \/ UserEdits \/ TenMinutes \/ AskUpdate \/ CheckReads \/ CheckFetches
                \/ BrokerCrash \/ BrokerStart \/ UNCHANGED vars)
            BY DEF Publish, UserEdits, TenMinutes, AskUpdate, CheckReads, CheckFetches, BrokerCrash,
                BrokerStart, vars
        <3>2. \A w \in Workers : ~(Begin(w) \/ Examine(w) \/ ValidateStaged(w) \/ Recheck(w) \/ Merge(w)
                                   \/ Verify(w) \/ RestartShell(w) \/ Leave(w) \/ WorkerDies(w))
            BY DEF Begin, Examine, ValidateStaged, Recheck, Merge, Verify, RestartShell, Leave, WorkerDies
        <3>3. \A w \in Workers : ~ReportFailure(w)
            BY <2>1 DEF ReportFailure
        <3>4. PICK w \in Workers : Report(w)
            BY <1>1, <2>3, <2>4, <3>1, <3>2, <3>3 DEF Next, StartSteps, CheckSteps, WorkerStep
        <3> QED BY <3>4 DEF Report
    <2>6. work[w].at = "restarted" /\ work[w].want \in Nat
        BY <1>1, <2>5 DEF Report, UpdateInv, WorkFits, UpdateTypeOK, Revisions
    <2>7. shell = [revision |-> work[w].want, own |-> FALSE] \/ Passed(w)
        BY <1>1, <2>6 DEF UpdateInv, ShellFits
    <2>8. ~Passed(w)
        BY <2>5, <2>6 DEF At, Passed
    <2> QED BY <2>5, <2>7, <2>8
<1> QED BY <1>1, UpdateKept, PTL DEF Spec, UpdatedIsRunning
================================================================================
