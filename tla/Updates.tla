-------------------------------- MODULE Updates --------------------------------
(***************************************************************************)
(* The self-update of a Git-managed installation: the manager in the       *)
(* broker (updates.py) with its requests and its check thread, the         *)
(* detached workers it launches (update_worker.py), and what they share:   *)
(* the checkout, the state file and the install lock.                      *)
(*                                                                         *)
(* A commit of the canonical repository is its number, 0 stands for none;  *)
(* a checkout is at such a commit, or at a commit of the user's own on top *)
(* of it.  Of the state records the fields that decide something are kept. *)
(* Each Git or Omarchy command is a step and may fail or time out.         *)
(***************************************************************************)
EXTENDS Naturals, FiniteSets

CONSTANTS
    Workers,      \* worker processes that may run at a time
    MaxRevision,  \* bound: commits of the canonical repository
    Broken,       \* commits that "omarchy plugin validate" refuses
    MaxMishaps    \* bound: edits by the user, crashes and failing writes

Revisions == 1..MaxRevision
NoWorker == "none"

ASSUME UpdateBounds ==
    /\ Broken \subseteq Revisions
    /\ MaxRevision \in Nat \ {0} /\ MaxMishaps \in Nat
    /\ NoWorker \notin Workers

VARIABLES
    checkout,   \* the commit, the uncommitted files, whether origin is ours
    remote,     \* HEAD of the canonical repository
    shell,      \* the checkout the running shell was started from
    file,       \* updates.json
    old,        \* whether the operation in updates.json is ten minutes old
    up,         \* whether the broker runs
    mem,        \* the manager's _state
    check,      \* the check thread
    request,    \* the request of the manager that is being served
    work,       \* the worker processes
    lock,       \* who holds rock-arch-update.lock
    mishaps,    \* edits, crashes and failed writes so far
    offered     \* history: commits a check found to be available

brokerVars == <<up, mem, check, request>>
workerVars == <<work, lock>>
world == <<checkout, remote, shell>>
vars == <<world, file, old, brokerVars, workerVars, mishaps, offered>>

States == {"idle", "checking", "available", "current", "modified", "diverged",
           "updating", "updated", "error"}
\* What is known of the update: the state, whether one is available, and which.
Record == [state : States, available : BOOLEAN, revision : 0..MaxRevision]
Heads == [revision : Revisions, own : BOOLEAN]
Idle == [state |-> "idle", available |-> FALSE, revision |-> 0]
NoCheck == [at |-> "none"]
NoWork == [at |-> "none"]
NoRequest == [at |-> "idle", want |-> 0]

UpdateTypeOK ==
    /\ checkout \in [head : Heads, files : {"clean", "untracked", "tracked"},
                     canonical : BOOLEAN]
    /\ remote \in Revisions /\ shell \in Heads /\ offered \subseteq Revisions
    /\ file \in Record /\ mem \in Record /\ {old, up} \subseteq BOOLEAN
    /\ check.at \in {"none", "started", "read", "decided"}
    /\ request \in [at : {"idle", "asked", "allowed", "clean", "marked"},
                    want : 0..MaxRevision]
    /\ lock \in Workers \cup {NoWorker} /\ DOMAIN work = Workers
    /\ \A w \in Workers : work[w].at # "none" => work[w].want \in Revisions
    /\ mishaps \in 0..MaxMishaps

Init ==
    /\ checkout = [head |-> [revision |-> 1, own |-> FALSE],
                   files |-> "clean", canonical |-> TRUE]
    /\ remote = 1 /\ shell = checkout.head
    /\ file = Idle /\ mem = Idle /\ old = FALSE /\ up = TRUE
    /\ check = NoCheck /\ request = NoRequest
    /\ work = [w \in Workers |-> NoWork] /\ lock = NoWorker
    /\ mishaps = 0 /\ offered = {}

Ancestor(head, r) == ~head.own /\ head.revision <= r
OriginIsOurs == checkout.canonical
Clean == checkout.files = "clean"
Validates(r) == r \notin Broken
Mishap == mishaps < MaxMishaps /\ mishaps' = mishaps + 1

\* write_update_state: the whole file is replaced, or it is left as it was.
Write(record) ==
    \/ file' = record /\ old' = FALSE /\ UNCHANGED mishaps
    \/ Mishap /\ UNCHANGED <<file, old>>

--------------------------------------------------------------------------------
(* The user and the repository.                                            *)

Publish ==
    /\ remote < MaxRevision /\ remote' = remote + 1
    /\ UNCHANGED <<checkout, shell, file, old, brokerVars, workerVars, mishaps, offered>>

\* A commit, an edit, a new file, tidying up, "git pull", another origin.
UserEdits ==
    /\ Mishap
    /\ \/ checkout' = [checkout EXCEPT !.head.own = TRUE, !.files = "clean"]
       \/ \E f \in {"clean", "untracked", "tracked"} : checkout' = [checkout EXCEPT !.files = f]
       \/ /\ Ancestor(checkout.head, remote) /\ checkout.files = "clean"
          /\ checkout' = [checkout EXCEPT !.head.revision = remote]
       \/ checkout' = [checkout EXCEPT !.canonical = ~@]
    /\ UNCHANGED <<remote, shell, file, old, brokerVars, workerVars, offered>>

TenMinutes ==
    /\ file.state = "updating" /\ ~old /\ old' = TRUE
    /\ UNCHANGED <<world, file, brokerVars, workerVars, mishaps, offered>>

--------------------------------------------------------------------------------
(* The manager.                                                            *)

\* Mutant: An update that was interrupted is never told from a running one.
Loaded_TrustsFile ==
    IF file.state = "checking" THEN [file EXCEPT !.state = "idle"] ELSE file

\* _load_state: no check survives a restart, and an old update was interrupted.
Loaded ==
    IF file.state = "checking" THEN [file EXCEPT !.state = "idle"]
    ELSE IF file.state = "updating" /\ old THEN [file EXCEPT !.state = "error"]
    ELSE file

Seen == IF mem.state = "updating" THEN Loaded ELSE mem

Ready == up /\ request.at = "idle"

\* _begin_check: no thread is started when the state cannot be written.
BeginCheck ==
    /\ mem' = [Seen EXCEPT !.state = "checking"] /\ Write(mem')
    /\ check' = IF file' = mem' THEN [at |-> "started"] ELSE NoCheck

\* status: reloads what a worker may have written, and starts an update, a
\* check or nothing; whether a check is due depends on the time.
Status ==
    /\ Ready /\ UNCHANGED <<world, workerVars, up, offered>>
    /\ \/ /\ Seen.state = "available"
          /\ mem' = Seen /\ request' = [NoRequest EXCEPT !.at = "asked"]
          /\ UNCHANGED <<check, file, old, mishaps>>
       \/ /\ check.at = "none" /\ Seen.state \notin {"checking", "updating"}
          /\ BeginCheck /\ UNCHANGED request
       \/ mem' = Seen /\ UNCHANGED <<check, request, file, old, mishaps>>

AskUpdate ==
    /\ Ready /\ request' = [NoRequest EXCEPT !.at = "asked"]
    /\ UNCHANGED <<world, file, old, up, mem, check, workerVars, mishaps, offered>>

SetError(state) == mem' = [mem EXCEPT !.state = state] /\ Write(mem')

\* start_update: the origin, then under the lock the state and the commit.
Allow ==
    /\ request.at = "asked"
    /\ \/ /\ SetError("error") /\ request' = NoRequest  \* the origin is not ours
       \/ /\ OriginIsOurs
          /\ request' = IF mem.state # "updating" /\ mem.available /\ mem.revision # 0
                        THEN [at |-> "allowed", want |-> mem.revision] ELSE NoRequest
          /\ UNCHANGED <<mem, file, old, mishaps>>
    /\ UNCHANGED <<world, up, check, workerVars, offered>>

LookClean ==
    /\ request.at = "allowed"
    /\ \/ /\ checkout.files # "tracked" /\ request' = [request EXCEPT !.at = "clean"]
          /\ UNCHANGED <<mem, file, old, mishaps>>
       \/ SetError("modified") /\ request' = NoRequest
       \/ request' = NoRequest /\ UNCHANGED <<mem, file, old, mishaps>>  \* git timed out
    /\ UNCHANGED <<world, up, check, workerVars, offered>>

MarkUpdating ==
    /\ request.at = "clean"
    /\ mem' = [mem EXCEPT !.state = "updating"] /\ Write(mem')
    /\ request' = IF file' = mem' THEN [request EXCEPT !.at = "marked"] ELSE NoRequest
    /\ UNCHANGED <<world, up, check, workerVars, offered>>

Launch ==
    /\ request.at = "marked" /\ request' = NoRequest
    /\ \/ \E w \in Workers :
            /\ work[w].at = "none"
            /\ work' = [work EXCEPT ![w] = [at |-> "begun", want |-> request.want, parent |-> TRUE]]
            /\ UNCHANGED <<mem, file, old, mishaps>>
       \/ SetError("error") /\ UNCHANGED work
    /\ UNCHANGED <<world, up, check, lock, offered>>

\* _check_once: the result is built from Git alone.
Decide(state, available, r) ==
    check' = [at |-> "decided", result |-> [state |-> state, available |-> available, revision |-> r]]

CheckFails == check' = [at |-> "decided"]

CheckReads ==
    /\ check.at = "started"
    /\ \/ CheckFails
       \/ OriginIsOurs /\ checkout.files = "tracked" /\ Decide("modified", FALSE, 0)
       \/ OriginIsOurs /\ checkout.files # "tracked"
          /\ check' = [at |-> "read", head |-> checkout.head]
    /\ UNCHANGED <<world, file, old, up, mem, request, workerVars, mishaps, offered>>

Availability ==
    CASE check.head = [revision |-> remote, own |-> FALSE] -> "current"
      [] ~Ancestor(check.head, remote) -> "diverged"
      [] OTHER -> "available"

CheckFetches ==
    /\ check.at = "read"
    /\ \/ CheckFails /\ UNCHANGED offered
       \/ /\ Decide(Availability, Availability = "available", remote)
          /\ offered' = offered \cup (IF Availability = "available" THEN {remote} ELSE {})
    /\ UNCHANGED <<world, file, old, up, mem, request, workerVars, mishaps>>

\* _check_worker: a failed check keeps what is known of the update.
CheckPublishes ==
    /\ check.at = "decided" /\ check' = NoCheck
    /\ mem' = IF "result" \in DOMAIN check THEN check.result ELSE [mem EXCEPT !.state = "error"]
    /\ Write(mem')
    /\ UNCHANGED <<world, up, request, workerVars, offered>>

Stopped ==
    /\ up' = FALSE /\ check' = NoCheck /\ request' = NoRequest
    /\ UNCHANGED mem

BrokerCrash ==
    /\ up /\ Mishap /\ Stopped
    /\ UNCHANGED <<world, file, old, workerVars, offered>>

\* The new broker has another pid: workers of the last one leave it alone.
BrokerStart ==
    /\ ~up /\ up' = TRUE /\ mem' = Loaded
    /\ work' = [w \in Workers |-> IF work[w].at = "none" THEN NoWork
                                  ELSE [work[w] EXCEPT !.parent = FALSE]]
    /\ UNCHANGED <<world, file, old, check, request, lock, mishaps, offered>>

--------------------------------------------------------------------------------
(* The worker (update_worker.py).                                          *)

To(w, at) == work' = [work EXCEPT ![w].at = at]
Release(w) == lock' = IF lock = w THEN NoWorker ELSE lock

\* An InstallError or another failure: the lock is given up, then it is told.
Fail(w) == To(w, "failed") /\ Release(w)

Terminate(w) ==
    IF up /\ work[w].parent THEN Stopped ELSE UNCHANGED brokerVars

\* run_update up to the lock, which only one worker can take.
Begin(w) ==
    /\ work[w].at = "begun"
    /\ \/ Fail(w)
       \/ OriginIsOurs /\ lock = NoWorker /\ lock' = w /\ To(w, "locked")
    /\ UNCHANGED <<world, file, old, brokerVars, mishaps, offered>>

\* _install_expected: the checkout as it is before the candidate is examined.
Examine(w) ==
    /\ work[w].at = "locked"
    /\ \/ Fail(w)
       \/ /\ Clean /\ Ancestor(checkout.head, work[w].want)
          /\ work' = [work EXCEPT ![w] = [at |-> "examined", want |-> @.want,
                                          parent |-> @.parent, before |-> checkout.head]]
          /\ UNCHANGED lock
    /\ UNCHANGED <<world, file, old, brokerVars, mishaps, offered>>

ValidateStaged(w) ==
    /\ work[w].at = "examined"
    /\ \/ Fail(w)
       \/ Validates(work[w].want) /\ To(w, "staged") /\ UNCHANGED lock
    /\ UNCHANGED <<world, file, old, brokerVars, mishaps, offered>>

Recheck(w) ==
    /\ work[w].at = "staged"
    /\ \/ Fail(w)
       \/ /\ OriginIsOurs /\ Clean /\ checkout.head = work[w].before
          /\ To(w, "rechecked") /\ UNCHANGED lock
    /\ UNCHANGED <<world, file, old, brokerVars, mishaps, offered>>

\* Mutant: The merge follows the remote's HEAD instead of the checked commit.
Merge_FollowsRemote(w) ==
    /\ work[w].at = "rechecked"
    /\ \/ Fail(w) /\ UNCHANGED checkout
       \/ /\ To(w, "merged") /\ UNCHANGED lock
          /\ Ancestor(checkout.head, remote)
          /\ checkout' = [checkout EXCEPT !.head.revision = remote]
    /\ UNCHANGED <<remote, shell, file, old, brokerVars, mishaps, offered>>

\* Mutant: The checkout is reset to the checked commit.
Merge_Resets(w) ==
    /\ work[w].at = "rechecked"
    /\ \/ Fail(w) /\ UNCHANGED checkout
       \/ /\ To(w, "merged") /\ UNCHANGED lock
          /\ checkout' = [checkout EXCEPT !.head = [revision |-> work[w].want, own |-> FALSE]]
    /\ UNCHANGED <<remote, shell, file, old, brokerVars, mishaps, offered>>

\* git merge --ff-only: refused over another history and over files in its way.
Merge(w) ==
    /\ work[w].at = "rechecked"
    /\ \/ Fail(w) /\ UNCHANGED checkout
       \/ /\ To(w, "merged") /\ UNCHANGED lock
          /\ \/ /\ Ancestor(checkout.head, work[w].want)
                /\ checkout' = [checkout EXCEPT !.head.revision = work[w].want]
             \/ work[w].want <= checkout.head.revision /\ UNCHANGED checkout
    /\ UNCHANGED <<remote, shell, file, old, brokerVars, mishaps, offered>>

At(w) == checkout.head = [revision |-> work[w].want, own |-> FALSE]

\* What is installed is the candidate, valid and clean.
Verify(w) ==
    /\ work[w].at = "merged"
    /\ \/ Fail(w)
       \/ At(w) /\ Clean /\ To(w, "verified") /\ UNCHANGED lock
    /\ UNCHANGED <<world, file, old, brokerVars, mishaps, offered>>

\* The shell starts from whatever the checkout holds now.
RestartShell(w) ==
    /\ work[w].at = "verified"
    /\ \/ shell' = checkout.head /\ To(w, "restarted") /\ UNCHANGED <<lock, brokerVars>>
       \/ Terminate(w) /\ Fail(w) /\ UNCHANGED shell
       \/ Fail(w) /\ UNCHANGED <<shell, brokerVars>>  \* it timed out
    /\ UNCHANGED <<checkout, remote, file, old, mishaps, offered>>

\* Mutant: The commit is not looked at again after the restart.
Report_Unverified(w) ==
    /\ work[w].at = "restarted"
    /\ \/ Fail(w) /\ UNCHANGED <<file, old, mishaps>>
       \/ /\ UNCHANGED <<lock, mishaps>> /\ To(w, "reported")
          /\ file' = [state |-> "updated", available |-> FALSE, revision |-> work[w].want]
          /\ old' = FALSE
    /\ UNCHANGED <<world, brokerVars, offered>>

Report(w) ==
    /\ work[w].at = "restarted"
    /\ \/ Fail(w) /\ UNCHANGED <<file, old, mishaps>>
       \/ /\ At(w) /\ UNCHANGED <<lock, mishaps>> /\ To(w, "reported")
          /\ file' = [state |-> "updated", available |-> FALSE, revision |-> work[w].want]
          /\ old' = FALSE
    /\ UNCHANGED <<world, brokerVars, offered>>

Leave(w) ==
    /\ work[w].at = "reported"
    /\ Terminate(w) /\ Release(w) /\ work' = [work EXCEPT ![w] = NoWork]
    /\ UNCHANGED <<world, file, old, mishaps, offered>>

ReportFailure(w) ==
    /\ work[w].at = "failed" /\ work' = [work EXCEPT ![w] = NoWork]
    /\ Write([state |-> "error", available |-> FALSE, revision |-> work[w].want])
    /\ UNCHANGED <<world, brokerVars, lock, offered>>

WorkerDies(w) ==
    /\ work[w].at # "none" /\ Mishap
    /\ work' = [work EXCEPT ![w] = NoWork] /\ Release(w)
    /\ UNCHANGED <<world, file, old, brokerVars, offered>>

WorkerStep(w) ==
    \/ Begin(w) \/ Examine(w) \/ ValidateStaged(w) \/ Recheck(w) \/ Merge(w)
    \/ Verify(w) \/ RestartShell(w) \/ Report(w) \/ Leave(w) \/ ReportFailure(w)

StartSteps == Allow \/ LookClean \/ MarkUpdating \/ Launch
CheckSteps == CheckReads \/ CheckFetches \/ CheckPublishes

Next ==
    \/ Publish \/ UserEdits \/ TenMinutes
    \/ Status \/ AskUpdate \/ StartSteps \/ CheckSteps
    \/ BrokerCrash \/ BrokerStart
    \/ \E w \in Workers : WorkerStep(w) \/ WorkerDies(w)

(* Requests, threads and workers end, by their timeouts; the panel asks    *)
(* for the status as long as an update or a check runs, and is answered     *)
(* between other requests; a shell without a broker starts one; and time   *)
(* passes.                                                                 *)
Fairness ==
    /\ WF_vars(StartSteps) /\ WF_vars(CheckSteps) /\ SF_vars(Status)
    /\ WF_vars(BrokerStart) /\ WF_vars(TenMinutes)
    /\ \A w \in Workers : WF_vars(WorkerStep(w))

Spec == Init /\ [][Next]_vars /\ Fairness

--------------------------------------------------------------------------------
(* Properties.                                                             *)

ByUser == mishaps' # mishaps /\ UNCHANGED <<work, brokerVars>>

\* However the checks, requests, workers and the user's edits interleave, an
\* update moves the checkout only to a commit that a check has offered and
\* that its own validation passed: never to what the remote, or FETCH_HEAD,
\* has become since.
InstallsOnlyTheOffer ==
    [][checkout'.head # checkout.head /\ ~ByUser =>
         checkout'.head.revision \in offered \ Broken]_vars

\* A commit or an uncommitted change of the user survives every step of an
\* update, whenever it was made: also between the last check and the merge.
UserWorkIsKept ==
    [][~ByUser => /\ checkout'.files = checkout.files
                  /\ checkout.head.own => checkout'.head = checkout.head]_vars

\* "updated" is written only when the running shell was started from the
\* commit the update asked for; a commit that slips in between the identity
\* check and the restart is never reported as the update.
UpdatedIsRunning ==
    [][file'.state = "updated" /\ file.state # "updated" =>
         shell = [revision |-> file'.revision, own |-> FALSE]]_vars

\* The status does not stay at "updating" when the worker was never
\* launched, was refused, failed or died, or the broker was restarted.
InstallEnds == mem.state = "updating" ~> up /\ mem.state # "updating"

================================================================================
