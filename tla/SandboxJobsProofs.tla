------------------------- MODULE SandboxJobsProofs -------------------------
(***************************************************************************)
(* TLAPS proofs about SandboxJobs, for every set of jobs, every repair     *)
(* limit and every number of failed steps and restarts.                    *)
(***************************************************************************)
EXTENDS SandboxJobs, TLAPS

USE SandboxAssumption DEF context, docker, manager, tasks, env

(***************************************************************************)
(* The invariant.                                                          *)
(***************************************************************************)
Handles == [state : {"none", "Creating", "Running", "Stopped"},
            id : BOOLEAN, result : {"none", "ok", "failed"}]
Places == Creating \cup {"idle", "poll", "timeout", "dropped", "over"}
Calls == [kind : Kinds, at : Places]
StopPlaces == {"idle", "docker", "mark", "revoke", "direct", "after"}
Stops == [Callers -> StopPlaces]
Boxes == {"none", "created", "running", "exited"}
Workers == [at : {"none", "work", "report", "done"},
            verdict : {"none", "ok", "failed", "stopped"}]
Completes == {"idle", "docker", "revoke", "dropped"}
Monitors == {"none", "waiting", "Completed", "Failed", "done"}
CtxStates == JobState \cup {"Absent"}

TypeInv ==
    /\ ctx \in [Jobs -> CtxStates]
    /\ repairs \in [Jobs -> 0..MaxRepair] /\ late \in [Jobs -> BOOLEAN]
    /\ row \in [Jobs -> RowStatus]
    /\ handle \in [Jobs -> Handles] /\ token \in [Jobs -> BOOLEAN]
    /\ call \in [Jobs -> Calls]
    /\ complete \in [Jobs -> Completes] /\ cut \subseteq Jobs
    /\ stop \in [Jobs -> Stops]
    /\ box \in [Jobs -> Boxes] /\ worker \in [Jobs -> Workers]
    /\ monitor \in [Jobs -> Monitors]

\* The worker is there only after its container was started, the handle as long as the call
\* may need it; a token without a handle is being revoked, or whoever did so was dropped.
JobInv(j) ==
    /\ worker[j].at \in {"work", "report"} => box[j] = "running"
    /\ call[j].at = "idle" => ctx[j] = "Absent" /\ box[j] = "none"
    /\ call[j].at \in {"idle", "create", "container", "start"} =>
          worker[j].at = "none" /\ box[j] # "running"
    /\ call[j].at \in {"container", "start", "publish", "poll"} => handle[j].state # "none"
    /\ call[j].at = "poll" => handle[j].id
    /\ handle[j].state # "none" /\ ~handle[j].id =>
          call[j].at \in {"container", "start", "publish", "dropped"}
    /\ complete[j] # "idle" => worker[j].at = "done"
    /\ handle[j].state = "Stopped" /\ token[j] => complete[j] # "idle" \/ Revoking(j)
    /\ stop[j]["call"] # "idle" => call[j].at = "timeout"
    /\ stop[j]["call"] = "after" => ~token[j]
    /\ call[j].at = "over" /\ call[j].kind = "wait" => handle[j].state = "none"
    /\ token[j] => handle[j].state # "none" \/ complete[j] # "idle" \/ Revoking(j)

AllJobs == \A j \in Jobs : JobInv(j)

IInv == TypeInv /\ AllJobs

\* What JobInv(j) looks at stays as it is.
Same(j) ==
    /\ ctx'[j] = ctx[j] /\ box'[j] = box[j] /\ worker'[j] = worker[j]
    /\ call'[j] = call[j] /\ handle'[j] = handle[j] /\ token'[j] = token[j]
    /\ complete'[j] = complete[j] /\ stop'[j] = stop[j] /\ (j \in cut' <=> j \in cut)

LEMMA SameKeeps ==
    ASSUME NEW j, JobInv(j), Same(j)
    PROVE  JobInv(j)'
BY DEF JobInv, Same, Revoking

LEMMA OneJob ==
    ASSUME AllJobs, NEW j \in Jobs, \A k \in Jobs \ {j} : Same(k), JobInv(j)'
    PROVE  AllJobs'
BY SameKeeps DEF AllJobs

(***************************************************************************)
(* The pieces of the steps.                                                *)
(***************************************************************************)
LEMMA GotoFacts ==
    ASSUME TypeInv, NEW j \in Jobs, NEW to \in Places, Goto(j, to)
    PROVE  /\ call' \in [Jobs -> Calls]
           /\ call'[j].at = to /\ call'[j].kind = call[j].kind
           /\ \A k \in Jobs \ {j} : call'[k] = call[k]
BY DEF TypeInv, Calls, Goto

LEMMA StopFacts ==
    ASSUME TypeInv, NEW j \in Jobs, NEW c \in Callers, NEW to \in StopPlaces, StopAt(j, c, to)
    PROVE  /\ stop' \in [Jobs -> Stops]
           /\ stop'[j][c] = to
           /\ \A d \in Callers \ {c} : stop'[j][d] = stop[j][d]
           /\ \A k \in Jobs \ {j} : stop'[k] = stop[k]
BY DEF TypeInv, Stops, StopAt

\* A stop that is dropped just before it revokes the token is remembered.
LEMMA DropFacts ==
    ASSUME TypeInv, NEW j \in Jobs, NEW c \in Callers, StopAt(j, c, "idle"), Dropped(j, c)
    PROVE  /\ cut' \subseteq Jobs
           /\ Revoking(j) => Revoking(j)'
           /\ \A k \in Jobs \ {j} : k \in cut' <=> k \in cut
<1>1. \A d \in Callers \ {c} : stop'[j][d] = stop[j][d]
    BY StopFacts DEF StopPlaces
<1> QED BY <1>1 DEF TypeInv, Dropped, Revoking

LEMMA TransitionType ==
    ASSUME NEW s \in JobState, NEW to \in JobState
    PROVE  TransitionTo(s, to) \in JobState
BY DEF TransitionTo

LEMMA MoveFacts ==
    ASSUME TypeInv, NEW j \in Jobs, NEW to \in JobState, Move(j, to)
    PROVE  /\ ctx' \in [Jobs -> CtxStates]
           /\ ctx[j] = "Absent" => ctx'[j] = "Absent"
           /\ \A k \in Jobs \ {j} : ctx'[k] = ctx[k]
BY TransitionType DEF TypeInv, CtxStates, Move

LEMMA RemoveFacts ==
    ASSUME TypeInv, NEW j \in Jobs, RemoveBox(j)
    PROVE  /\ box' \in [Jobs -> Boxes] /\ worker' \in [Jobs -> Workers]
           /\ box'[j] = "none" /\ worker'[j].at \in {"none", "done"}
           /\ worker'[j].at = IF worker[j].at = "none" THEN "none" ELSE "done"
           /\ \A k \in Jobs \ {j} : box'[k] = box[k] /\ worker'[k] = worker[k]
BY DEF TypeInv, Boxes, Workers, RemoveBox

LEMMA WriteType ==
    ASSUME TypeInv, NEW j \in Jobs, NEW s \in RowStatus, Write(j, s)
    PROVE  row' \in [Jobs -> RowStatus]
BY DEF TypeInv, Write

\* The end of the call writes row and context.
LEMMA EndFacts ==
    ASSUME TypeInv, NEW j \in Jobs,
           EndCall(j, "failed", "Failed") \/ EndCall(j, "completed", "Completed")
    PROVE  /\ call' \in [Jobs -> Calls] /\ row' \in [Jobs -> RowStatus]
           /\ ctx' \in [Jobs -> CtxStates] /\ repairs' = repairs
           /\ call'[j].at = "over"
           /\ \A k \in Jobs \ {j} : call'[k] = call[k] /\ ctx'[k] = ctx[k]
<1>1. "over" \in Places /\ {"failed", "completed"} \subseteq RowStatus
      /\ {"Failed", "Completed"} \subseteq JobState
    BY DEF Places, RowStatus, JobState
<1>2. Goto(j, "over") /\ repairs' = repairs
    BY DEF EndCall
<1>3. \E s \in {"failed", "completed"}, to \in {"Failed", "Completed"} : Write(j, s) /\ Move(j, to)
    BY DEF EndCall
<1> QED BY <1>1, <1>2, <1>3, GotoFacts, WriteType, MoveFacts

\* The handle is taken away.
LEMMA HandleGone ==
    ASSUME TypeInv, NEW j \in Jobs, handle' = [handle EXCEPT ![j] = NoHandle]
    PROVE  /\ handle' \in [Jobs -> Handles] /\ handle'[j].state = "none"
           /\ \A k \in Jobs \ {j} : handle'[k] = handle[k]
BY DEF TypeInv, Handles, NoHandle

LEMMA TokenGone ==
    ASSUME TypeInv, NEW j \in Jobs, token' = [token EXCEPT ![j] = FALSE]
    PROVE  /\ token' \in [Jobs -> BOOLEAN] /\ ~token'[j]
           /\ \A k \in Jobs \ {j} : token'[k] = token[k]
BY DEF TypeInv

LEMMA InitHolds == Init => IInv
<1> SUFFICES ASSUME Init PROVE IInv
    OBVIOUS
<1>1. TypeInv
    BY DEF Init, TypeInv, CtxStates, RowStatus, Handles, NoHandle, Calls, Places, Stops,
           StopPlaces, Boxes, Workers, Completes, Monitors
<1>2. ASSUME NEW j \in Jobs PROVE JobInv(j)
    BY DEF Init, JobInv, NoHandle, Callers
<1> QED BY <1>1, <1>2 DEF IInv, AllJobs

(***************************************************************************)
(* Stopping a job: docker, the handle, the token, for each caller.          *)
(***************************************************************************)
LEMMA StopKeeps ==
    ASSUME IInv, NEW j \in Jobs, NEW c \in Callers, StopStep(j, c)
    PROVE  IInv'
<1>0. TypeInv /\ AllJobs /\ JobInv(j)
    BY DEF IInv, AllJobs
<1>1. CASE StopDocker(j, c)
    <2>1. /\ StopAt(j, c, "mark") /\ stop[j][c] = "docker"
          /\ RemoveBox(j) \/ UNCHANGED <<box, worker>>
          /\ UNCHANGED <<context, row, manager, call, complete, monitor, cut, late, boots>>
        BY <1>1 DEF StopDocker
    <2>2. /\ stop' \in [Jobs -> Stops] /\ stop'[j][c] = "mark"
          /\ \A d \in Callers \ {c} : stop'[j][d] = stop[j][d]
          /\ \A k \in Jobs \ {j} : stop'[k] = stop[k]
        BY <1>0, <2>1, StopFacts DEF StopPlaces
    <2>3. /\ box' \in [Jobs -> Boxes] /\ worker' \in [Jobs -> Workers]
          /\ \/ box'[j] = box[j] /\ worker'[j] = worker[j]
             \/ /\ box'[j] = "none" /\ worker'[j].at \in {"none", "done"}
                /\ worker'[j].at = IF worker[j].at = "none" THEN "none" ELSE "done"
          /\ \A k \in Jobs \ {j} : box'[k] = box[k] /\ worker'[k] = worker[k]
        BY <1>0, <2>1, RemoveFacts DEF TypeInv
    <2>4. TypeInv'
        BY <1>0, <2>1, <2>2, <2>3 DEF TypeInv
    <2>5. \A k \in Jobs \ {j} : Same(k)
        BY <2>1, <2>2, <2>3 DEF Same
    <2>6. Revoking(j) => Revoking(j)'
        BY <2>1, <2>2 DEF Revoking
    <2>7. c = "call" \/ stop'[j]["call"] = stop[j]["call"]
        BY <2>2 DEF Callers
    <2>8. JobInv(j)'
        BY <1>0, <2>1, <2>2, <2>3, <2>6, <2>7 DEF JobInv
    <2> QED BY <1>0, <2>4, <2>5, <2>8, OneJob DEF IInv
<1>2. CASE StopMark(j, c)
    <2>1. /\ StopAt(j, c, "revoke") /\ stop[j][c] = "mark"
          /\ handle' = [handle EXCEPT ![j].state = IF @ = "none" THEN @ ELSE "Stopped"]
          /\ UNCHANGED <<context, row, token, call, complete, docker, monitor, cut, late, env>>
        BY <1>2 DEF StopMark
    <2>2. /\ stop' \in [Jobs -> Stops] /\ stop'[j][c] = "revoke"
          /\ \A d \in Callers \ {c} : stop'[j][d] = stop[j][d]
          /\ \A k \in Jobs \ {j} : stop'[k] = stop[k]
        BY <1>0, <2>1, StopFacts DEF StopPlaces
    <2>3. /\ handle' \in [Jobs -> Handles]
          /\ handle'[j].state = (IF handle[j].state = "none" THEN "none" ELSE "Stopped")
          /\ handle'[j].id = handle[j].id
          /\ \A k \in Jobs \ {j} : handle'[k] = handle[k]
        <3>1. PICK s \in {"none", "Stopped"} :
                 s = IF handle[j].state = "none" THEN "none" ELSE "Stopped"
            OBVIOUS
        <3>2. handle' = [handle EXCEPT ![j].state = s]
            BY <1>0, <2>1, <3>1 DEF TypeInv
        <3> QED BY <1>0, <3>1, <3>2 DEF TypeInv, Handles
    <2>4. TypeInv'
        BY <1>0, <2>1, <2>2, <2>3 DEF TypeInv
    <2>5. \A k \in Jobs \ {j} : Same(k)
        BY <2>1, <2>2, <2>3 DEF Same
    <2>6. Revoking(j)'
        BY <2>2 DEF Revoking
    <2>7. c = "call" \/ stop'[j]["call"] = stop[j]["call"]
        BY <2>2 DEF Callers
    <2>8. JobInv(j)'
        BY <1>0, <2>1, <2>2, <2>3, <2>6, <2>7 DEF JobInv
    <2> QED BY <1>0, <2>4, <2>5, <2>8, OneJob DEF IInv
<1>3. CASE StopRevoke(j, c)
    <2> DEFINE to == IF c = "reaper" THEN "idle" ELSE "after"
    <2>1. /\ StopAt(j, c, to) /\ stop[j][c] = "revoke" /\ token' = [token EXCEPT ![j] = FALSE]
          /\ UNCHANGED <<context, row, handle, call, complete, docker, monitor, cut, late, env>>
        BY <1>3 DEF StopRevoke
    <2>2. to \in StopPlaces
        BY DEF StopPlaces
    <2> HIDE DEF to
    <2>3. /\ stop' \in [Jobs -> Stops]
          /\ \A d \in Callers \ {c} : stop'[j][d] = stop[j][d]
          /\ \A k \in Jobs \ {j} : stop'[k] = stop[k]
        BY <1>0, <2>1, <2>2, StopFacts
    <2>4. token' \in [Jobs -> BOOLEAN] /\ ~token'[j] /\ \A k \in Jobs \ {j} : token'[k] = token[k]
        BY <1>0, <2>1, TokenGone
    <2>5. TypeInv'
        BY <1>0, <2>1, <2>3, <2>4 DEF TypeInv
    <2>6. \A k \in Jobs \ {j} : Same(k)
        BY <2>1, <2>3, <2>4 DEF Same
    <2>7. c = "call" \/ stop'[j]["call"] = stop[j]["call"]
        BY <2>3 DEF Callers
    <2>8. JobInv(j)'
        BY <1>0, <2>1, <2>3, <2>4, <2>7 DEF JobInv
    <2> QED BY <1>0, <2>5, <2>6, <2>8, OneJob DEF IInv
<1> QED BY <1>1, <1>2, <1>3 DEF StopStep

(***************************************************************************)
(* The steps of the call that creates the job.                             *)
(***************************************************************************)
LEMMA CallKeeps ==
    ASSUME IInv, NEW j \in Jobs, CallStep(j)
    PROVE  IInv'
<1>0. TypeInv /\ AllJobs /\ JobInv(j)
    BY DEF IInv, AllJobs
<1>1. CASE Register(j)
    <2>1. /\ Goto(j, "create") /\ Write(j, "creating") /\ call[j].at = "idle"
          /\ UNCHANGED <<repairs, manager, complete, stop, docker, monitor, cut, late, env>>
        BY <1>1 DEF Register
    <2>2. ctx' \in [Jobs -> CtxStates] /\ \A k \in Jobs \ {j} : ctx'[k] = ctx[k]
        BY <1>0, <1>1 DEF Register, TypeInv, CtxStates, JobState
    <2>4. /\ call' \in [Jobs -> Calls] /\ call'[j].at = "create"
          /\ \A k \in Jobs \ {j} : call'[k] = call[k]
        BY <1>0, <2>1, GotoFacts DEF Places, Creating
    <2>7. row' \in [Jobs -> RowStatus]
        BY <1>0, <2>1, WriteType DEF RowStatus
    <2>3. TypeInv'
        BY <1>0, <2>1, <2>2, <2>4, <2>7 DEF TypeInv
    <2>5. \A k \in Jobs \ {j} : Same(k)
        BY <2>1, <2>2, <2>4 DEF Same
    <2>6. JobInv(j)'
        BY <1>0, <2>1, <2>4 DEF JobInv, Revoking
    <2> QED BY <1>0, <2>3, <2>5, <2>6, OneJob DEF IInv
<1>2. CASE MakeToken(j)
    <2>1. /\ Goto(j, "container") /\ call[j].at = "create"
          /\ UNCHANGED <<context, row, complete, stop, docker, monitor, cut, late, env>>
        BY <1>2 DEF MakeToken
    <2>2. token' \in [Jobs -> BOOLEAN] /\ \A k \in Jobs \ {j} : token'[k] = token[k]
        BY <1>0, <1>2 DEF MakeToken, TypeInv
    <2>3. /\ handle' \in [Jobs -> Handles] /\ handle'[j].state = "Creating"
          /\ \A k \in Jobs \ {j} : handle'[k] = handle[k]
        BY <1>0, <1>2 DEF MakeToken, TypeInv, Handles, NoHandle
    <2>4. /\ call' \in [Jobs -> Calls] /\ call'[j].at = "container"
          /\ \A k \in Jobs \ {j} : call'[k] = call[k]
        BY <1>0, <2>1, GotoFacts DEF Places, Creating
    <2>5. TypeInv'
        BY <1>0, <2>1, <2>2, <2>3, <2>4 DEF TypeInv
    <2>6. \A k \in Jobs \ {j} : Same(k)
        BY <2>1, <2>2, <2>3, <2>4 DEF Same
    <2>7. JobInv(j)'
        BY <1>0, <2>1, <2>3, <2>4 DEF JobInv, Revoking
    <2> QED BY <1>0, <2>5, <2>6, <2>7, OneJob DEF IInv
<1>3. CASE CreateContainer(j) \/ StartContainer(j)
    <2>1. PICK to \in {"start", "publish"} :
             /\ Goto(j, to) /\ call[j].at = (IF to = "start" THEN "container" ELSE "start")
             /\ box' = [box EXCEPT ![j] = IF to = "start" THEN "created" ELSE "running"]
             /\ worker' = IF to = "start" THEN worker ELSE [worker EXCEPT ![j].at = "work"]
             /\ UNCHANGED <<context, row, manager, complete, stop, monitor, cut, late, env>>
        BY <1>3 DEF CreateContainer, StartContainer
    <2>2. /\ call' \in [Jobs -> Calls] /\ call'[j].at = to /\ call'[j].kind = call[j].kind
          /\ \A k \in Jobs \ {j} : call'[k] = call[k]
        BY <1>0, <2>1, GotoFacts DEF Places, Creating
    <2>3. /\ box' \in [Jobs -> Boxes]
          /\ box'[j] = IF to = "start" THEN "created" ELSE "running"
          /\ \A k \in Jobs \ {j} : box'[k] = box[k]
        BY <1>0, <2>1 DEF TypeInv, Boxes
    <2>4. /\ worker' \in [Jobs -> Workers]
          /\ to = "start" => worker'[j] = worker[j]
          /\ \A k \in Jobs \ {j} : worker'[k] = worker[k]
        BY <1>0, <2>1 DEF TypeInv, Workers
    <2>5. TypeInv'
        BY <1>0, <2>1, <2>2, <2>3, <2>4 DEF TypeInv
    <2>6. \A k \in Jobs \ {j} : Same(k)
        BY <2>1, <2>2, <2>3, <2>4 DEF Same
    <2>7. JobInv(j)'
        BY <1>0, <2>1, <2>2, <2>3, <2>4 DEF JobInv, Revoking
    <2> QED BY <1>0, <2>5, <2>6, <2>7, OneJob DEF IInv
<1>4. CASE CreateFails(j)
    <2>1. /\ EndCall(j, "failed", "Failed") /\ call[j].at # "idle" /\ call[j].at # "timeout"
          /\ token' = [token EXCEPT ![j] = FALSE] /\ handle' = [handle EXCEPT ![j] = NoHandle]
          /\ UNCHANGED <<complete, stop, docker, monitor, cut, late, env>>
        BY <1>4 DEF CreateFails
    <2>2. TypeInv'
        BY <1>0, <2>1, EndFacts, HandleGone, TokenGone DEF TypeInv
    <2>3. \A k \in Jobs \ {j} : Same(k)
        BY <1>0, <2>1, EndFacts, HandleGone, TokenGone DEF Same
    <2>4. JobInv(j)'
        BY <1>0, <2>1, EndFacts, HandleGone, TokenGone DEF JobInv, Revoking
    <2> QED BY <1>0, <2>2, <2>3, <2>4, OneJob DEF IInv
<1>5. CASE Publish(j)
    <2> DEFINE to == IF call[j].kind = "wait" THEN "poll" ELSE "over"
    <2>1. /\ Goto(j, to) /\ Write(j, "running") /\ call[j].at = "publish"
          /\ UNCHANGED <<context, token, complete, stop, docker, cut, late, env>>
        BY <1>5 DEF Publish
    <2>2. /\ to \in {"poll", "over"}
          /\ to = "over" => call[j].kind # "wait"
        OBVIOUS
    <2> HIDE DEF to
    <2>3. handle[j].state # "none" /\ handle[j] \in Handles
        BY <1>0, <2>1 DEF JobInv, TypeInv
    <2>4. /\ [handle[j] EXCEPT !.id = TRUE, !.state = "Running"] \in Handles
          /\ [handle[j] EXCEPT !.id = TRUE, !.state = "Running"].state = "Running"
          /\ [handle[j] EXCEPT !.id = TRUE, !.state = "Running"].id
        BY <2>3 DEF Handles
    <2>5. handle' = [handle EXCEPT ![j] = [handle[j] EXCEPT !.id = TRUE, !.state = "Running"]]
        BY <1>0, <1>5, <2>3 DEF Publish, TypeInv
    <2>6. /\ handle' \in [Jobs -> Handles] /\ handle'[j].state = "Running" /\ handle'[j].id
          /\ \A k \in Jobs \ {j} : handle'[k] = handle[k]
        BY <1>0, <2>4, <2>5 DEF TypeInv
    <2>7. /\ call' \in [Jobs -> Calls] /\ call'[j].at = to /\ call'[j].kind = call[j].kind
          /\ \A k \in Jobs \ {j} : call'[k] = call[k]
        BY <1>0, <2>1, <2>2, GotoFacts DEF Places
    <2>8. monitor' \in [Jobs -> Monitors] /\ row' \in [Jobs -> RowStatus]
        BY <1>0, <1>5, <2>1, WriteType DEF Publish, TypeInv, Monitors, RowStatus
    <2>9. TypeInv'
        BY <1>0, <2>1, <2>6, <2>7, <2>8 DEF TypeInv
    <2>10. \A k \in Jobs \ {j} : Same(k)
        BY <2>1, <2>6, <2>7 DEF Same
    <2>11. JobInv(j)'
        BY <1>0, <2>1, <2>2, <2>6, <2>7 DEF JobInv, Revoking
    <2> QED BY <1>0, <2>9, <2>10, <2>11, OneJob DEF IInv
<1>6. CASE PollDone(j)
    <2>1. /\ EndCall(j, "failed", "Failed") \/ EndCall(j, "completed", "Completed")
          /\ call[j].at = "poll" /\ handle[j].state \in {"none", "Stopped"}
          /\ handle' = [handle EXCEPT ![j] = NoHandle]
          /\ UNCHANGED <<token, complete, stop, docker, monitor, cut, late, env>>
        BY <1>6 DEF PollDone
    <2>2. TypeInv'
        BY <1>0, <2>1, EndFacts, HandleGone DEF TypeInv
    <2>3. \A k \in Jobs \ {j} : Same(k)
        BY <1>0, <2>1, EndFacts, HandleGone DEF Same
    <2>4. JobInv(j)'
        BY <1>0, <2>1, EndFacts, HandleGone DEF JobInv, Revoking
    <2> QED BY <1>0, <2>2, <2>3, <2>4, OneJob DEF IInv
<1>7. CASE PollTimesOut(j)
    <2>1. /\ call[j].at = "poll" /\ Goto(j, "timeout") /\ StopAt(j, "call", "docker")
          /\ UNCHANGED <<context, row, manager, complete, docker, monitor, cut, late, env>>
        BY <1>0, <1>7 DEF PollTimesOut, StopJob, CanStop, JobInv
    <2>2. /\ call' \in [Jobs -> Calls] /\ call'[j].at = "timeout" /\ call'[j].kind = call[j].kind
          /\ \A k \in Jobs \ {j} : call'[k] = call[k]
        BY <1>0, <2>1, GotoFacts DEF Places
    <2>3. /\ stop' \in [Jobs -> Stops] /\ stop'[j]["call"] = "docker"
          /\ \A d \in Callers \ {"call"} : stop'[j][d] = stop[j][d]
          /\ \A k \in Jobs \ {j} : stop'[k] = stop[k]
        BY <1>0, <2>1, StopFacts DEF StopPlaces, Callers
    <2>4. TypeInv'
        BY <1>0, <2>1, <2>2, <2>3 DEF TypeInv
    <2>5. \A k \in Jobs \ {j} : Same(k)
        BY <2>1, <2>2, <2>3 DEF Same
    <2>6. Revoking(j) => Revoking(j)'
        BY <1>0, <2>1, <2>3 DEF JobInv, Revoking
    <2>7. JobInv(j)'
        BY <1>0, <2>1, <2>2, <2>3, <2>6 DEF JobInv
    <2> QED BY <1>0, <2>4, <2>5, <2>7, OneJob DEF IInv
<1>8. CASE CallGivesUp(j)
    <2>1. /\ EndCall(j, "failed", "Failed") /\ stop[j]["call"] = "after"
          /\ StopAt(j, "call", "idle") /\ handle' = [handle EXCEPT ![j] = NoHandle]
          /\ UNCHANGED <<token, complete, docker, monitor, cut, late, env>>
        BY <1>8 DEF CallGivesUp
    <2>2. /\ stop' \in [Jobs -> Stops] /\ stop'[j]["call"] = "idle"
          /\ \A k \in Jobs \ {j} : stop'[k] = stop[k]
        BY <1>0, <2>1, StopFacts DEF StopPlaces, Callers
    <2>3. TypeInv'
        BY <1>0, <2>1, <2>2, EndFacts, HandleGone DEF TypeInv
    <2>4. \A k \in Jobs \ {j} : Same(k)
        BY <1>0, <2>1, <2>2, EndFacts, HandleGone DEF Same
    <2>5. JobInv(j)'
        BY <1>0, <2>1, <2>2, EndFacts, HandleGone DEF JobInv, Revoking
    <2> QED BY <1>0, <2>3, <2>4, <2>5, OneJob DEF IInv
<1>9. CASE CallDropped(j)
    <2>1. /\ call[j].at \in Creating \cup {"poll", "timeout"} /\ Goto(j, "dropped")
          /\ StopAt(j, "call", "idle") /\ Dropped(j, "call")
          /\ UNCHANGED <<context, row, manager, complete, docker, monitor, late, boots>>
        BY <1>9 DEF CallDropped
    <2>2. /\ call' \in [Jobs -> Calls] /\ call'[j].at = "dropped"
          /\ \A k \in Jobs \ {j} : call'[k] = call[k]
        BY <1>0, <2>1, GotoFacts DEF Places
    <2>3. /\ stop' \in [Jobs -> Stops] /\ stop'[j]["call"] = "idle"
          /\ \A k \in Jobs \ {j} : stop'[k] = stop[k]
        BY <1>0, <2>1, StopFacts DEF StopPlaces, Callers
    <2>4. /\ cut' \subseteq Jobs
          /\ Revoking(j) => Revoking(j)'
          /\ \A k \in Jobs \ {j} : k \in cut' <=> k \in cut
        <3>1. "call" \in Callers /\ "idle" \in StopPlaces
            BY DEF Callers, StopPlaces
        <3> QED BY <1>0, <2>1, <3>1, DropFacts
    <2>5. TypeInv'
        BY <1>0, <2>1, <2>2, <2>3, <2>4 DEF TypeInv
    <2>6. \A k \in Jobs \ {j} : Same(k)
        BY <2>1, <2>2, <2>3, <2>4 DEF Same
    <2>7. JobInv(j)'
        BY <1>0, <2>1, <2>2, <2>3, <2>4 DEF JobInv, Creating
    <2> QED BY <1>0, <2>5, <2>6, <2>7, OneJob DEF IInv
<1>10. ASSUME NEW c \in Callers, StopStep(j, c) PROVE IInv'
    BY <1>10, StopKeeps
<1>11. "call" \in Callers
    BY DEF Callers
<1> QED BY <1>1, <1>2, <1>3, <1>4, <1>5, <1>6, <1>7, <1>8, <1>9, <1>10, <1>11 DEF CallStep

\* A caller other than the call moves on, and not from where it was about to revoke the token.
LEMMA CallerKeeps ==
    ASSUME IInv, NEW j \in Jobs, NEW c \in Callers \ {"call"}, NEW to \in StopPlaces,
           stop[j][c] # "revoke", StopAt(j, c, to),
           ctx' \in [Jobs -> CtxStates], ctx[j] = "Absent" => ctx'[j] = "Absent",
           \A k \in Jobs \ {j} : ctx'[k] = ctx[k],
           row' \in [Jobs -> RowStatus],
           box' \in [Jobs -> Boxes], worker' \in [Jobs -> Workers],
           \A k \in Jobs \ {j} : box'[k] = box[k] /\ worker'[k] = worker[k],
           \/ box'[j] = box[j] /\ worker'[j] = worker[j]
           \/ /\ box'[j] = "none" /\ worker'[j].at \in {"none", "done"}
              /\ worker'[j].at = IF worker[j].at = "none" THEN "none" ELSE "done",
           UNCHANGED <<repairs, manager, call, complete, monitor, cut, late>>
    PROVE  IInv'
<1>0. TypeInv /\ AllJobs /\ JobInv(j)
    BY DEF IInv, AllJobs
<1>1. /\ stop' \in [Jobs -> Stops]
      /\ \A d \in Callers \ {c} : stop'[j][d] = stop[j][d]
      /\ \A k \in Jobs \ {j} : stop'[k] = stop[k]
    BY <1>0, StopFacts
<1>2. TypeInv'
    BY <1>0, <1>1 DEF TypeInv
<1>3. \A k \in Jobs \ {j} : Same(k)
    BY <1>1 DEF Same
<1>4. stop'[j]["call"] = stop[j]["call"]
    BY <1>1 DEF Callers
<1>5. Revoking(j) => Revoking(j)'
    BY <1>1 DEF Revoking
<1>6. JobInv(j)'
    BY <1>0, <1>4, <1>5 DEF JobInv, Revoking
<1> QED BY <1>0, <1>2, <1>3, <1>6, OneJob DEF IInv

LEMMA CancelKeeps ==
    ASSUME IInv, NEW j \in Jobs, CancelStep(j) \/ Reap(j) \/ ReapDirectly(j)
    PROVE  IInv'
<1>0. TypeInv
    BY DEF IInv
<1>1. {"tool", "web", "reaper"} \subseteq Callers \ {"call"}
      /\ {"docker", "after", "direct", "idle"} \subseteq StopPlaces
    BY DEF Callers, StopPlaces
<1>2. ctx \in [Jobs -> CtxStates] /\ row \in [Jobs -> RowStatus] /\ box \in [Jobs -> Boxes]
      /\ worker \in [Jobs -> Workers]
    BY <1>0 DEF TypeInv
<1>3. CASE CancelTool(j)
    <2>1. \E to \in {"docker", "after"} : StopAt(j, "tool", to)
        BY <1>3 DEF CancelTool, StopJob
    <2>2. stop[j]["tool"] = "idle" /\ Move(j, "Cancelled")
          /\ UNCHANGED <<repairs, row, manager, call, complete, docker, monitor, cut, late, env>>
        BY <1>3 DEF CancelTool
    <2>3. /\ ctx' \in [Jobs -> CtxStates]
          /\ ctx[j] = "Absent" => ctx'[j] = "Absent"
          /\ \A k \in Jobs \ {j} : ctx'[k] = ctx[k]
        BY <1>0, <2>2, MoveFacts DEF JobState
    <2> QED BY <1>1, <1>2, <2>1, <2>2, <2>3, CallerKeeps
<1>4. CASE CancelWeb(j)
    <2>1. \E to \in {"docker", "after"} : StopAt(j, "web", to)
        BY <1>4 DEF CancelWeb, StopJob
    <2>2. stop[j]["web"] = "idle"
          /\ UNCHANGED <<context, row, manager, call, complete, docker, monitor, cut, late, env>>
        BY <1>4 DEF CancelWeb
    <2> QED BY <1>1, <1>2, <2>1, <2>2, CallerKeeps
<1>5. CASE Reap(j)
    <2>1. \E to \in {"docker", "direct"} : StopAt(j, "reaper", to)
        BY <1>5 DEF Reap, StopJob
    <2>2. stop[j]["reaper"] = "idle"
          /\ UNCHANGED <<context, row, manager, call, complete, docker, monitor, cut, late, env>>
        BY <1>5 DEF Reap
    <2> QED BY <1>1, <1>2, <2>1, <2>2, CallerKeeps
<1>6. CASE CancelToolRow(j) \/ CancelWebRow(j)
    <2>1. \E c \in {"tool", "web"} : stop[j][c] = "after" /\ StopAt(j, c, "idle")
        BY <1>6 DEF CancelToolRow, CancelWebRow
    <2>2. Write(j, "failed")
          /\ UNCHANGED <<context, manager, call, complete, docker, monitor, cut, late, env>>
        BY <1>6 DEF CancelToolRow, CancelWebRow
    <2>3. row' \in [Jobs -> RowStatus]
        BY <1>0, <2>2, WriteType DEF RowStatus
    <2> QED BY <1>1, <1>2, <2>1, <2>2, <2>3, CallerKeeps
<1>7. CASE ReapDirectly(j)
    <2>1. /\ stop[j]["reaper"] = "direct" /\ StopAt(j, "reaper", "idle")
          /\ UNCHANGED <<context, row, manager, call, complete, monitor, cut, late, boots>>
        BY <1>7 DEF ReapDirectly
    <2>2. /\ box' \in [Jobs -> Boxes] /\ worker' \in [Jobs -> Workers]
          /\ \A k \in Jobs \ {j} : box'[k] = box[k] /\ worker'[k] = worker[k]
          /\ \/ box'[j] = box[j] /\ worker'[j] = worker[j]
             \/ /\ box'[j] = "none" /\ worker'[j].at \in {"none", "done"}
                /\ worker'[j].at = IF worker[j].at = "none" THEN "none" ELSE "done"
        BY <1>0, <1>2, <1>7, RemoveFacts DEF ReapDirectly
    <2> QED BY <1>1, <1>2, <2>1, <2>2, CallerKeeps
<1>8. ASSUME NEW c \in {"tool", "web"}, CancelDropped(j, c) PROVE IInv'
    <2>1. /\ StopAt(j, c, "idle") /\ Dropped(j, c)
          /\ UNCHANGED <<context, row, manager, call, complete, docker, monitor, late, boots>>
        BY <1>8 DEF CancelDropped
    <2>2. /\ stop' \in [Jobs -> Stops] /\ stop'[j]["call"] = stop[j]["call"]
          /\ \A k \in Jobs \ {j} : stop'[k] = stop[k]
        BY <1>0, <1>1, <2>1, StopFacts DEF Callers
    <2>3. /\ cut' \subseteq Jobs
          /\ Revoking(j) => Revoking(j)'
          /\ \A k \in Jobs \ {j} : k \in cut' <=> k \in cut
        BY <1>0, <1>1, <2>1, DropFacts
    <2>4. TypeInv'
        BY <1>0, <2>1, <2>2, <2>3 DEF TypeInv
    <2>5. \A k \in Jobs \ {j} : Same(k)
        BY <2>1, <2>2, <2>3 DEF Same
    <2>6. AllJobs /\ JobInv(j)
        BY DEF IInv, AllJobs
    <2>7. JobInv(j)'
        BY <2>1, <2>2, <2>3, <2>6 DEF JobInv
    <2> QED BY <2>4, <2>5, <2>6, <2>7, OneJob DEF IInv
<1>9. ASSUME NEW c \in {"tool", "web"}, StopStep(j, c) PROVE IInv'
    BY <1>1, <1>9, StopKeeps
<1> QED BY <1>3, <1>4, <1>5, <1>6, <1>7, <1>8, <1>9 DEF CancelStep

(***************************************************************************)
(* The worker in the container, and what the manager makes of its report.  *)
(***************************************************************************)
LEMMA WorkerKeeps ==
    ASSUME IInv, NEW j \in Jobs, WorkerStep(j)
    PROVE  IInv'
<1>0. TypeInv /\ AllJobs /\ JobInv(j)
    BY DEF IInv, AllJobs
<1>1. CASE PostResult(j)
    <2>1. PICK verdict \in {"ok", "failed", "stopped"} :
             worker' = [worker EXCEPT ![j] = [at |-> "report", verdict |-> verdict]]
        BY <1>1 DEF PostResult
    <2>2. /\ worker[j].at = "work"
          /\ UNCHANGED <<context, row, manager, call, complete, stop, box, cut, late, boots>>
        BY <1>1 DEF PostResult
    <2>3. /\ worker' \in [Jobs -> Workers] /\ worker'[j].at = "report"
          /\ \A k \in Jobs \ {j} : worker'[k] = worker[k]
        BY <1>0, <2>1 DEF TypeInv, Workers
    <2>4. monitor' \in [Jobs -> Monitors]
        <3>1. \/ monitor' = monitor
              \/ \E mode \in Modes, verdict2 \in {"ok", "failed", "stopped"} :
                    monitor' = [monitor EXCEPT ![j] = ResultStatus(mode, verdict2)]
            BY <1>1 DEF PostResult
        <3>2. \A mode, verdict2 : ResultStatus(mode, verdict2) \in Monitors
            BY DEF ResultStatus, Monitors
        <3> QED BY <1>0, <3>1, <3>2 DEF TypeInv
    <2>5. TypeInv'
        BY <1>0, <2>2, <2>3, <2>4 DEF TypeInv
    <2>6. \A k \in Jobs \ {j} : Same(k)
        BY <2>2, <2>3 DEF Same
    <2>7. JobInv(j)'
        BY <1>0, <2>2, <2>3 DEF JobInv, Revoking
    <2> QED BY <1>0, <2>5, <2>6, <2>7, OneJob DEF IInv
<1>2. CASE ReportComplete(j)
    <2>1. /\ worker[j].at = "report" /\ worker' = [worker EXCEPT ![j].at = "done"]
          /\ UNCHANGED <<context, row, token, call, stop, box, monitor, cut, late, boots>>
        BY <1>2 DEF ReportComplete
    <2>2. /\ worker' \in [Jobs -> Workers] /\ worker'[j].at = "done"
          /\ \A k \in Jobs \ {j} : worker'[k] = worker[k]
        BY <1>0, <2>1 DEF TypeInv, Workers
    <2>3. CASE UNCHANGED <<handle, complete>>
        <3>1. TypeInv'
            BY <1>0, <2>1, <2>2, <2>3 DEF TypeInv
        <3>2. \A k \in Jobs \ {j} : Same(k)
            BY <2>1, <2>2, <2>3 DEF Same
        <3>3. JobInv(j)'
            BY <1>0, <2>1, <2>2, <2>3 DEF JobInv, Revoking
        <3> QED BY <1>0, <3>1, <3>2, <3>3, OneJob DEF IInv
    <2>4. CASE complete' = [complete EXCEPT ![j] = "docker"]
        <3>1. /\ complete' \in [Jobs -> Completes] /\ complete'[j] = "docker"
              /\ \A k \in Jobs \ {j} : complete'[k] = complete[k]
            BY <1>0, <2>4 DEF TypeInv, Completes
        <3>2. /\ handle' \in [Jobs -> Handles]
              /\ handle[j].state = "none" <=> handle'[j].state = "none"
              /\ handle'[j].id = handle[j].id
              /\ \A k \in Jobs \ {j} : handle'[k] = handle[k]
            <4>1. PICK r \in {"ok", "failed"} :
                     r = IF worker[j].verdict = "ok" THEN "ok" ELSE "failed"
                OBVIOUS
            <4>2. \/ UNCHANGED handle
                  \/ /\ handle[j].state # "none"
                     /\ handle' = [handle EXCEPT ![j] =
                                      [handle[j] EXCEPT !.state = "Stopped", !.result = r]]
                BY <1>0, <1>2, <2>4, <4>1 DEF ReportComplete, TypeInv
            <4>3. handle[j] \in Handles
                BY <1>0 DEF TypeInv
            <4>4. [handle[j] EXCEPT !.state = "Stopped"] \in Handles
                  /\ [handle[j] EXCEPT !.state = "Stopped"].state = "Stopped"
                  /\ [handle[j] EXCEPT !.state = "Stopped"].id = handle[j].id
                BY <4>3 DEF Handles
            <4>5. \A h \in Handles : /\ [h EXCEPT !.result = r] \in Handles
                                     /\ [h EXCEPT !.result = r].state = h.state
                                     /\ [h EXCEPT !.result = r].id = h.id
                BY <4>1 DEF Handles
            <4> DEFINE h == [handle[j] EXCEPT !.state = "Stopped", !.result = r]
            <4>6. h \in Handles /\ h.state = "Stopped" /\ h.id = handle[j].id
                BY <4>4, <4>5
            <4> HIDE DEF h
            <4>7. UNCHANGED handle \/ (handle[j].state # "none" /\ handle' = [handle EXCEPT ![j] = h])
                BY <4>2 DEF h
            <4> QED BY <1>0, <4>6, <4>7 DEF TypeInv
        <3>3. TypeInv'
            BY <1>0, <2>1, <2>2, <3>1, <3>2 DEF TypeInv
        <3>4. \A k \in Jobs \ {j} : Same(k)
            BY <2>1, <2>2, <3>1, <3>2 DEF Same
        <3>5. JobInv(j)'
            BY <1>0, <2>1, <2>2, <3>1, <3>2 DEF JobInv, Revoking
        <3> QED BY <1>0, <3>3, <3>4, <3>5, OneJob DEF IInv
    <2> QED BY <1>2, <2>3, <2>4 DEF ReportComplete
<1>3. CASE CompleteDocker(j)
    <2>1. /\ complete[j] = "docker" /\ complete' = [complete EXCEPT ![j] = "revoke"]
          /\ RemoveBox(j) \/ UNCHANGED <<box, worker>>
          /\ UNCHANGED <<context, row, manager, call, stop, monitor, cut, late, boots>>
        BY <1>3 DEF CompleteDocker
    <2>2. /\ complete' \in [Jobs -> Completes] /\ complete'[j] = "revoke"
          /\ \A k \in Jobs \ {j} : complete'[k] = complete[k]
        BY <1>0, <2>1 DEF TypeInv, Completes
    <2>3. /\ box' \in [Jobs -> Boxes] /\ worker' \in [Jobs -> Workers]
          /\ \/ box'[j] = box[j] /\ worker'[j] = worker[j]
             \/ /\ box'[j] = "none" /\ worker'[j].at \in {"none", "done"}
                /\ worker'[j].at = IF worker[j].at = "none" THEN "none" ELSE "done"
          /\ \A k \in Jobs \ {j} : box'[k] = box[k] /\ worker'[k] = worker[k]
        BY <1>0, <2>1, RemoveFacts DEF TypeInv
    <2>4. TypeInv'
        BY <1>0, <2>1, <2>2, <2>3 DEF TypeInv
    <2>5. \A k \in Jobs \ {j} : Same(k)
        BY <2>1, <2>2, <2>3 DEF Same
    <2>6. JobInv(j)'
        BY <1>0, <2>1, <2>2, <2>3 DEF JobInv, Revoking
    <2> QED BY <1>0, <2>4, <2>5, <2>6, OneJob DEF IInv
<1>4. CASE CompleteRevoke(j)
    <2>1. /\ complete' = [complete EXCEPT ![j] = "idle"] /\ token' = [token EXCEPT ![j] = FALSE]
          /\ UNCHANGED <<context, row, handle, call, stop, docker, monitor, cut, late, env>>
        BY <1>4 DEF CompleteRevoke
    <2>2. /\ complete' \in [Jobs -> Completes]
          /\ \A k \in Jobs \ {j} : complete'[k] = complete[k]
        BY <1>0, <2>1 DEF TypeInv, Completes
    <2>3. token' \in [Jobs -> BOOLEAN] /\ ~token'[j] /\ \A k \in Jobs \ {j} : token'[k] = token[k]
        BY <1>0, <2>1, TokenGone
    <2>4. TypeInv'
        BY <1>0, <2>1, <2>2, <2>3 DEF TypeInv
    <2>5. \A k \in Jobs \ {j} : Same(k)
        BY <2>1, <2>2, <2>3 DEF Same
    <2>6. JobInv(j)'
        BY <1>0, <2>1, <2>3 DEF JobInv, Revoking
    <2> QED BY <1>0, <2>4, <2>5, <2>6, OneJob DEF IInv
<1>5. CASE ContainerExits(j)
    <2>1. /\ box[j] = "running" /\ box' = [box EXCEPT ![j] = "exited"]
          /\ worker' = [worker EXCEPT ![j].at = "done"]
          /\ UNCHANGED <<context, row, manager, tasks, late, env>>
        BY <1>5 DEF ContainerExits
    <2>2. CASE call[j].at \notin {"idle", "create", "container", "start"}
        <3>1. /\ box' \in [Jobs -> Boxes] /\ worker' \in [Jobs -> Workers]
              /\ worker'[j].at = "done"
              /\ \A k \in Jobs \ {j} : box'[k] = box[k] /\ worker'[k] = worker[k]
            BY <1>0, <2>1 DEF TypeInv, Boxes, Workers
        <3>2. TypeInv'
            BY <1>0, <2>1, <3>1 DEF TypeInv
        <3>3. \A k \in Jobs \ {j} : Same(k)
            BY <2>1, <3>1 DEF Same
        <3>4. JobInv(j)'
            BY <1>0, <2>1, <2>2, <3>1 DEF JobInv, Revoking
        <3> QED BY <1>0, <3>2, <3>3, <3>4, OneJob DEF IInv
    <2> QED BY <1>0, <2>1, <2>2 DEF JobInv
<1>6. CASE MonitorMoves(j)
    <2>1. /\ monitor[j] \in {"Completed", "Failed"} /\ Move(j, monitor[j])
          /\ monitor' = [monitor EXCEPT ![j] = "done"]
          /\ UNCHANGED <<repairs, row, manager, call, complete, stop, docker, cut, late, env>>
        BY <1>6 DEF MonitorMoves
    <2>2. /\ ctx' \in [Jobs -> CtxStates]
          /\ ctx[j] = "Absent" => ctx'[j] = "Absent"
          /\ \A k \in Jobs \ {j} : ctx'[k] = ctx[k]
        <3>1. monitor[j] \in JobState
            BY <2>1 DEF JobState
        <3> QED BY <1>0, <2>1, <3>1, MoveFacts
    <2>3. monitor' \in [Jobs -> Monitors]
        BY <1>0, <2>1 DEF TypeInv, Monitors
    <2>4. TypeInv'
        BY <1>0, <2>1, <2>2, <2>3 DEF TypeInv
    <2>5. \A k \in Jobs \ {j} : Same(k)
        BY <2>1, <2>2 DEF Same
    <2>6. JobInv(j)'
        BY <1>0, <2>1, <2>2 DEF JobInv, Revoking
    <2> QED BY <1>0, <2>4, <2>5, <2>6, OneJob DEF IInv
<1>7. CASE CompleteDropped(j)
    <2>1. /\ complete[j] # "idle" /\ complete' = [complete EXCEPT ![j] = "dropped"]
          /\ UNCHANGED <<context, row, manager, call, stop, docker, monitor, cut, late, boots>>
        BY <1>7 DEF CompleteDropped
    <2>2. /\ complete' \in [Jobs -> Completes] /\ complete'[j] = "dropped"
          /\ \A k \in Jobs \ {j} : complete'[k] = complete[k]
        BY <1>0, <2>1 DEF TypeInv, Completes
    <2>3. TypeInv'
        BY <1>0, <2>1, <2>2 DEF TypeInv
    <2>4. \A k \in Jobs \ {j} : Same(k)
        BY <2>1, <2>2 DEF Same
    <2>5. JobInv(j)'
        BY <1>0, <2>1, <2>2 DEF JobInv, Revoking
    <2> QED BY <1>0, <2>3, <2>4, <2>5, OneJob DEF IInv
<1> QED BY <1>1, <1>2, <1>3, <1>4, <1>5, <1>6, <1>7 DEF WorkerStep

(***************************************************************************)
(* Self-repair, time and restarts.                                         *)
(***************************************************************************)
LEMMA RepairKeeps ==
    ASSUME IInv, NEW j \in Jobs, RepairStep(j) \/ GrowLate(j)
    PROVE  IInv'
<1>0. TypeInv /\ AllJobs /\ JobInv(j)
    BY DEF IInv, AllJobs
<1>1. CASE RepairStep(j)
    <2>1. /\ \E to \in {"InProgress", "Failed", "Stuck"} : Move(j, to)
          /\ UNCHANGED <<row, manager, tasks, docker, late, env>>
        BY <1>1 DEF RepairStep, DetectStuck, RepairStuck
    <2>2. /\ ctx' \in [Jobs -> CtxStates]
          /\ ctx[j] = "Absent" => ctx'[j] = "Absent"
          /\ \A k \in Jobs \ {j} : ctx'[k] = ctx[k]
        BY <1>0, <2>1, MoveFacts DEF JobState
    <2>3. repairs' \in [Jobs -> 0..MaxRepair]
        <3>1. repairs' = repairs
              \/ (repairs[j] < MaxRepair /\ repairs' = [repairs EXCEPT ![j] = @ + 1])
            BY <1>1 DEF RepairStep, DetectStuck, RepairStuck
        <3>2. MaxRepair \in Nat
            BY DEF SandboxAssumption
        <3> QED BY <1>0, <3>1, <3>2 DEF TypeInv
    <2>4. TypeInv'
        BY <1>0, <2>1, <2>2, <2>3 DEF TypeInv
    <2>5. \A k \in Jobs \ {j} : Same(k)
        BY <2>1, <2>2 DEF Same
    <2>6. JobInv(j)'
        BY <1>0, <2>1, <2>2 DEF JobInv, Revoking
    <2> QED BY <1>0, <2>4, <2>5, <2>6, OneJob DEF IInv
<1>2. CASE GrowLate(j)
    <2>1. TypeInv'
        BY <1>0, <1>2 DEF GrowLate, TypeInv
    <2>2. \A k \in Jobs : Same(k)
        BY <1>2 DEF GrowLate, Same
    <2>3. AllJobs'
        BY <1>0, <2>2, SameKeeps DEF AllJobs
    <2> QED BY <2>1, <2>3 DEF IInv
<1> QED BY <1>1, <1>2

\* What the process had in memory is gone; the containers run on.
LEMMA RestartKeeps ==
    ASSUME IInv, Restart
    PROVE  IInv'
<1>0. TypeInv /\ AllJobs
    BY DEF IInv
<1>1. /\ call' \in [Jobs -> Calls]
      /\ \A j \in Jobs : /\ call'[j].kind = call[j].kind
                         /\ call'[j].at = IF call[j].at = "idle" THEN "idle" ELSE "over"
    BY <1>0 DEF Restart, TypeInv, Calls, Places
<1>2. handle' \in [Jobs -> Handles] /\ \A j \in Jobs : handle'[j].state = "none"
    BY DEF Restart, Handles, NoHandle
<1>3. stop' \in [Jobs -> Stops] /\ \A j \in Jobs : stop'[j]["call"] = "idle"
    BY DEF Restart, Stops, StopPlaces, Callers
<1>4. ctx' \in [Jobs -> CtxStates] /\ token' \in [Jobs -> BOOLEAN]
      /\ \A j \in Jobs : ctx'[j] = "Absent" /\ ~token'[j]
    BY DEF Restart, CtxStates
<1>5. repairs' \in [Jobs -> 0..MaxRepair]
    BY DEF Restart, SandboxAssumption
<1>6. row' \in [Jobs -> RowStatus]
    BY <1>0 DEF Restart, TypeInv, RowStatus
<1>7. /\ complete' \in [Jobs -> Completes] /\ monitor' \in [Jobs -> Monitors]
      /\ \A j \in Jobs : complete'[j] = "idle"
    BY DEF Restart, Monitors, Completes
<1>8. UNCHANGED <<docker, late>> /\ cut' = {}
    BY DEF Restart
<1>9. TypeInv'
    BY <1>0, <1>1, <1>2, <1>3, <1>4, <1>5, <1>6, <1>7, <1>8 DEF TypeInv
<1>10. ASSUME NEW j \in Jobs PROVE JobInv(j)'
    <2>1. JobInv(j)
        BY <1>0 DEF AllJobs
    <2> QED BY <1>1, <1>2, <1>3, <1>4, <1>7, <1>8, <2>1 DEF JobInv
<1> QED BY <1>9, <1>10 DEF IInv, AllJobs

LEMMA InvStep == IInv /\ [Next]_vars => IInv'
<1> SUFFICES ASSUME IInv, [Next]_vars PROVE IInv'
    OBVIOUS
<1>1. ASSUME NEW j \in Jobs, ReaperStep(j) PROVE IInv'
    <2>1. "reaper" \in Callers
        BY DEF Callers
    <2> QED BY <1>1, <2>1, StopKeeps, CancelKeeps DEF ReaperStep
<1>2. CASE UNCHANGED vars
    <2>1. TypeInv'
        BY <1>2 DEF vars, IInv, TypeInv
    <2>2. \A j \in Jobs : Same(j)
        BY <1>2 DEF vars, Same
    <2>3. AllJobs'
        BY <2>2, SameKeeps DEF IInv, AllJobs
    <2> QED BY <2>1, <2>3 DEF IInv
<1> QED BY <1>1, <1>2, CallKeeps, CancelKeeps, WorkerKeeps, RepairKeeps, RestartKeeps DEF Next

(***************************************************************************)
(* Theorems.                                                               *)
(***************************************************************************)
THEOREM Invariance == Spec => []IInv
BY InitHolds, InvStep, PTL DEF Spec

\* A container works only if it was started, nothing is known of a job never created, and
\* self-repair never tries a job more often than max_repair_attempts.
THEOREM TypeCorrect == Spec => []TypeOK
<1>1. IInv => TypeOK
    <2> SUFFICES ASSUME IInv PROVE TypeOK
        OBVIOUS
    <2>1. TypeInv /\ \A j \in Jobs : JobInv(j)
        BY DEF IInv, AllJobs
    <2>2. /\ \A j \in Jobs : worker[j].at \in {"work", "report"} => box[j] = "running"
          /\ \A j \in Jobs : call[j].at = "idle" => ctx[j] = "Absent" /\ box[j] = "none"
        BY <2>1 DEF JobInv
    <2> QED BY <2>1, <2>2 DEF TypeInv, TypeOK, CtxStates, Handles, Calls, Places, Stops, StopPlaces,
                  Boxes, Workers, Completes, Monitors
<1> QED BY <1>1, Invariance, PTL

\* A container whose worker works can authenticate only while its job has a handle with the
\* container's id, or one whose call is there to publish it or was dropped before it did; or
\* while its token is being revoked, or a stop was dropped just before it revoked it
\* (create_job, stop_job, complete_job and cleanup_job in any order).
THEOREM TokensAreRevocable == Spec => []TokenIsRevocable
<1>1. IInv => TokenIsRevocable
    BY DEF IInv, AllJobs, JobInv, TokenIsRevocable
<1> QED BY <1>1, Invariance, PTL

\* A call that waited for its job leaves no handle when it returns, and a token only while it
\* is being revoked or when whoever did so was dropped, the completion of a worker that has
\* ended included (execute_sandbox, complete_job).
THEOREM WaitedJobsLeaveNothing == Spec => []WaitedJobLeavesNothing
<1>1. IInv => WaitedJobLeavesNothing
    BY DEF IInv, AllJobs, JobInv, WaitedJobLeavesNothing
<1> QED BY <1>1, Invariance, PTL
=============================================================================
