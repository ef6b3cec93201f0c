------------------------- MODULE EngineRouterProofs -------------------------
(***************************************************************************)
(* TLAPS proofs about EngineRouter and its gate store, for every set of    *)
(* threads and web requests and every bound.                               *)
(***************************************************************************)
EXTENDS EngineRouter, Sequences, TLAPS

(***************************************************************************)
(* The inductive invariant, part by part.                                  *)
(***************************************************************************)
\* Where the router works on a gate; where it, rather than the store, owns the
\* thread's gate or runs the thread.
OnGate  == {"take", "unlink", "resolved", "exec", "insert", "save"}
Joining == {"await", "join", "joinEntry", "joining"}
Holding == {"unlink", "resolved", "exec", "resume", "insert"} \cup Joining

\* A call keeps the thread of its first gate, and store, file, router and web
\* requests keep a gate under its own thread.
RefInv ==
    /\ \A r \in 1 .. issued : /\ gate[r].call <= r
                              /\ gate[gate[r].call].thread = gate[r].thread
    /\ \A t \in Threads : mem[t] # NoRequest => gate[mem[t]].thread = t
    /\ \A t \in Threads : file[t] # NoRequest => gate[file[t]].thread = t
    /\ rt.pc \in OnGate => rt.r # NoRequest /\ gate[rt.r].thread = rt.t
    /\ \A w \in Webs : webs[w].pc # "idle" =>
          webs[w].r # NoRequest /\ gate[webs[w].r].thread = webs[w].t

\* Threads whose outcome join_thread did not find and nobody asks for again.
Missed == {t \in completed : ~(rt.pc \in Joining /\ rt.t = t)}

\* The only thread that executes is the one the router waits for, and until it has
\* posted its outcome it is found in the running map or joined; a pause is an
\* outcome, not yet taken, of a thread that waits.
TaskInv ==
    /\ \A t \in Threads : task[t] \in Executing => rt.pc \in Joining /\ rt.t = t
    /\ \A t \in Threads : task[t] # "none" => t \in running \/ (rt.pc = "joining" /\ rt.t = t)
    /\ \A t \in completed : task[t] \notin Executing /\ stored[t] # "Absent"
    /\ \A t \in Missed : task[t] = "none"
    /\ \A t \in Threads : out[t].kind \in PauseKinds =>
          /\ stored[t] = "Waiting" /\ (task[t] = "ending" \/ t \in completed)
          /\ rt.pc \in Joining /\ rt.t = t
    /\ rt.pc = "injected" => rt.t \notin completed

\* A web request that took a gate out of the store and will put another one in.
WebHolds(w) ==
    \/ webs[w].pc \in {"build", "insert"}
    \/ webs[w].pc = "unlink" /\ webs[w].op = "pair"

\* A thread's gate is in one place: in the store, with the router (which may run
\* the thread instead), or with one web request.  A thread whose outcome was missed
\* has none.
TokenInv ==
    /\ rt.pc \in Holding => mem[rt.t] = NoRequest
    /\ \A w \in Webs : WebHolds(w) => mem[webs[w].t] = NoRequest
    /\ \A w \in Webs : WebHolds(w) /\ rt.pc \in Holding => webs[w].t # rt.t
    /\ \A v, w \in Webs : WebHolds(v) /\ WebHolds(w) /\ webs[v].t = webs[w].t => v = w
    /\ \A t \in Threads : stored[t] = "Absent" \/ t \in Missed =>
          /\ mem[t] = NoRequest
          /\ rt.pc \in Holding => rt.t # t
          /\ \A w \in Webs : WebHolds(w) => webs[w].t # t

\* The answer in hand fits the kind of its gate; web requests build and save
\* pairing gates only.
KindInv ==
    /\ rt.pc \in {"take", "unlink", "resolved", "exec"} =>
          IF gate[rt.r].kind = "approval" THEN rt.res \in {"approve", "deny"}
          ELSE gate[rt.r].kind \in AuthKinds /\ rt.res \in {"credential", "cancel", "callback"}
    /\ \A w \in Webs : webs[w].pc \in {"insert", "save"} => gate[webs[w].r].kind = "pairing"

\* A gate on a tool call belongs to a thread that waits, also while the router holds it.
WaitInv ==
    /\ GateOwnerIsWaiting
    /\ rt.pc \in OnGate \ {"take", "save"} /\ gate[rt.r].kind \in PauseKinds =>
          stored[rt.t] = "Waiting"
    /\ rt.pc = "orphan" => ~LiveOfKind(rt.t, PauseKinds)

\* What is recorded as granted was approved in this process.
GrantInv ==
    /\ \A r \in 1 .. issued : gate[r].granted => gate[r].call \in approved
    /\ rt.pc = "exec" /\ rt.res \in {"approve", "deny"} => gate[rt.r].call \in approved

IInv == TypeOK /\ RefInv /\ TaskInv /\ TokenInv /\ KindInv /\ WaitInv /\ GrantInv

\* Gates whose resolution runs their action.
RunKinds == {"approval", "auth", "fallback"}
Runs(r) == gate[r].kind \in RunKinds
Fresh(r) == Runs(r) => gate[r].call \notin ran

\* No gate that could run its call is left, in the store, in the file or with the
\* router, once the call was run.
RunInv ==
    /\ ran \subseteq 1 .. issued
    /\ torn => file = NoRows
    /\ \A t \in Threads : /\ mem[t] # NoRequest => Fresh(mem[t])
                          /\ file[t] # NoRequest => Fresh(file[t])
    /\ rt.pc \in OnGate \ {"take"} => Fresh(rt.r)
    /\ rt.pc = "exec" => Runs(rt.r)
    /\ rt.pc \in {"resolved", "exec"} => file[rt.t] = NoRequest \/ ~Runs(file[rt.t])

-----------------------------------------------------------------------------
USE DEF gateVars, threadVars, history, NoRequest

(***************************************************************************)
(* Frames: which steps touch which part of the state.                      *)
(***************************************************************************)
WebStep(w) ==
    \/ \E op \in {"clear", "replay", "pair"}, t \in Threads : WebList(w, op, t)
    \/ WebDiscard(w) \/ WebUnlink(w) \/ WebBuild(w) \/ WebInsert(w) \/ WebSave(w)

GateChange ==
    \/ ResolveRequeued \/ JoinPosted \/ JoinHandle
    \/ \E k \in PauseKinds : ExecPauses(k)
    \/ \E w \in Webs : WebBuild(w)
    \/ Restart

MemChange ==
    \/ Take \/ GateInsert \/ Restart
    \/ \E t \in Threads : ClearDiscard(t)
    \/ \E w \in Webs : WebDiscard(w) \/ WebInsert(w)

FileChange ==
    \/ TakeUnlink \/ GateSave \/ ClearUnlink \/ Restart
    \/ \E w \in Webs : WebUnlink(w) \/ WebSave(w)

ThreadChange ==
    \/ \E t \in Threads : TaskNext(t) \/ Spawn(t)
    \/ ResolveNoBackend \/ Resume \/ JoinPosted \/ JoinWait \/ JoinMisses \/ JoinHandle
    \/ OrphanFail \/ Restart

HistoryChange == ResolveApproved \/ ExecRuns \/ (\E k \in PauseKinds : ExecPauses(k)) \/ Restart

\* A step that is not in GateChange builds no gate.
LEMMA GateFrame ==
    ASSUME [Next]_vars, ~GateChange
    PROVE  UNCHANGED <<gate, issued>>
BY DEF Next, vars, GateChange, TaskNext, Message, RouterNext, WebNext, GateExpires, Expire,
    TaskStart, TaskSettle, TaskPost, TaskEnd, Spawn, Inject, OrphanPeek, Select, HandleCallback,
    ClearBegin,
    Take, TakeUnlink, ResolveApproved, ResolveDenied, ResolveCancelled, ResolveReady,
    ResolveNoBackend, ResolveError, ExecRuns, ExecFails, Resume, AwaitEnd, AwaitDeadline,
    JoinLook, JoinWait, JoinMisses, InjectedEnd,
    GateInsert, GateSave, OrphanFail, ClearDiscard, ClearUnlink, ClearDone,
    WebList, WebDiscard, WebUnlink, WebInsert, WebSave, WebCallback

\* A step that is not in MemChange leaves the store's memory alone.
LEMMA MemFrame ==
    ASSUME [Next]_vars, ~MemChange
    PROVE  UNCHANGED mem
BY DEF Next, vars, MemChange, TaskNext, Message, RouterNext, WebNext, GateExpires, Expire,
    TaskStart, TaskSettle, TaskPost, TaskEnd, Spawn, Inject, OrphanPeek, Select, HandleCallback,
    ClearBegin,
    TakeUnlink, ResolveApproved, ResolveDenied, ResolveCancelled, ResolveReady, ResolveRequeued,
    ResolveNoBackend, ResolveError, ExecRuns, ExecFails, ExecPauses, Resume, AwaitEnd,
    AwaitDeadline, JoinPosted, JoinLook, JoinWait, JoinMisses, JoinHandle, InjectedEnd, GateSave,
    OrphanFail, ClearUnlink, ClearDone,
    WebList, WebUnlink, WebBuild, WebSave, WebCallback

\* A step that is not in FileChange leaves the file alone.
LEMMA FileFrame ==
    ASSUME [Next]_vars, ~FileChange
    PROVE  UNCHANGED <<file, torn>>
BY DEF Next, vars, FileChange, TaskNext, Message, RouterNext, WebNext, GateExpires, Expire,
    TaskStart, TaskSettle, TaskPost, TaskEnd, Spawn, Inject, OrphanPeek, Select, HandleCallback,
    ClearBegin,
    Take, ResolveApproved, ResolveDenied, ResolveCancelled, ResolveReady, ResolveRequeued,
    ResolveNoBackend, ResolveError, ExecRuns, ExecFails, ExecPauses, Resume, AwaitEnd,
    AwaitDeadline, JoinPosted, JoinLook, JoinWait, JoinMisses, JoinHandle, InjectedEnd,
    GateInsert, OrphanFail, ClearDiscard,
    ClearDone, WebList, WebDiscard, WebBuild, WebInsert, WebCallback

\* A step that is not in ThreadChange leaves the threads and their tasks alone.
LEMMA ThreadFrame ==
    ASSUME [Next]_vars, ~ThreadChange
    PROVE  UNCHANGED threadVars
BY DEF Next, vars, ThreadChange, Message, RouterNext, WebNext, GateExpires, Inject, OrphanPeek,
    Select, JoinLook, InjectedEnd, HandleCallback, ClearBegin, Take, TakeUnlink, ResolveApproved,
    ResolveDenied,
    ResolveCancelled, ResolveReady, ResolveRequeued, ResolveError, ExecRuns, ExecFails,
    ExecPauses, AwaitEnd, AwaitDeadline, GateInsert, GateSave, ClearDiscard, ClearUnlink,
    ClearDone, WebList, WebDiscard, WebUnlink, WebBuild, WebInsert, WebSave, WebCallback

\* A step of neither the router nor a restart leaves the router alone.
LEMMA RouterFrame ==
    ASSUME [Next]_vars, ~Message, ~RouterNext, ~Restart
    PROVE  UNCHANGED <<rt, active, todo, history>>
BY DEF Next, vars, TaskNext, WebNext, GateExpires, TaskStart, TaskSettle, TaskPost, TaskEnd,
    WebList, WebDiscard, WebUnlink, WebBuild, WebInsert, WebSave, WebCallback

\* A step of neither a web request nor a restart leaves the web requests alone.
LEMMA WebFrame ==
    ASSUME [Next]_vars, ~ \E w \in Webs : WebStep(w), ~Restart
    PROVE  UNCHANGED webs
BY DEF Next, vars, WebStep, TaskNext, Message, RouterNext, WebNext, GateExpires,
    TaskStart, TaskSettle, TaskPost, TaskEnd, Spawn, Inject, OrphanPeek, Select, HandleCallback,
    ClearBegin,
    Take, TakeUnlink, ResolveApproved, ResolveDenied, ResolveCancelled, ResolveReady,
    ResolveRequeued, ResolveNoBackend, ResolveError, ExecRuns, ExecFails, ExecPauses, Resume,
    AwaitEnd, AwaitDeadline, JoinPosted, JoinLook, JoinWait, JoinMisses, JoinHandle, InjectedEnd,
    GateInsert, GateSave, OrphanFail,
    ClearDiscard, ClearUnlink, ClearDone, WebCallback

\* A step that is not in HistoryChange neither approves nor runs a call.
LEMMA HistoryFrame ==
    ASSUME [Next]_vars, ~HistoryChange
    PROVE  UNCHANGED <<approved, ran>>
BY DEF Next, vars, HistoryChange, TaskNext, Message, RouterNext, WebNext, GateExpires,
    TaskStart, TaskSettle, TaskPost, TaskEnd, Spawn, Inject, OrphanPeek, Select, HandleCallback,
    ClearBegin,
    Take, TakeUnlink, ResolveDenied, ResolveCancelled, ResolveReady,
    ResolveRequeued, ResolveNoBackend, ResolveError, ExecFails, Resume,
    AwaitEnd, AwaitDeadline, JoinPosted, JoinLook, JoinWait, JoinMisses, JoinHandle, InjectedEnd,
    GateInsert, GateSave, OrphanFail,
    ClearDiscard, ClearUnlink, ClearDone,
    WebList, WebDiscard, WebUnlink, WebBuild, WebInsert, WebSave, WebCallback

(***************************************************************************)
(* Types.                                                                  *)
(***************************************************************************)
ThreadTypeOK ==
    /\ stored \in [Threads -> ThreadState \cup {"Absent"}]
    /\ task \in [Threads -> {"none", "starting", "executing", "ending", "posted"}]
    /\ out \in [Threads -> [kind : Outcomes, needs : BOOLEAN]]
    /\ completed \subseteq Threads /\ running \subseteq Threads

RouterTypeOK ==
    rt \in [pc : RouterPcs, t : Threads, r : 0 .. issued,
            res : {"none", "approve", "deny", "credential", "cancel", "callback"}]

WebTypeOK ==
    webs \in [Webs -> [pc : {"idle", "discard", "unlink", "build", "insert", "save"},
                       op : {"none", "clear", "replay", "pair"},
                       t : Threads, r : 0 .. issued]]

LEMMA AnyThreadIsOne == AnyThread \in Threads
BY GatesAssumption DEF GatesAssumption, AnyThread

LEMMA MoveFacts ==
    ASSUME NEW s, NEW u, u \in Successors(s)
    PROVE  s # "Absent" /\ u \in ThreadState
BY DEF Successors, ThreadState

\* A gate is built under the next id; the others stay as they are.
LEMMA BuildFacts ==
    ASSUME GatesTypeOK, NEW t \in Threads, NEW k \in GateKinds, NEW c \in 1 .. issued + 1,
           NEW n \in BOOLEAN, NEW g \in BOOLEAN, Build(t, k, c, n, g)
    PROVE  /\ issued' = issued + 1 /\ issued' \in 1 .. MaxRequests
           /\ gate' \in [1 .. issued' -> Gate]
           /\ \A r \in 1 .. issued : gate'[r] = gate[r]
           /\ gate'[issued'] = [thread |-> t, kind |-> k, call |-> c, needs |-> n, granted |-> g]
<1> USE GatesAssumption DEF GatesAssumption, GatesTypeOK, Build, CanBuild, NextRequest
<1>1. issued' = issued + 1 /\ issued' \in 1 .. MaxRequests
    OBVIOUS
<1>2. [thread |-> t, kind |-> k, call |-> c, needs |-> n, granted |-> g] \in Gate
    BY <1>1 DEF Gate, Requests
<1>3. \A r \in 1 .. issued : gate'[r] = gate[r] /\ gate[r] \in Gate
    OBVIOUS
<1>4. gate'[issued'] = [thread |-> t, kind |-> k, call |-> c, needs |-> n, granted |-> g]
    BY <1>1
<1> QED BY <1>1, <1>2, <1>3, <1>4

\* What no step changes in a gate that was built, and that a grant is never added.
GatesStay ==
    /\ issued' \in issued .. MaxRequests
    /\ gate' \in [1 .. issued' -> Gate]
    /\ \A r \in 1 .. issued :
          /\ gate'[r].thread = gate[r].thread /\ gate'[r].kind = gate[r].kind
          /\ gate'[r].call = gate[r].call /\ gate'[r].needs = gate[r].needs
          /\ gate'[r].granted => gate[r].granted

\* The gate a step builds, if it builds one, in words of the gate it follows.
Builds(t, kinds, c, granted) ==
    /\ GatesStay
    /\ issued' = issued + 1
    /\ gate'[issued'].thread = t /\ gate'[issued'].call = c
    /\ gate'[issued'].kind \in kinds
    /\ gate'[issued'].granted => granted

LEMMA BuildStays ==
    ASSUME GatesTypeOK, NEW t \in Threads, NEW k \in GateKinds, NEW c \in 1 .. issued + 1,
           NEW n \in BOOLEAN, NEW g \in BOOLEAN, Build(t, k, c, n, g)
    PROVE  Builds(t, {k}, c, g)
<1>1. /\ issued' = issued + 1 /\ issued' \in 1 .. MaxRequests
      /\ gate' \in [1 .. issued' -> Gate]
      /\ \A r \in 1 .. issued : gate'[r] = gate[r]
      /\ gate'[issued'] = [thread |-> t, kind |-> k, call |-> c, needs |-> n, granted |-> g]
    BY BuildFacts
<1>2. issued' \in issued .. MaxRequests
    BY <1>1, GatesAssumption DEF GatesAssumption, GatesTypeOK
<1> QED BY <1>1, <1>2 DEF GatesStay, Builds

LEMMA RestoredFacts ==
    ASSUME NEW g \in Gate
    PROVE  /\ RestoredGate(g) \in Gate /\ ~RestoredGate(g).granted
           /\ RestoredGate(g).thread = g.thread /\ RestoredGate(g).kind = g.kind
           /\ RestoredGate(g).call = g.call /\ RestoredGate(g).needs = g.needs
BY DEF RestoredGate, Gate

\* What the parts of TypeOK say, in the form the steps below use them.
LEMMA TypeParts ==
    ASSUME TypeOK
    PROVE  /\ GatesTypeOK /\ ThreadTypeOK /\ RouterTypeOK /\ WebTypeOK /\ issued \in Nat
           /\ \A r \in 1 .. issued : gate[r] \in Gate
BY GatesAssumption
DEF TypeOK, GatesTypeOK, ThreadTypeOK, RouterTypeOK, WebTypeOK, GatesAssumption

LEMMA RequeueBuilds ==
    ASSUME TypeOK, RefInv, ResolveRequeued
    PROVE  Builds(rt.t, {gate[rt.r].kind, "pairing"}, gate[rt.r].call, gate[rt.r].granted)
<1>0. GatesTypeOK
    BY TypeParts
<1>1. rt.r \in 1 .. issued /\ rt.t \in Threads /\ gate[rt.r].thread = rt.t
    BY TypeParts DEF ResolveRequeued, Resolving, RefInv, OnGate, RouterTypeOK
<1>2. gate[rt.r] \in Gate /\ gate[rt.r].call \in 1 .. issued + 1
    BY <1>1, TypeParts DEF Gate, RefInv, Requests
<1>3. PICK k \in GateKinds \cap {gate[rt.r].kind, "pairing"} :
         Build(rt.t, k, gate[rt.r].call, gate[rt.r].needs, gate[rt.r].granted)
    BY <1>1, <1>2 DEF ResolveRequeued, Requeue, Gate, GateKinds
<1>4. gate[rt.r].needs \in BOOLEAN /\ gate[rt.r].granted \in BOOLEAN
    BY <1>2 DEF Gate
<1>5. Builds(rt.t, {k}, gate[rt.r].call, gate[rt.r].granted)
    BY <1>0, <1>1, <1>2, <1>3, <1>4, BuildStays
<1> QED BY <1>3, <1>5 DEF Builds

LEMMA PauseBuilds ==
    ASSUME TypeOK, RefInv, NEW k \in PauseKinds, ExecPauses(k)
    PROVE  Builds(rt.t, {k}, gate[rt.r].call, ApprovalGranted \/ gate[rt.r].kind = "approval")
<1>0. GatesTypeOK
    BY TypeParts
<1>1. rt.r \in 1 .. issued /\ rt.t \in Threads /\ gate[rt.r].thread = rt.t
    BY TypeParts DEF ExecPauses, RefInv, OnGate, RouterTypeOK
<1>2. gate[rt.r] \in Gate /\ gate[rt.r].call \in 1 .. issued + 1
    BY <1>1, TypeParts DEF Gate, RefInv, Requests
<1>3. k \in GateKinds
    BY DEF PauseKinds, GateKinds, AuthKinds
<1>4. gate[rt.r].needs \in BOOLEAN /\ gate[rt.r].granted \in BOOLEAN
    BY <1>2 DEF Gate
<1>5. PICK g \in BOOLEAN :
         /\ g = (ApprovalGranted \/ gate[rt.r].kind = "approval")
         /\ Build(rt.t, k, gate[rt.r].call, gate[rt.r].needs, g)
    BY <1>4 DEF ExecPauses, ApprovalGranted
<1>6. Builds(rt.t, {k}, gate[rt.r].call, g)
    BY <1>0, <1>1, <1>2, <1>3, <1>4, <1>5, BuildStays
<1> QED BY <1>5, <1>6

LEMMA CollectBuilds ==
    ASSUME TypeOK, JoinPosted \/ JoinHandle
    PROVE  \/ UNCHANGED <<gate, issued>> /\ out[rt.t].kind \notin PauseKinds
           \/ /\ out[rt.t].kind \in PauseKinds \cup {"fallback"}
              /\ Builds(rt.t, {Reported(out[rt.t].kind)}, issued + 1, FALSE)
<1>0. GatesTypeOK /\ rt.t \in Threads /\ issued + 1 \in 1 .. issued + 1
    BY TypeParts DEF RouterTypeOK
<1>1. CASE out[rt.t].kind \notin PauseKinds \cup {"fallback"}
    BY <1>1 DEF JoinPosted, JoinHandle, Collect
<1>2. CASE out[rt.t].kind \in PauseKinds \cup {"fallback"}
    <2>1. Reported(out[rt.t].kind) \in GateKinds /\ out[rt.t].needs \in BOOLEAN
        BY <1>0, <1>2, TypeParts DEF Reported, GateKinds, AuthKinds, PauseKinds, ThreadTypeOK
    <2>2. PICK g \in BOOLEAN :
             g = FALSE /\ Build(rt.t, Reported(out[rt.t].kind), issued + 1, out[rt.t].needs, g)
        BY <1>2 DEF JoinPosted, JoinHandle, Collect, NextRequest
    <2>3. Builds(rt.t, {Reported(out[rt.t].kind)}, issued + 1, g)
        BY <1>0, <2>1, <2>2, BuildStays
    <2> QED BY <1>2, <2>2, <2>3
<1> QED BY <1>1, <1>2

LEMMA WebBuilds ==
    ASSUME TypeOK, RefInv, NEW w \in Webs, WebBuild(w)
    PROVE  Builds(webs[w].t, {"pairing"}, gate[webs[w].r].call, gate[webs[w].r].granted)
<1>0. GatesTypeOK
    BY TypeParts
<1>1. webs[w].r \in 1 .. issued /\ webs[w].t \in Threads
    BY TypeParts DEF WebBuild, RefInv, WebTypeOK
<1>2. gate[webs[w].r] \in Gate /\ gate[webs[w].r].call \in 1 .. issued + 1
    <2>1. gate[webs[w].r] \in Gate /\ gate[webs[w].r].call <= webs[w].r
        BY <1>1, TypeParts DEF RefInv
    <2> QED BY <1>1, <2>1, TypeParts DEF Gate, Requests
<1>3. gate[webs[w].r].needs \in BOOLEAN /\ gate[webs[w].r].granted \in BOOLEAN
    BY <1>2 DEF Gate
<1>4. Build(webs[w].t, "pairing", gate[webs[w].r].call, gate[webs[w].r].needs,
            gate[webs[w].r].granted)
    BY DEF WebBuild
<1> QED BY <1>0, <1>1, <1>2, <1>3, <1>4, BuildStays DEF GateKinds

LEMMA StepGates ==
    ASSUME TypeOK, RefInv, [Next]_vars
    PROVE  GatesStay
<1>0. issued \in 0 .. MaxRequests /\ gate \in [1 .. issued -> Gate] /\ MaxRequests \in Nat
    BY TypeParts, GatesAssumption DEF GatesTypeOK, GatesAssumption
<1>1. CASE ResolveRequeued
    BY <1>1, RequeueBuilds DEF Builds
<1>2. ASSUME NEW k \in PauseKinds, ExecPauses(k) PROVE GatesStay
    BY <1>2, PauseBuilds DEF Builds
<1>3. ASSUME NEW w \in Webs, WebBuild(w) PROVE GatesStay
    BY <1>3, WebBuilds DEF Builds
<1>4. CASE Restart
    <2>1. \A r \in 1 .. issued : gate[r] \in Gate
        BY <1>0
    <2>2. issued' = issued /\ gate' = [r \in 1 .. issued |-> RestoredGate(gate[r])]
        BY <1>4 DEF Restart
    <2>3. gate' \in [1 .. issued' -> Gate]
        BY <2>1, <2>2, RestoredFacts
    <2> QED BY <1>0, <2>1, <2>2, <2>3, RestoredFacts DEF GatesStay
<1>5. CASE UNCHANGED <<gate, issued>>
    BY <1>0, <1>5 DEF GatesStay
<1>6. CASE JoinPosted \/ JoinHandle
    BY <1>5, <1>6, CollectBuilds DEF Builds
<1> QED BY <1>1, <1>2, <1>3, <1>4, <1>5, <1>6, GateFrame DEF GateChange

\* What a restart makes of the files.
LEMMA RestartFacts ==
    ASSUME TypeOK, Restart
    PROVE  \E rows \in {file, NoRows}, bad \in BOOLEAN :
              /\ torn => bad
              /\ bad => torn \/ rows = NoRows
              /\ mem' = Reconciled(Restored(rows, bad), Recovered)
              /\ stored' = ReconciledThreads(Restored(rows, bad), Recovered)
              /\ torn' = bad
              /\ \/ file' = [t \in Threads |->
                               IF Restored(rows, bad)[t] # mem'[t] THEN NoRequest ELSE rows[t]]
                 \/ FileErrors /\ file' = rows
<1>1. torn \in BOOLEAN
    BY TypeParts DEF GatesTypeOK
<1> DEFINE Rows(cut) == IF cut = "no" THEN file ELSE NoRows
           Bad(cut)  == torn \/ cut = "short"
<1>2. PICK cut \in {"no", "empty", "short"} :
         /\ mem' = Reconciled(Restored(Rows(cut), Bad(cut)), Recovered)
         /\ stored' = ReconciledThreads(Restored(Rows(cut), Bad(cut)), Recovered)
         /\ torn' = Bad(cut)
         /\ \/ file' = [t \in Threads |->
                          IF Restored(Rows(cut), Bad(cut))[t] # mem'[t] THEN NoRequest
                          ELSE Rows(cut)[t]]
            \/ FileErrors /\ file' = Rows(cut)
    BY DEF Restart
<1>3. Rows(cut) \in {file, NoRows} /\ Bad(cut) \in BOOLEAN
    BY <1>1
<1>4. (torn => Bad(cut)) /\ (Bad(cut) => torn \/ Rows(cut) = NoRows)
    OBVIOUS
<1> HIDE DEF Rows, Bad
<1> QED BY <1>2, <1>3, <1>4

LEMMA StepMemType ==
    ASSUME TypeOK, RefInv, [Next]_vars
    PROVE  mem' \in [Threads -> 0 .. issued']
<1>0. mem \in [Threads -> 0 .. issued'] /\ issued \in Nat /\ issued' \in Nat /\ issued <= issued'
    BY TypeParts, StepGates, GatesAssumption DEF GatesStay, GatesTypeOK, GatesAssumption
<1>1. CASE Take
    BY <1>0, <1>1 DEF Take, TakeVerified, Slot
<1>2. CASE GateInsert
    BY <1>0, <1>2, TypeParts DEF GateInsert, Insert, Slot, RouterTypeOK
<1>3. ASSUME NEW t \in Threads, ClearDiscard(t) PROVE mem' \in [Threads -> 0 .. issued']
    BY <1>0, <1>3 DEF ClearDiscard, Discard, Slot
<1>4. ASSUME NEW w \in Webs, WebDiscard(w) \/ WebInsert(w) PROVE mem' \in [Threads -> 0 .. issued']
    BY <1>0, <1>4, TypeParts DEF WebDiscard, WebInsert, Discard, Insert, Slot, WebTypeOK
<1>5. CASE Restart
    <2>1. PICK rows \in [Threads -> 0 .. issued], bad \in BOOLEAN :
             mem' = Reconciled(Restored(rows, bad), Recovered)
        <3>1. file \in [Threads -> 0 .. issued] /\ NoRows \in [Threads -> 0 .. issued]
            BY <1>0, TypeParts DEF GatesTypeOK, NoRows
        <3> QED BY <1>5, <3>1, RestartFacts
    <2>2. Restored(rows, bad) \in [Threads -> 0 .. issued]
        BY <1>0 DEF Restored
    <2> QED BY <1>0, <2>1, <2>2 DEF Reconciled
<1>6. CASE UNCHANGED mem
    BY <1>0, <1>6
<1> QED BY <1>1, <1>2, <1>3, <1>4, <1>5, <1>6, MemFrame DEF MemChange

LEMMA StepFileType ==
    ASSUME TypeOK, RefInv, [Next]_vars
    PROVE  file' \in [Threads -> 0 .. issued'] /\ torn' \in BOOLEAN
<1>0. /\ file \in [Threads -> 0 .. issued'] /\ torn \in BOOLEAN
      /\ issued \in Nat /\ issued' \in Nat /\ issued <= issued'
    BY TypeParts, StepGates, GatesAssumption DEF GatesStay, GatesTypeOK, GatesAssumption
<1>1. ASSUME NEW rows \in [Threads -> 0 .. issued'], NEW ok \in BOOLEAN, WriteState(rows, ok)
      PROVE  file' \in [Threads -> 0 .. issued'] /\ torn' \in BOOLEAN
    BY <1>0, <1>1 DEF WriteState, FileCutShort, NoRows
<1>2. CASE TakeUnlink \/ ClearUnlink \/ \E w \in Webs : WebUnlink(w)
    <2>1. PICK t \in Threads, ok \in BOOLEAN : RemoveRow(t, ok)
        BY <1>2, TypeParts DEF TakeUnlink, ClearUnlink, WebUnlink, RouterTypeOK, WebTypeOK
    <2>2. [file EXCEPT ![t] = NoRequest] \in [Threads -> 0 .. issued']
        BY <1>0
    <2> QED BY <1>1, <2>1, <2>2 DEF RemoveRow
<1>3. CASE GateSave \/ \E w \in Webs : WebSave(w)
    <2>1. PICK t \in Threads, r \in 0 .. issued, ok \in BOOLEAN : SaveRow(t, r, ok)
        BY <1>3, TypeParts DEF GateSave, WebSave, RouterTypeOK, WebTypeOK
    <2>2. [file EXCEPT ![t] = r] \in [Threads -> 0 .. issued']
        BY <1>0
    <2> QED BY <1>1, <2>1, <2>2 DEF SaveRow
<1>4. CASE Restart
    <2>1. PICK rows \in [Threads -> 0 .. issued] :
             /\ torn' \in BOOLEAN
             /\ \/ \E gates : file' = [t \in Threads |->
                                        IF gates[t] # mem'[t] THEN NoRequest ELSE rows[t]]
                \/ file' = rows
        <3>1. file \in [Threads -> 0 .. issued] /\ NoRows \in [Threads -> 0 .. issued]
            BY <1>0, TypeParts DEF GatesTypeOK, NoRows
        <3> QED BY <1>4, <3>1, RestartFacts
    <2> QED BY <1>0, <2>1
<1>5. CASE UNCHANGED <<file, torn>>
    BY <1>0, <1>5
<1> QED BY <1>2, <1>3, <1>4, <1>5, FileFrame DEF FileChange

LEMMA StepThreadType ==
    ASSUME TypeOK, [Next]_vars
    PROVE  ThreadTypeOK'
<1>0. ThreadTypeOK /\ rt.t \in Threads
    BY TypeParts DEF RouterTypeOK
<1> USE DEF ThreadTypeOK
<1>1. ASSUME NEW t \in Threads, TaskStart(t) PROVE ThreadTypeOK'
    BY <1>0, <1>1 DEF TaskStart, TransitionTo, ThreadState
<1>2. ASSUME NEW t \in Threads, TaskPost(t) \/ TaskEnd(t) PROVE ThreadTypeOK'
    BY <1>0, <1>2 DEF TaskPost, TaskEnd, TransitionTo, ThreadState
<1>3. ASSUME NEW t \in Threads, NEW k \in Outcomes \ {"none"}, NEW n \in BOOLEAN, TaskSettle(t, k, n)
      PROVE  ThreadTypeOK'
    BY <1>0, <1>3 DEF TaskSettle, TransitionTo, ThreadState, Outcome, SettledState
<1>4. ASSUME NEW t \in Threads, Spawn(t) PROVE ThreadTypeOK'
    BY <1>0, <1>4 DEF Spawn, StartThread, ThreadState
<1>5. CASE ResolveNoBackend \/ OrphanFail
    BY <1>0, <1>5 DEF ResolveNoBackend, OrphanFail, FailWaiting, TransitionTo, ThreadState
<1>6. CASE Resume
    BY <1>0, <1>6 DEF Resume, StartThread
<1>7. CASE JoinPosted \/ JoinWait \/ JoinMisses \/ JoinHandle
    <2>1. NoOutcome \in [kind : Outcomes, needs : BOOLEAN]
        BY DEF NoOutcome, Outcome, Outcomes
    <2> QED BY <1>0, <1>7, <2>1 DEF JoinPosted, JoinWait, JoinMisses, JoinHandle
<1>8. CASE Restart
    <2>1. /\ task' = [t \in Threads |-> "none"] /\ out' = [t \in Threads |-> NoOutcome]
          /\ completed' = {} /\ running' = {}
        BY <1>8 DEF Restart
    <2>2. Recovered \in [Threads -> ThreadState \cup {"Absent"}]
        BY <1>0 DEF Recovered, ThreadState
    <2>3. PICK gates : stored' = ReconciledThreads(gates, Recovered)
        BY <1>8 DEF Restart
    <2>4. stored' \in [Threads -> ThreadState \cup {"Absent"}]
        BY <2>2, <2>3 DEF ReconciledThreads, ThreadState
    <2> QED BY <2>1, <2>4 DEF NoOutcome, Outcome, Outcomes
<1>9. CASE UNCHANGED threadVars
    BY <1>0, <1>9
<1> QED BY <1>1, <1>2, <1>3, <1>4, <1>5, <1>6, <1>7, <1>8, <1>9, ThreadFrame
        DEF ThreadChange, TaskNext

LEMMA StepRouterType ==
    ASSUME TypeOK, RefInv, [Next]_vars
    PROVE  RouterTypeOK'
<1>0. /\ RouterTypeOK /\ issued \in Nat /\ issued' \in Nat /\ issued <= issued'
      /\ rt \in [pc : RouterPcs, t : Threads, r : 0 .. issued',
                 res : {"none", "approve", "deny", "credential", "cancel", "callback"}]
      /\ mem \in [Threads -> 0 .. issued] /\ callbacks \subseteq 1 .. issued
      /\ \A r \in 1 .. issued : gate[r].thread \in Threads
    <2>1. issued \in Nat /\ issued' \in Nat /\ issued <= issued'
        BY TypeParts, StepGates, GatesAssumption DEF GatesStay, GatesAssumption
    <2>2. \A r \in 1 .. issued : gate[r].thread \in Threads
        BY TypeParts DEF Gate
    <2> QED BY <2>1, <2>2, TypeParts DEF RouterTypeOK, GatesTypeOK, TypeOK
<1> USE DEF RouterTypeOK, RouterPcs
<1>1. CASE rt' = Idle
    BY <1>0, <1>1, AnyThreadIsOne DEF Idle, At
<1>2. ASSUME NEW pc \in RouterPcs, Goto(pc) PROVE RouterTypeOK'
    BY <1>0, <1>2 DEF Goto
<1>3. ASSUME NEW pc \in RouterPcs, NEW t \in Threads, NEW r \in 0 .. issued',
             NEW res \in {"none", "approve", "deny", "credential", "cancel", "callback"},
             rt' = At(pc, t, r, res)
      PROVE  RouterTypeOK'
    BY <1>3 DEF At
<1>4. CASE UNCHANGED rt
    BY <1>0, <1>4
<1>5. CASE Message
    <2>1. ASSUME NEW t \in Threads, Spawn(t) \/ Inject(t) \/ OrphanPeek(t) PROVE RouterTypeOK'
        BY <1>0, <1>3, <2>1 DEF Spawn, Inject, Await, OrphanPeek
    <2>2. ASSUME NEW t \in Threads, NEW res \in {"approve", "deny", "credential", "cancel"},
                 Select(t, res)
          PROVE  RouterTypeOK'
        BY <1>0, <1>3, <2>2 DEF Select
    <2>3. ASSUME NEW r \in callbacks, HandleCallback(r) PROVE RouterTypeOK'
        BY <1>0, <1>3, <1>4, <2>3 DEF HandleCallback
    <2>4. CASE ClearBegin
        BY <1>2, <2>4 DEF ClearBegin
    <2> QED BY <1>5, <2>1, <2>2, <2>3, <2>4 DEF Message
<1>6. CASE RouterNext
    <2>0. rt.t \in Threads /\ 0 \in 0 .. issued'
        BY <1>0
    <2>1. CASE Take \/ TakeUnlink
        BY <1>1, <1>2, <2>1 DEF Take, TakeUnlink, Return
    <2>2. CASE ResolveApproved \/ ResolveDenied \/ ResolveCancelled \/ ResolveReady
        BY <1>1, <1>2, <1>3, <2>0, <2>2
        DEF ResolveApproved, ResolveDenied, ResolveCancelled, ResolveReady, Return, ToResume
    <2>3. CASE ResolveRequeued
        <3>1. rt.r \in 1 .. issued
            BY <1>0, <2>3 DEF ResolveRequeued, Resolving, RefInv, OnGate
        <3>2. issued' = issued + 1 /\ rt' = At("insert", gate[rt.r].thread, issued + 1, "none")
            BY <2>3 DEF ResolveRequeued, Requeue, Build, NextRequest
        <3>3. issued + 1 \in 0 .. issued' /\ gate[rt.r].thread \in Threads
            BY <1>0, <3>1, <3>2
        <3> QED BY <1>3, <3>2, <3>3
    <2>4. CASE ResolveNoBackend \/ ResolveError \/ ExecFails \/ GateSave \/ OrphanFail \/ ClearDone
        BY <1>1, <2>4 DEF ResolveNoBackend, ResolveError, ExecFails, GateSave, OrphanFail, ClearDone,
            Return
    <2>5. CASE ExecRuns \/ Resume
        BY <1>1, <1>3, <2>0, <2>5 DEF ExecRuns, Resume, Return, Await, ToResume
    <2>6. ASSUME NEW k \in PauseKinds, ExecPauses(k) PROVE RouterTypeOK'
        <3>1. issued' = issued + 1 /\ rt' = At("insert", rt.t, issued + 1, "none")
            BY <2>6 DEF ExecPauses, Build, NextRequest
        <3>2. issued + 1 \in 0 .. issued'
            BY <1>0, <3>1
        <3> QED BY <1>3, <2>0, <3>1, <3>2
    <2>7. CASE AwaitEnd \/ AwaitDeadline \/ JoinLook \/ JoinWait \/ JoinMisses \/ InjectedEnd
        BY <1>1, <1>2, <2>7
        DEF AwaitEnd, AwaitDeadline, JoinLook, JoinWait, JoinMisses, InjectedEnd, Return
    <2>8. CASE JoinPosted \/ JoinHandle
        <3>1. \/ issued' = issued + 1 /\ rt' = At("insert", rt.t, issued + 1, "none")
              \/ rt' = Idle
            BY <2>8 DEF JoinPosted, JoinHandle, Collect, Build, NextRequest, Return
        <3>2. issued' = issued + 1 => issued + 1 \in 0 .. issued'
            BY <1>0
        <3> QED BY <1>1, <1>3, <2>0, <3>1, <3>2
    <2>9. CASE GateInsert
        BY <1>1, <1>2, <2>9 DEF GateInsert, Return
    <2>10. CASE ClearUnlink \/ \E t \in Threads : ClearDiscard(t)
        BY <1>3, <1>4, <2>0, <2>10, AnyThreadIsOne DEF ClearUnlink, ClearDiscard
    <2> QED BY <1>6, <2>1, <2>2, <2>3, <2>4, <2>5, <2>6, <2>7, <2>8, <2>9, <2>10 DEF RouterNext
<1>7. CASE Restart
    BY <1>1, <1>7 DEF Restart
<1> QED BY <1>4, <1>5, <1>6, <1>7, RouterFrame

LEMMA StepWebType ==
    ASSUME TypeOK, RefInv, [Next]_vars
    PROVE  WebTypeOK'
<1>0. /\ webs \in [Webs -> [pc : {"idle", "discard", "unlink", "build", "insert", "save"},
                            op : {"none", "clear", "replay", "pair"},
                            t : Threads, r : 0 .. issued']]
      /\ issued \in Nat /\ issued' \in Nat /\ issued <= issued' /\ mem \in [Threads -> 0 .. issued]
    BY TypeParts, StepGates, GatesAssumption
    DEF GatesStay, WebTypeOK, GatesTypeOK, GatesAssumption
<1> USE DEF WebTypeOK
<1>1. ASSUME NEW w \in Webs, WebReturn(w) PROVE WebTypeOK'
    BY <1>0, <1>1, AnyThreadIsOne DEF WebReturn, WebIdle, WebAt
<1>2. ASSUME NEW w \in Webs, NEW pc \in {"unlink", "build", "save"}, WebGoto(w, pc) PROVE WebTypeOK'
    BY <1>0, <1>2 DEF WebGoto
<1>3. ASSUME NEW w \in Webs, NEW op \in {"clear", "replay", "pair"}, NEW t \in Threads,
             WebList(w, op, t)
      PROVE  WebTypeOK'
    BY <1>0, <1>3 DEF WebList, WebAt
<1>4. ASSUME NEW w \in Webs, WebBuild(w) PROVE WebTypeOK'
    <2>1. issued' = issued + 1 /\ issued' \in 0 .. issued'
        BY <1>0, <1>4 DEF WebBuild, Build, NextRequest
    <2> QED BY <1>0, <1>4, <2>1 DEF WebBuild, WebAt, NextRequest
<1>5. ASSUME NEW w \in Webs, WebDiscard(w) \/ WebUnlink(w) \/ WebInsert(w) \/ WebSave(w)
      PROVE  WebTypeOK'
    BY <1>1, <1>2, <1>5 DEF WebDiscard, WebDiscardMissing, WebUnlink, WebInsert, WebSave
<1>6. CASE Restart
    BY <1>0, <1>6, AnyThreadIsOne DEF Restart, WebIdle, WebAt
<1>7. CASE UNCHANGED webs
    BY <1>0, <1>7
<1> QED BY <1>3, <1>4, <1>5, <1>6, <1>7, WebFrame DEF WebStep

LEMMA StepTypeOK ==
    ASSUME TypeOK, RefInv, [Next]_vars
    PROVE  TypeOK'
<1>0. issued \in Nat /\ issued' \in 0 .. MaxRequests /\ issued <= issued' /\ rt.r \in 0 .. issued
    BY TypeParts, StepGates, GatesAssumption DEF GatesStay, GatesAssumption, RouterTypeOK
<1>1. gate' \in [1 .. issued' -> Gate]
    BY StepGates DEF GatesStay
<1>2. expired' \subseteq 1 .. issued'
    <2>1. expired \subseteq 1 .. issued'
        BY <1>0 DEF TypeOK, GatesTypeOK
    <2>2. ASSUME NEW r \in Requests, GateExpires(r) PROVE expired' \subseteq 1 .. issued'
        BY <1>0, <2>1, <2>2 DEF GateExpires, Expire
    <2>3. CASE ~ \E r \in Requests : GateExpires(r)
        <3>1. UNCHANGED expired
            BY <2>3 DEF Next, vars, TaskNext, Message, RouterNext, WebNext, Restart,
                TaskStart, TaskSettle, TaskPost, TaskEnd, Spawn, Inject, OrphanPeek, Select,
                HandleCallback, ClearBegin,
                Take, TakeUnlink, ResolveApproved, ResolveDenied, ResolveCancelled, ResolveReady,
                ResolveRequeued, ResolveNoBackend, ResolveError, ExecRuns, ExecFails, ExecPauses,
                Resume, AwaitEnd, AwaitDeadline, JoinPosted, JoinLook, JoinWait, JoinMisses,
                JoinHandle, InjectedEnd, GateInsert,
                GateSave, OrphanFail, ClearDiscard, ClearUnlink, ClearDone,
                WebList, WebDiscard, WebUnlink, WebBuild, WebInsert, WebSave, WebCallback
        <3> QED BY <2>1, <3>1
    <2> QED BY <2>2, <2>3
<1>3. GatesTypeOK'
    BY <1>0, <1>1, <1>2, StepMemType, StepFileType DEF GatesTypeOK
<1>4. active' \subseteq Threads /\ todo' \subseteq Threads
    <2>1. active \subseteq Threads /\ todo \subseteq Threads /\ rt.t \in Threads
        BY TypeParts DEF TypeOK, RouterTypeOK
    <2>2. CASE Message
        BY <2>1, <2>2 DEF Message, Spawn, Inject, OrphanPeek, Select, HandleCallback, ClearBegin
    <2>3. CASE RouterNext
        BY <2>1, <2>3 DEF RouterNext, Take, TakeUnlink, ResolveApproved, ResolveDenied,
            ResolveCancelled, ResolveReady, ResolveRequeued, ResolveNoBackend, ResolveError,
            ExecRuns, ExecFails, ExecPauses, Resume, AwaitEnd, AwaitDeadline, JoinPosted,
            JoinLook, JoinWait, JoinMisses, InjectedEnd,
            JoinHandle, Collect, GateInsert, GateSave, OrphanFail, ClearDiscard, ClearUnlink,
            ClearDone
    <2>4. CASE Restart
        BY <2>1, <2>4 DEF Restart
    <2> QED BY <2>1, <2>2, <2>3, <2>4, RouterFrame
<1>5. callbacks' \subseteq 1 .. issued'
    <2>1. callbacks \subseteq 1 .. issued'
        BY <1>0 DEF TypeOK
    <2>2. CASE \E r \in callbacks : HandleCallback(r)
        BY <2>1, <2>2 DEF HandleCallback
    <2>3. CASE \E r \in 1 .. issued : WebCallback(r)
        BY <1>0, <2>3 DEF WebCallback
    <2>4. CASE Restart
        BY <2>4 DEF Restart
    <2>5. CASE UNCHANGED callbacks
        BY <2>1, <2>5
    <2> QED BY <2>2, <2>3, <2>4, <2>5
            DEF Next, vars, TaskNext, Message, RouterNext, WebNext, GateExpires,
                TaskStart, TaskSettle, TaskPost, TaskEnd, Spawn, Inject, OrphanPeek, Select,
                ClearBegin,
                Take, TakeUnlink, ResolveApproved, ResolveDenied, ResolveCancelled, ResolveReady,
                ResolveRequeued, ResolveNoBackend, ResolveError, ExecRuns, ExecFails, ExecPauses,
                Resume, AwaitEnd, AwaitDeadline, JoinPosted, JoinLook, JoinWait, JoinMisses,
                JoinHandle, InjectedEnd, GateInsert,
                GateSave, OrphanFail, ClearDiscard, ClearUnlink, ClearDone,
                WebList, WebDiscard, WebUnlink, WebBuild, WebInsert, WebSave
<1>6. boots' \in 0 .. MaxRestarts
    <2>1. CASE Restart
        BY <2>1, RouterAssumption DEF Restart, TypeOK, RouterAssumption
    <2>2. CASE ~Restart
        <3>1. UNCHANGED boots
            BY <2>2 DEF Next, vars, TaskNext, Message, RouterNext, WebNext, GateExpires,
                TaskStart, TaskSettle, TaskPost, TaskEnd, Spawn, Inject, OrphanPeek, Select,
                HandleCallback, ClearBegin,
                Take, TakeUnlink, ResolveApproved, ResolveDenied, ResolveCancelled, ResolveReady,
                ResolveRequeued, ResolveNoBackend, ResolveError, ExecRuns, ExecFails, ExecPauses,
                Resume, AwaitEnd, AwaitDeadline, JoinPosted, JoinLook, JoinWait, JoinMisses,
                JoinHandle, InjectedEnd, GateInsert,
                GateSave, OrphanFail, ClearDiscard, ClearUnlink, ClearDone,
                WebList, WebDiscard, WebUnlink, WebBuild, WebInsert, WebSave, WebCallback
        <3> QED BY <3>1 DEF TypeOK
    <2> QED BY <2>1, <2>2
<1>7. approved' \subseteq Requests /\ ran' \subseteq Requests
    <2>0. approved \subseteq Requests /\ ran \subseteq Requests
        BY DEF TypeOK
    <2>1. rt.pc \in OnGate => gate[rt.r].call \in Requests
        BY <1>0, TypeParts DEF RefInv, Gate
    <2>2. CASE ResolveApproved \/ ExecRuns \/ \E k \in PauseKinds : ExecPauses(k)
        BY <2>0, <2>1, <2>2 DEF ResolveApproved, Resolving, ExecRuns, ExecPauses, OnGate
    <2>3. CASE Restart
        BY <2>0, <2>3 DEF Restart
    <2> QED BY <2>0, <2>2, <2>3, HistoryFrame DEF HistoryChange
<1> QED BY <1>3, <1>4, <1>5, <1>6, <1>7, StepThreadType, StepRouterType, StepWebType
        DEF TypeOK, ThreadTypeOK, RouterTypeOK, WebTypeOK

(***************************************************************************)
(* Gates and their threads.                                                *)
(***************************************************************************)
LEMMA StepCalls ==
    ASSUME TypeOK, RefInv, [Next]_vars
    PROVE  \A r \in 1 .. issued' : /\ gate'[r].call <= r
                                   /\ gate'[gate'[r].call].thread = gate'[r].thread
<1>0. /\ GatesStay /\ issued \in Nat
      /\ \A r \in 1 .. issued : gate[r].call \in 1 .. r /\ gate[r].call \in 1 .. issued
    BY TypeParts, StepGates DEF RefInv, Gate, Requests
<1> DEFINE Linked(r) == /\ gate'[r].call <= r
                        /\ gate'[gate'[r].call].thread = gate'[r].thread
<1>1. ASSUME NEW r \in 1 .. issued PROVE Linked(r)
    BY <1>0 DEF GatesStay, RefInv
<1>2. ASSUME NEW q \in 1 .. issued, NEW kinds, NEW g,
             Builds(gate[q].thread, kinds, gate[q].call, g)
      PROVE  issued' = issued + 1 /\ Linked(issued')
    BY <1>0, <1>2 DEF Builds, GatesStay, RefInv
<1>3. CASE UNCHANGED issued
    BY <1>1, <1>3
<1>4. ASSUME issued' = issued + 1, Linked(issued') PROVE \A r \in 1 .. issued' : Linked(r)
    BY <1>0, <1>1, <1>4
<1> HIDE DEF Linked
<1>5. CASE ResolveRequeued
    <2>1. rt.r \in 1 .. issued /\ gate[rt.r].thread = rt.t
        BY <1>5, TypeParts DEF ResolveRequeued, Resolving, RefInv, OnGate, RouterTypeOK
    <2> QED BY <1>2, <1>4, <1>5, <2>1, RequeueBuilds DEF Linked
<1>6. ASSUME NEW k \in PauseKinds, ExecPauses(k) PROVE \A r \in 1 .. issued' : Linked(r)
    <2>1. rt.r \in 1 .. issued /\ gate[rt.r].thread = rt.t
        BY <1>6, TypeParts DEF ExecPauses, RefInv, OnGate, RouterTypeOK
    <2>2. issued' = issued + 1 /\ Linked(issued')
        BY <1>2, <1>6, <2>1, PauseBuilds
    <2> QED BY <1>4, <2>2
<1>7. CASE JoinPosted \/ JoinHandle
    <2>1. CASE UNCHANGED <<gate, issued>>
        BY <1>3, <2>1 DEF Linked
    <2>2. CASE Builds(rt.t, {Reported(out[rt.t].kind)}, issued + 1, FALSE)
        <3>1. issued' = issued + 1 /\ Linked(issued')
            BY <1>0, <2>2 DEF Builds, Linked
        <3> QED BY <1>4, <3>1 DEF Linked
    <2> QED BY <1>7, <2>1, <2>2, CollectBuilds
<1>8. ASSUME NEW w \in Webs, WebBuild(w) PROVE \A r \in 1 .. issued' : Linked(r)
    <2>1. webs[w].r \in 1 .. issued /\ gate[webs[w].r].thread = webs[w].t
        BY <1>8, TypeParts DEF WebBuild, RefInv, WebTypeOK
    <2>2. issued' = issued + 1 /\ Linked(issued')
        BY <1>2, <1>8, <2>1, WebBuilds
    <2> QED BY <1>4, <2>2
<1>9. CASE Restart
    BY <1>3, <1>9 DEF Restart, Linked
<1> QED BY <1>3, <1>5, <1>6, <1>7, <1>8, <1>9, GateFrame DEF GateChange, Linked

\* What the store's memory, or the file, holds after a step it held before, or it
\* is the gate the router or a web request puts there.
MemMoves ==
    \A t \in Threads :
        \/ mem'[t] \in {NoRequest, mem[t], file[t]}
        \/ rt.pc = "insert" /\ mem'[t] = rt.r /\ t = rt.t
        \/ \E w \in Webs : webs[w].pc = "insert" /\ mem'[t] = webs[w].r /\ t = webs[w].t

FileMoves ==
    \A t \in Threads :
        \/ file'[t] \in {NoRequest, file[t]}
        \/ rt.pc = "save" /\ file'[t] = rt.r /\ t = rt.t
        \/ \E w \in Webs : webs[w].pc = "save" /\ file'[t] = webs[w].r /\ t = webs[w].t

LEMMA StepMem ==
    ASSUME TypeOK, [Next]_vars
    PROVE  MemMoves
<1>0. mem \in [Threads -> 0 .. issued] /\ file \in [Threads -> 0 .. issued]
    BY TypeParts DEF GatesTypeOK
<1> USE DEF MemMoves
<1>1. CASE Take \/ GateInsert
    BY <1>0, <1>1 DEF Take, TakeVerified, GateInsert, Insert, Slot
<1>2. ASSUME NEW t \in Threads, ClearDiscard(t) PROVE MemMoves
    BY <1>0, <1>2 DEF ClearDiscard, Discard, Slot
<1>3. ASSUME NEW w \in Webs, WebDiscard(w) \/ WebInsert(w) PROVE MemMoves
    BY <1>0, <1>3 DEF WebDiscard, WebInsert, Discard, Insert, Slot
<1>4. CASE Restart
    <2>1. PICK rows \in {file, NoRows}, bad \in BOOLEAN :
             mem' = Reconciled(Restored(rows, bad), Recovered)
        BY <1>4, RestartFacts
    <2> QED BY <1>0, <2>1 DEF Reconciled, Restored, NoRows
<1>5. CASE UNCHANGED mem
    BY <1>5
<1> QED BY <1>1, <1>2, <1>3, <1>4, <1>5, MemFrame DEF MemChange

LEMMA StepFile ==
    ASSUME TypeOK, [Next]_vars
    PROVE  FileMoves
<1>0. file \in [Threads -> 0 .. issued]
    BY TypeParts DEF GatesTypeOK
<1> USE DEF FileMoves
<1>1. ASSUME NEW t \in Threads, NEW ok \in BOOLEAN, RemoveRow(t, ok) PROVE FileMoves
    BY <1>0, <1>1 DEF RemoveRow, WriteState, FileCutShort, NoRows
<1>2. ASSUME NEW t \in Threads, NEW r, NEW ok \in BOOLEAN, SaveRow(t, r, ok)
      PROVE  \A u \in Threads : file'[u] \in {NoRequest, file[u]} \/ (file'[u] = r /\ u = t)
    <2>1. file' \in {file, NoRows} \/ file' = [file EXCEPT ![t] = r]
        BY <1>2 DEF SaveRow, WriteState, FileCutShort
    <2> QED BY <1>0, <2>1 DEF NoRows
<1>3. CASE TakeUnlink \/ ClearUnlink \/ \E w \in Webs : WebUnlink(w)
    BY <1>1, <1>3, TypeParts DEF TakeUnlink, ClearUnlink, WebUnlink, RouterTypeOK, WebTypeOK
<1>4. CASE GateSave
    BY <1>2, <1>4, TypeParts DEF GateSave, RouterTypeOK
<1>5. ASSUME NEW w \in Webs, WebSave(w) PROVE FileMoves
    BY <1>2, <1>5, TypeParts DEF WebSave, WebTypeOK
<1>6. CASE Restart
    <2>1. PICK rows \in {file, NoRows}, bad \in BOOLEAN :
             \/ file' = [t \in Threads |->
                           IF Restored(rows, bad)[t] # mem'[t] THEN NoRequest ELSE rows[t]]
             \/ FileErrors /\ file' = rows
        BY <1>6, RestartFacts
    <2> QED BY <1>0, <2>1 DEF NoRows
<1>7. CASE UNCHANGED <<file, torn>>
    BY <1>7
<1> QED BY <1>3, <1>4, <1>5, <1>6, <1>7, FileFrame DEF FileChange

(***************************************************************************)
(* Where the router and the web requests come from.                        *)
(***************************************************************************)
Answering == {"take", "unlink", "resolved", "exec"}

RouterMoves ==
    /\ rt'.pc \in OnGate =>
          \/ rt.pc \in OnGate /\ rt'.r = rt.r /\ rt'.t = rt.t
          \/ rt'.pc = "take" /\ rt.pc = "idle" /\ IsLive(rt'.t) /\ rt'.r = mem[rt'.t]
          \/ /\ rt'.pc = "insert" /\ rt.pc \in {"resolved", "exec"} \cup Joining
             /\ rt'.t = rt.t /\ rt'.r = issued' /\ issued' = issued + 1
    /\ rt'.pc \in Answering =>
          \/ rt'.pc = "take" /\ rt.pc = "idle"
          \/ rt.pc \in Answering /\ rt'.r = rt.r /\ rt'.res = rt.res
    /\ rt'.pc \in Holding =>
          \/ rt.pc \in Holding /\ rt'.t = rt.t
          \/ /\ rt.pc = "take" /\ rt'.pc = "unlink" /\ rt'.t = rt.t
             /\ IsLive(rt.t) /\ mem[rt.t] = rt.r /\ mem'[rt.t] = NoRequest
          \/ \E t \in Threads : Spawn(t) /\ rt'.t = t
    /\ rt.pc \in Joining =>
          \/ rt'.pc \in Joining /\ rt'.t = rt.t
          \/ JoinPosted \/ JoinMisses \/ JoinHandle \/ Restart
    /\ rt.pc = "joining" => UNCHANGED rt \/ JoinHandle \/ Restart
    /\ rt'.pc = "injected" => UNCHANGED rt \/ \E t \in Threads : Inject(t)
    /\ rt'.pc = "save" => rt.pc \in {"insert", "save"}
    /\ rt'.pc = "orphan" => UNCHANGED rt \/ \E t \in Threads : OrphanPeek(t) /\ rt'.t = t

LEMMA StepRouter ==
    ASSUME TypeOK, RefInv, TaskInv, [Next]_vars
    PROVE  RouterMoves
<1>0. /\ rt \in [pc : RouterPcs, t : Threads, r : 0 .. issued,
                 res : {"none", "approve", "deny", "credential", "cancel", "callback"}]
      /\ mem \in [Threads -> 0 .. issued] /\ callbacks \subseteq 1 .. issued
      /\ \A r \in 1 .. issued : gate[r].thread \in Threads
    BY TypeParts DEF RouterTypeOK, GatesTypeOK, TypeOK, Gate
<1> USE <1>0 DEF RouterMoves, OnGate, Holding, Joining, Answering
<1>1. ASSUME rt.pc \notin Joining, rt'.pc \notin OnGate \cup Holding \cup {"orphan", "injected"}
      PROVE  RouterMoves
    BY <1>1
<1>2. CASE UNCHANGED rt
    BY <1>2
<1>3. CASE Message
    <2>1. ASSUME NEW t \in Threads, Spawn(t) PROVE RouterMoves
        BY <2>1 DEF Spawn, Await, At, Idle
    <2>2. ASSUME NEW t \in Threads, OrphanPeek(t) PROVE RouterMoves
        <3>1. rt.pc = "idle" /\ rt'.pc = "orphan" /\ rt'.t = t
            BY <2>2 DEF OrphanPeek, At, Idle
        <3> QED BY <2>2, <3>1
    <2>3. ASSUME NEW t \in Threads, NEW res \in {"approve", "deny", "credential", "cancel"},
                 Select(t, res)
          PROVE  RouterMoves
        BY <2>3 DEF Select, At, Idle
    <2>4. ASSUME NEW r \in callbacks, HandleCallback(r) PROVE RouterMoves
        BY <2>4 DEF HandleCallback, LiveOfKind, At, Idle
    <2>5. CASE ClearBegin
        BY <2>5, <1>1 DEF ClearBegin, Goto, At, Idle
    <2>6. ASSUME NEW t \in Threads, Inject(t) PROVE RouterMoves
        BY <2>6 DEF Inject, At, Idle
    <2> QED BY <1>3, <2>1, <2>2, <2>3, <2>4, <2>5, <2>6 DEF Message
<1>4. CASE RouterNext
    <2>1. CASE Take
        <3>1. CASE rt' = Idle
            BY <2>1, <3>1 DEF Take, Idle, At
        <3>2. CASE rt' # Idle
            <4>1. rt.pc = "take" /\ mem[rt.t] = rt.r /\ rt.r \notin expired
                BY <2>1, <3>2 DEF Take, Takes, Return
            <4>2. mem' = [mem EXCEPT ![rt.t] = NoRequest] /\ rt' = [rt EXCEPT !.pc = "unlink"]
                BY <2>1, <3>2, <4>1 DEF Take, Return, Goto, TakeVerified, Slot
            <4>3. rt'.pc = "unlink" /\ rt'.t = rt.t /\ rt'.r = rt.r /\ rt'.res = rt.res
                BY <4>2
            <4>4. IsLive(rt.t) /\ mem'[rt.t] = NoRequest
                BY <4>1, <4>2 DEF IsLive, RefInv
            <4> QED BY <4>1, <4>3, <4>4
        <3> QED BY <3>1, <3>2
    <2>2. CASE TakeUnlink \/ ResolveApproved \/ ResolveDenied \/ ResolveCancelled \/ ResolveReady
               \/ ResolveNoBackend \/ ResolveError \/ ExecRuns \/ ExecFails \/ Resume
        BY <2>2 DEF TakeUnlink, Resolving, ResolveApproved, ResolveDenied, ResolveCancelled,
            ResolveReady, ResolveNoBackend, ResolveError, ExecRuns, ExecFails, Resume, ToResume,
            Await, Goto, Return, Idle, At
    <2>3. CASE ResolveRequeued
        BY <2>3 DEF ResolveRequeued, Requeue, Resolving, RefInv, Build, NextRequest, At
    <2>4. ASSUME NEW k \in PauseKinds, ExecPauses(k) PROVE RouterMoves
        BY <2>4 DEF ExecPauses, Build, NextRequest, At
    <2>5. CASE AwaitEnd \/ AwaitDeadline \/ JoinLook \/ JoinWait
        BY <2>5 DEF AwaitEnd, AwaitDeadline, JoinLook, JoinWait, Goto
    <2>6. CASE JoinPosted \/ JoinMisses \/ JoinHandle
        BY <2>6 DEF JoinPosted, JoinMisses, JoinHandle, Collect, Build, NextRequest, Return, Idle, At
    <2>7. CASE GateInsert \/ GateSave \/ OrphanFail \/ ClearUnlink \/ ClearDone
               \/ \E t \in Threads : ClearDiscard(t)
        BY <2>7 DEF GateInsert, GateSave, OrphanFail, ClearUnlink, ClearDone, ClearDiscard,
            Goto, Return, Idle, At
    <2>8. CASE InjectedEnd
        BY <2>8 DEF InjectedEnd, TaskInv, Return, Idle, At
    <2> QED BY <1>4, <2>1, <2>2, <2>3, <2>4, <2>5, <2>6, <2>7, <2>8 DEF RouterNext
<1>5. CASE Restart
    BY <1>5 DEF Restart, Idle, At
<1> QED BY <1>2, <1>3, <1>4, <1>5, RouterFrame

WebMoves ==
    \A w \in Webs :
        /\ webs'[w].pc # "idle" =>
              \/ webs'[w].pc = "discard" /\ webs'[w].r = mem[webs'[w].t]
                 /\ webs'[w].r # NoRequest
              \/ /\ webs'[w].pc # "discard" \/ webs[w].pc = "discard"
                 /\ webs[w].pc # "idle" /\ webs'[w].t = webs[w].t /\ webs'[w].r = webs[w].r
              \/ /\ webs[w].pc = "build" /\ webs'[w].pc = "insert" /\ webs'[w].t = webs[w].t
                 /\ webs'[w].r = issued' /\ WebBuild(w)
        /\ webs'[w].pc \in {"insert", "save"} =>
              \/ WebBuild(w) /\ webs'[w].r = issued'
              \/ webs[w].pc \in {"insert", "save"} /\ webs'[w].r = webs[w].r
        /\ WebHolds(w)' =>
              \/ WebHolds(w) /\ webs'[w].t = webs[w].t
              \/ WebDiscard(w) /\ webs'[w].t = webs[w].t
                 /\ mem[webs[w].t] # NoRequest /\ mem'[webs[w].t] = NoRequest

LEMMA StepWebs ==
    ASSUME TypeOK, [Next]_vars
    PROVE  WebMoves
<1>0. /\ webs \in [Webs -> [pc : {"idle", "discard", "unlink", "build", "insert", "save"},
                            op : {"none", "clear", "replay", "pair"},
                            t : Threads, r : 0 .. issued]]
      /\ mem \in [Threads -> 0 .. issued]
    BY TypeParts DEF WebTypeOK, GatesTypeOK
<1> USE <1>0 DEF WebMoves, WebHolds
<1>1. ASSUME NEW v \in Webs, WebReturn(v) PROVE WebMoves
    BY <1>1 DEF WebReturn, WebIdle, WebAt
<1>2. ASSUME NEW v \in Webs, NEW op \in {"clear", "replay", "pair"}, NEW t \in Threads,
             WebList(v, op, t)
      PROVE  WebMoves
    BY <1>2 DEF WebList, LiveOfKind, IsLive, WebAt
<1>3. ASSUME NEW v \in Webs, WebDiscard(v) PROVE WebMoves
    <2>1. CASE WebGoto(v, "unlink") /\ Discard(webs[v].t)
        <3>1. webs[v].pc = "discard"
            BY <1>3 DEF WebDiscard
        <3> QED BY <1>3, <2>1, <3>1 DEF WebGoto, Discard, Discards, Slot
    <2> QED BY <1>1, <1>3, <2>1 DEF WebDiscard, WebDiscardMissing
<1>4. ASSUME NEW v \in Webs, WebUnlink(v) PROVE WebMoves
    BY <1>1, <1>4 DEF WebUnlink, WebGoto
<1>5. ASSUME NEW v \in Webs, WebBuild(v) PROVE WebMoves
    <2>1. webs[v].pc = "build" /\ issued' = issued + 1
          /\ webs' = [webs EXCEPT ![v] = WebAt("insert", webs[v].op, webs[v].t, issued')]
        BY <1>5 DEF WebBuild, Build, NextRequest
    <2> QED BY <1>5, <2>1 DEF WebAt
<1>6. ASSUME NEW v \in Webs, WebInsert(v) PROVE WebMoves
    BY <1>1, <1>6 DEF WebInsert, WebGoto
<1>7. ASSUME NEW v \in Webs, WebSave(v) PROVE WebMoves
    BY <1>1, <1>7 DEF WebSave
<1>8. CASE Restart
    BY <1>8 DEF Restart, WebIdle, WebAt
<1>9. CASE UNCHANGED webs
    BY <1>9
<1> QED BY <1>2, <1>3, <1>4, <1>5, <1>6, <1>7, <1>8, <1>9, WebFrame DEF WebStep

LEMMA StepRefInv ==
    ASSUME TypeOK, RefInv, TaskInv, [Next]_vars
    PROVE  RefInv'
<1>0. /\ GatesStay /\ issued \in Nat /\ issued' \in Nat /\ issued <= issued'
      /\ mem \in [Threads -> 0 .. issued] /\ file \in [Threads -> 0 .. issued]
      /\ rt.r \in 0 .. issued /\ rt.t \in Threads
      /\ \A w \in Webs : webs[w].r \in 0 .. issued /\ webs[w].t \in Threads
    BY TypeParts, StepGates, GatesAssumption
    DEF GatesStay, GatesTypeOK, RouterTypeOK, WebTypeOK, GatesAssumption
<1>1. \A r \in 0 .. issued : r # NoRequest => r \in 1 .. issued /\ gate'[r].thread = gate[r].thread
    BY <1>0 DEF GatesStay
<1>2. ASSUME NEW t \in Threads, mem'[t] # NoRequest PROVE gate'[mem'[t]].thread = t
    BY <1>0, <1>1, <1>2, StepMem DEF MemMoves, RefInv, OnGate
<1>3. ASSUME NEW t \in Threads, file'[t] # NoRequest PROVE gate'[file'[t]].thread = t
    BY <1>0, <1>1, <1>3, StepFile DEF FileMoves, RefInv, OnGate
<1>4. ASSUME rt'.pc \in OnGate PROVE rt'.r # NoRequest /\ gate'[rt'.r].thread = rt'.t
    <2>1. CASE rt.pc \in OnGate /\ rt'.r = rt.r /\ rt'.t = rt.t
        BY <1>0, <1>1, <2>1 DEF RefInv
    <2>2. CASE IsLive(rt'.t) /\ rt'.r = mem[rt'.t]
        <3>1. rt'.t \in Threads
            BY StepRouterType DEF RouterTypeOK
        <3> QED BY <1>0, <1>1, <2>2, <3>1 DEF RefInv, IsLive
    <2>3. CASE /\ rt.pc \in {"resolved", "exec"} \cup Joining
               /\ rt'.t = rt.t /\ rt'.r = issued' /\ issued' = issued + 1
        <3>1. rt' # rt
            BY <1>0, <2>3
        <3>2. CASE ResolveRequeued
            BY <1>0, <2>3, <3>2, RequeueBuilds DEF Builds
        <3>3. ASSUME NEW k \in PauseKinds, ExecPauses(k) PROVE gate'[rt'.r].thread = rt'.t
            BY <2>3, <3>3, PauseBuilds DEF Builds
        <3>4. CASE JoinPosted \/ JoinHandle
            BY <1>0, <2>3, <3>4, CollectBuilds DEF Builds
        <3>5. \A w \in Webs : ~WebBuild(w)
            BY <3>1 DEF WebBuild
        <3> QED BY <1>0, <2>3, <3>2, <3>3, <3>4, <3>5, GateFrame DEF GateChange, Restart
    <2> QED BY <1>4, <2>1, <2>2, <2>3, StepRouter DEF RouterMoves

<1>5. ASSUME NEW w \in Webs, webs'[w].pc # "idle"
      PROVE  webs'[w].r # NoRequest /\ gate'[webs'[w].r].thread = webs'[w].t
    <2>1. CASE webs'[w].r = mem[webs'[w].t] /\ webs'[w].r # NoRequest
        <3>1. webs'[w].t \in Threads
            BY StepWebType DEF WebTypeOK
        <3> QED BY <1>0, <1>1, <2>1, <3>1 DEF RefInv
    <2>2. CASE webs[w].pc # "idle" /\ webs'[w].t = webs[w].t /\ webs'[w].r = webs[w].r
        BY <1>0, <1>1, <2>2 DEF RefInv
    <2>3. CASE webs'[w].t = webs[w].t /\ webs'[w].r = issued' /\ WebBuild(w)
        BY <1>0, <2>3, WebBuilds DEF Builds
    <2> QED BY <1>5, <2>1, <2>2, <2>3, StepWebs DEF WebMoves
<1> QED BY <1>2, <1>3, <1>4, <1>5, StepCalls DEF RefInv

(***************************************************************************)
(* One thread at a time.                                                   *)
(***************************************************************************)
\* An executing thread was spawned: only then does the router wait for it.
LEMMA StepTaskInv ==
    ASSUME TypeOK, TaskInv, TokenInv, [Next]_vars, RouterMoves
    PROVE  TaskInv'
<1>0. /\ task \in [Threads -> {"none", "starting", "executing", "ending", "posted"}]
      /\ stored \in [Threads -> ThreadState \cup {"Absent"}]
      /\ out \in [Threads -> [kind : Outcomes, needs : BOOLEAN]]
      /\ completed \subseteq Threads /\ rt.t \in Threads
      /\ "Absent" \notin ThreadState
    BY TypeParts DEF ThreadTypeOK, RouterTypeOK, ThreadState
<1> USE <1>0 DEF Missed, Executing
<1>1. ASSUME NEW t \in Threads, TaskStart(t) PROVE TaskInv'
    BY <1>1 DEF TaskInv, TaskStart, TransitionTo
<1>2. ASSUME NEW t \in Threads, TaskPost(t) PROVE TaskInv'
    <2>1. /\ task' = [task EXCEPT ![t] = "posted"] /\ completed' = completed \cup {t}
          /\ task[t] = "ending" /\ UNCHANGED <<running, out, rt>>
          /\ stored' \in {stored, [stored EXCEPT ![t] = "Done"]}
          /\ stored' # stored => stored[t] = "Completed"
        BY <1>2 DEF TaskPost, TransitionTo
    <2>2. rt.pc \in Joining /\ rt.t = t /\ stored[t] # "Absent" /\ stored'[t] # "Absent"
        BY <2>1 DEF TaskInv, TokenInv, Holding
    <2>3. rt.pc # "injected"
        BY <2>2 DEF Joining
    <2> QED BY <2>1, <2>2, <2>3 DEF TaskInv, PauseKinds
<1>3. ASSUME NEW t \in Threads, TaskEnd(t) PROVE TaskInv'
    BY <1>3 DEF TaskInv, TaskEnd
<1>4. ASSUME NEW t \in Threads, NEW k \in Outcomes \ {"none"}, NEW n \in BOOLEAN,
             TaskSettle(t, k, n)
      PROVE  TaskInv'
    <2>1. /\ task' = [task EXCEPT ![t] = "ending"] /\ out' = [out EXCEPT ![t] = Outcome(k, n)]
          /\ stored' = [stored EXCEPT ![t] = SettledState(k)]
          /\ task[t] = "executing" /\ UNCHANGED <<completed, running, rt>>
        BY <1>4 DEF TaskSettle, TransitionTo
    <2>2. (k \in PauseKinds => SettledState(k) = "Waiting") /\ SettledState(k) # "Absent"
        BY DEF SettledState
    <2>3. Outcome(k, n).kind = k
        BY DEF Outcome
    <2> QED BY <2>1, <2>2, <2>3 DEF TaskInv
<1>5. ASSUME NEW t \in Threads, Spawn(t) PROVE TaskInv'
    <2>1. rt.pc = "idle" /\ rt'.pc = "await" /\ rt'.t = t
        BY <1>5 DEF Spawn, Await, Idle, At
    <2> QED BY <1>5, <2>1 DEF TaskInv, Spawn, StartThread, Joining
<1>6. CASE ResolveNoBackend \/ OrphanFail
    <2>1. rt.pc \notin Joining /\ rt'.pc = "idle" /\ UNCHANGED <<task, out, completed, running>>
        BY <1>6 DEF ResolveNoBackend, Resolving, OrphanFail, Joining, Return, Idle, At
    <2>2. \A t \in Threads : stored'[t] = "Absent" => stored[t] = "Absent"
        BY <1>6 DEF ResolveNoBackend, OrphanFail, FailWaiting, TransitionTo
    <2> QED BY <2>1, <2>2 DEF TaskInv, Joining
<1>7. CASE Resume
    <2>1. rt.pc = "resume" /\ rt.pc \notin Joining /\ UNCHANGED <<stored, out, completed>>
        BY <1>7 DEF Resume, Joining
    <2>2. CASE UNCHANGED <<task, running>> /\ Return
        BY <2>1, <2>2 DEF TaskInv, Return, Idle, At, Joining
    <2>3. CASE StartThread(rt.t) /\ Await(rt.t)
        <3>1. rt.t \notin completed
            BY <2>1 DEF TokenInv, Holding
        <3> QED BY <2>1, <2>3, <3>1 DEF TaskInv, StartThread, Await, At, Joining
    <2> QED BY <1>7, <2>2, <2>3 DEF Resume
<1>8. CASE JoinPosted \/ JoinHandle
    <2>1. /\ rt.pc \in Joining /\ task[rt.t] \notin Executing
          /\ rt.pc = "joining" => task[rt.t] = "none"
          /\ rt.pc # "injected"
        BY <1>8 DEF TaskInv, JoinPosted, JoinHandle, Joining
    <2>2. NoOutcome.kind \notin PauseKinds
        BY DEF NoOutcome, Outcome, PauseKinds
    <2>3. rt'.pc \in {"idle", "insert"}
        BY <1>8 DEF JoinPosted, JoinHandle, Collect, Build, NextRequest, Return, Idle, At
    <2>4. /\ completed' = completed \ {rt.t} /\ out' = [out EXCEPT ![rt.t] = NoOutcome]
          /\ UNCHANGED <<stored, task, running>>
        BY <1>8 DEF JoinPosted, JoinHandle
    <2> QED BY <2>1, <2>2, <2>3, <2>4 DEF TaskInv, Joining
<1>9. CASE JoinMisses
    <2>1. /\ rt.pc = "joinEntry" /\ rt.pc \in Joining /\ rt'.pc = "idle"
          /\ out' = [out EXCEPT ![rt.t] = NoOutcome] /\ rt.t \notin running
          /\ UNCHANGED <<stored, task, completed, running>>
        BY <1>9 DEF JoinMisses, Return, Idle, At, Joining
    <2>2. NoOutcome.kind \notin PauseKinds
        BY DEF NoOutcome, Outcome, PauseKinds
    <2>3. task[rt.t] = "none"
        BY <2>1 DEF TaskInv
    <2> QED BY <2>1, <2>2, <2>3 DEF TaskInv, Joining
<1>10. CASE JoinWait
    <2>1. /\ rt.pc = "joinEntry" /\ rt'.pc = "joining" /\ rt'.t = rt.t
          /\ running' = running \ {rt.t} /\ UNCHANGED <<stored, task, out, completed>>
        BY <1>10, TypeParts DEF JoinWait, Goto, RouterTypeOK
    <2> QED BY <2>1 DEF TaskInv, Joining
<1>11. CASE Restart
    <2>1. NoOutcome.kind \notin PauseKinds
        BY DEF NoOutcome, Outcome, PauseKinds
    <2>2. rt'.pc = "idle"
        BY <1>11 DEF Restart, Idle, At
    <2> QED BY <1>11, <2>1, <2>2 DEF TaskInv, Restart
<1>12. CASE \E t \in Threads : Inject(t)
    <2>1. PICK t \in Threads : Inject(t)
        BY <1>12
    <2>2. rt.pc = "idle" /\ rt'.pc = "injected" /\ rt'.t = t /\ UNCHANGED threadVars
        BY <2>1 DEF Inject, Idle, At
    <2>3. task[t] # "none"
        BY <2>1 DEF Inject, IsRunning
    <2> QED BY <2>2, <2>3 DEF TaskInv, Joining
<1>13. ASSUME UNCHANGED threadVars, ~JoinPosted, ~JoinHandle, ~JoinMisses, ~Restart,
              \A t \in Threads : ~Inject(t)
       PROVE  TaskInv'
    <2>1. rt.pc \in Joining => rt'.pc \in Joining /\ rt'.t = rt.t
        BY <1>13 DEF RouterMoves
    <2>2. rt.pc = "joining" \/ rt'.pc = "injected" => UNCHANGED rt
        BY <1>13 DEF RouterMoves
    <2> QED BY <1>13, <2>1, <2>2 DEF TaskInv
<1> QED BY <1>1, <1>2, <1>3, <1>4, <1>5, <1>6, <1>7, <1>8, <1>9, <1>10, <1>11, <1>12, <1>13,
        ThreadFrame DEF ThreadChange, TaskNext

LEMMA StaysSpawned ==
    ASSUME TypeOK, [Next]_vars
    PROVE  \A t \in Threads : stored'[t] = "Absent" => stored[t] = "Absent" /\ ~Spawn(t)
<1>0. stored \in [Threads -> ThreadState \cup {"Absent"}]
    BY TypeParts DEF ThreadTypeOK
<1> USE <1>0
<1> DEFINE Stay == \A u \in Threads : stored'[u] = "Absent" => stored[u] = "Absent"
<1>1. ASSUME NEW t \in Threads, TransitionTo(t, "Running") \/ TransitionTo(t, "Failed")
             \/ TransitionTo(t, "Done") \/ \E k \in Outcomes : TransitionTo(t, SettledState(k))
      PROVE  Stay
    BY <1>1 DEF TransitionTo, SettledState
<1>2. ASSUME NEW t \in Threads, TaskNext(t)
      PROVE  Stay
    BY <1>1, <1>2 DEF TaskNext, TaskStart, TaskPost, TaskEnd, TaskSettle
<1>3. ASSUME NEW t \in Threads, Spawn(t)
      PROVE  \A u \in Threads : stored'[u] = "Absent" => stored[u] = "Absent" /\ u # t
    BY <1>3 DEF Spawn
<1>4. ASSUME ResolveNoBackend \/ OrphanFail PROVE Stay
    <2>1. rt.t \in Threads
        BY TypeParts DEF RouterTypeOK
    <2> QED BY <1>1, <1>4, <2>1 DEF ResolveNoBackend, OrphanFail, FailWaiting
<1>5. ASSUME Restart PROVE Stay
    <2>1. PICK gates : stored' = ReconciledThreads(gates, Recovered)
        BY <1>5 DEF Restart
    <2> QED BY <2>1 DEF ReconciledThreads, Recovered
<1>6. ASSUME Resume \/ JoinPosted \/ JoinWait \/ JoinMisses \/ JoinHandle PROVE Stay
    BY <1>6 DEF Resume, JoinPosted, JoinWait, JoinMisses, JoinHandle
<1>7. Stay
    BY <1>2, <1>3, <1>4, <1>5, <1>6, ThreadFrame DEF ThreadChange
<1>8. \A t \in Threads : Spawn(t) => stored'[t] # "Absent"
    BY DEF Spawn
<1> QED BY <1>7, <1>8

(***************************************************************************)
(* A thread's gate is in one place.                                        *)
(***************************************************************************)
\* A thread becomes one whose outcome was missed only when join_thread misses it.
LEMMA StepMissed ==
    ASSUME TypeOK, TaskInv, [Next]_vars, RouterMoves, ~Restart, NEW t \in Threads, t \in Missed'
    PROVE  \/ t \in Missed
           \/ JoinMisses /\ t = rt.t
<1>0. completed \subseteq Threads /\ rt.t \in Threads
    BY TypeParts DEF ThreadTypeOK, RouterTypeOK
<1>1. ASSUME NEW u \in Threads, TaskPost(u) PROVE t \in Missed
    <2>1. task[u] = "ending" /\ UNCHANGED rt /\ completed' = completed \cup {u}
        BY <1>1 DEF TaskPost
    <2>2. rt.pc \in Joining /\ rt.t = u
        BY <2>1 DEF TaskInv, Executing
    <2> QED BY <2>1, <2>2 DEF Missed
<1>2. CASE JoinPosted \/ JoinHandle
    BY <1>0, <1>2 DEF Missed, JoinPosted, JoinHandle
<1>3. CASE JoinMisses
    BY <1>3 DEF Missed, JoinMisses
<1>4. ASSUME UNCHANGED completed, ~JoinPosted, ~JoinMisses, ~JoinHandle PROVE t \in Missed
    BY <1>4 DEF Missed, RouterMoves
<1>5. ASSUME ~(\E u \in Threads : TaskPost(u)), ~JoinPosted, ~JoinHandle PROVE UNCHANGED completed
    BY <1>5, ThreadFrame DEF ThreadChange, TaskNext, TaskStart, TaskSettle, TaskEnd, Spawn,
        ResolveNoBackend, Resume, JoinWait, JoinMisses, OrphanFail
<1>6. ASSUME ~JoinPosted, ~JoinMisses, ~JoinHandle PROVE t \in Missed
    BY <1>1, <1>4, <1>5, <1>6
<1> QED BY <1>2, <1>3, <1>6

LEMMA StepTokenInv ==
    ASSUME TypeOK, RefInv, TaskInv, TokenInv, [Next]_vars, RouterMoves, WebMoves
    PROVE  TokenInv'
<1>0. /\ mem \in [Threads -> 0 .. issued] /\ rt.t \in Threads /\ rt'.t \in Threads
      /\ \A w \in Webs : webs[w].t \in Threads /\ webs'[w].t \in Threads
    BY TypeParts, StepRouterType, StepWebType DEF GatesTypeOK, RouterTypeOK, WebTypeOK
<1>m. ASSUME ~Restart, NEW t \in Missed' PROVE t \in Threads /\ (t \in Missed \/ (JoinMisses /\ t = rt.t))
    <2>1. completed' \subseteq Threads
        BY StepThreadType DEF ThreadTypeOK
    <2> QED BY <1>m, <2>1, StepMissed DEF Missed
<1>1. CASE Restart
    <2>1. rt'.pc \notin Holding
        BY <1>1 DEF Restart, Idle, At, Holding, Joining
    <2>2. \A w \in Webs : webs'[w].pc = "idle"
        BY <1>1 DEF Restart, WebIdle, WebAt
    <2>3. \A w \in Webs : ~WebHolds(w)'
        BY <2>2 DEF WebHolds
    <2>4. ASSUME NEW t \in Threads, stored'[t] = "Absent" PROVE mem'[t] = NoRequest
        <3>1. PICK gates : /\ mem' = Reconciled(gates, Recovered)
                           /\ stored' = ReconciledThreads(gates, Recovered)
            BY <1>1, RestartFacts
        <3>2. Recovered[t] # "Waiting"
            BY <2>4, <3>1 DEF ReconciledThreads
        <3> QED BY <3>1, <3>2 DEF Reconciled
    <2>5. Missed' = {}
        BY <1>1 DEF Restart, Missed
    <2> QED BY <2>1, <2>3, <2>4, <2>5 DEF TokenInv
<1>2. CASE GateInsert
    <2>1. rt.pc = "insert" /\ rt.pc \in Holding /\ UNCHANGED <<webs, stored>>
        BY <1>2 DEF GateInsert, Holding
    <2>2. rt'.pc \notin Holding
        BY <1>2, TypeParts DEF GateInsert, Return, Goto, Idle, At, Holding, Joining, RouterTypeOK
    <2>3. \A t \in Threads : t # rt.t => mem'[t] = mem[t]
        BY <1>0, <1>2 DEF GateInsert, Insert, Slot
    <2>4. \A w \in Webs : WebHolds(w)' <=> WebHolds(w)
        BY <2>1 DEF WebHolds
    <2>5. Missed' = Missed
        BY <1>2, <2>1, <2>2 DEF GateInsert, Missed, Holding, Joining
    <2> QED BY <1>0, <2>1, <2>2, <2>3, <2>4, <2>5 DEF TokenInv
<1>3. ASSUME NEW v \in Webs, WebInsert(v) PROVE TokenInv'
    <2>1. webs[v].pc = "insert" /\ WebHolds(v) /\ UNCHANGED <<rt, stored>>
        BY <1>3 DEF WebInsert, WebHolds
    <2>2. webs'[v].pc \in {"idle", "save"} /\ \A w \in Webs : w # v => webs'[w] = webs[w]
        BY <1>3, TypeParts DEF WebInsert, WebGoto, WebReturn, WebIdle, WebAt, WebTypeOK
    <2>3. \A t \in Threads : t # webs[v].t => mem'[t] = mem[t]
        BY <1>0, <1>3 DEF WebInsert, Insert, Slot
    <2>4. \A w \in Webs : WebHolds(w)' => w # v /\ WebHolds(w) /\ webs'[w].t = webs[w].t
        BY <2>2 DEF WebHolds
    <2>5. Missed' = Missed
        BY <1>3 DEF WebInsert, Missed
    <2> QED BY <1>0, <2>1, <2>3, <2>4, <2>5 DEF TokenInv
<1>4. ASSUME \A t \in Threads : mem'[t] \in {NoRequest, mem[t]}
      PROVE  TokenInv'
    <2>1. CASE UNCHANGED webs /\ ~Restart
        <3>1. \A w \in Webs : WebHolds(w)' <=> WebHolds(w)
            BY <2>1 DEF WebHolds
        <3>2. rt'.pc \in Holding =>
                 \/ rt.pc \in Holding /\ rt'.t = rt.t
                 \/ mem[rt'.t] # NoRequest /\ mem'[rt'.t] = NoRequest
                 \/ stored[rt'.t] = "Absent" /\ stored'[rt'.t] # "Absent"
            <4>1. \A t \in Threads : Spawn(t) => stored[t] = "Absent" /\ stored'[t] # "Absent"
                BY TypeParts DEF Spawn, ThreadTypeOK
            <4> QED BY <1>0, <4>1 DEF RouterMoves, IsLive
        <3>3. \A t \in Threads : stored'[t] = "Absent" => stored[t] = "Absent"
            BY StaysSpawned
        <3>4. \A t \in Missed : stored[t] # "Absent"
            BY DEF Missed, TaskInv
        <3>5. CASE JoinMisses
            <4>1. rt.pc \in Holding /\ rt'.pc \notin Holding
                BY <3>5 DEF JoinMisses, Return, Idle, At, Holding, Joining
            <4>2. ASSUME NEW t \in Threads, stored'[t] = "Absent" \/ t \in Missed'
                  PROVE  mem'[t] = NoRequest /\ \A w \in Webs : WebHolds(w) => webs[w].t # t
                <5>1. stored[t] = "Absent" \/ t \in Missed \/ t = rt.t
                    BY <1>m, <2>1, <3>3, <4>2
                <5> QED BY <1>0, <1>4, <4>1, <5>1 DEF TokenInv
            <4> QED BY <1>0, <1>4, <2>1, <3>1, <4>1, <4>2 DEF TokenInv
        <3>6. CASE ~JoinMisses
            <4>1. ASSUME NEW t \in Threads, stored'[t] = "Absent" \/ t \in Missed'
                  PROVE  /\ mem[t] = NoRequest /\ (rt.pc \in Holding => rt.t # t)
                         /\ \A w \in Webs : WebHolds(w) => webs[w].t # t
                         /\ stored[t] = "Absent" => stored'[t] = "Absent"
                BY <1>m, <2>1, <3>3, <3>4, <3>6, <4>1 DEF TokenInv
            <4>2. ASSUME NEW t \in Threads, stored'[t] = "Absent" \/ t \in Missed',
                         rt'.pc \in Holding
                  PROVE  rt'.t # t
                BY <1>0, <3>2, <4>1, <4>2
            <4>3. rt'.pc \in Holding => mem'[rt'.t] = NoRequest
                BY <1>0, <1>4, <3>2 DEF TokenInv
            <4> QED BY <1>0, <1>4, <2>1, <3>1, <3>2, <4>1, <4>2, <4>3 DEF TokenInv
        <3> QED BY <3>5, <3>6
    <2>2. CASE webs' # webs /\ ~Restart
        <3>1. UNCHANGED <<rt, stored>>
            BY <2>2, WebFrame DEF WebStep, WebList, WebDiscard, WebUnlink, WebBuild, WebInsert, WebSave
        <3>2. PICK v \in Webs : \A w \in Webs : w # v => webs'[w] = webs[w]
            BY <2>2, WebFrame, TypeParts DEF WebStep, WebList, WebDiscard, WebDiscardMissing, WebUnlink,
                WebBuild, WebInsert, WebSave, WebGoto, WebReturn, WebTypeOK
        <3>3. \A w \in Webs : WebHolds(w)' =>
                 /\ webs'[w].t = webs[w].t
                 /\ WebHolds(w) \/ (w = v /\ mem[webs[w].t] # NoRequest /\ mem'[webs[w].t] = NoRequest)
            BY <3>2 DEF WebMoves, WebHolds
        <3>4. \A t \in Missed' : t \in Threads /\ (t \in Missed \/ JoinMisses)
            BY <1>m, <2>2 DEF Missed
        <3>5. Missed' \subseteq Missed
            BY <2>2, <3>4 DEF JoinMisses
        <3> QED BY <1>0, <1>4, <3>1, <3>3, <3>5 DEF TokenInv
    <2> QED BY <1>1, <2>1, <2>2
<1>5. ASSUME ~GateInsert, ~Restart, \A w \in Webs : ~WebInsert(w)
      PROVE  \A t \in Threads : mem'[t] \in {NoRequest, mem[t]}
    BY <1>0, <1>5, MemFrame DEF MemChange, Take, TakeVerified, ClearDiscard, WebDiscard, Discard, Slot
<1> QED BY <1>1, <1>2, <1>3, <1>4, <1>5

(***************************************************************************)
(* Kinds, owners and grants.                                               *)
(***************************************************************************)
Fits(k, res) == IF k = "approval" THEN res \in {"approve", "deny"}
                ELSE k \in AuthKinds /\ res \in {"credential", "cancel", "callback"}

LEMMA AnswersFit ==
    ASSUME NEW k, NEW res, res \in Answers(k)
    PROVE  Fits(k, res)
<1>1. (k = "approval" /\ res \in {"approve", "deny"})
      \/ (k \in AuthKinds /\ res \in {"credential", "cancel"})
    BY Zenon DEF Answers
<1> QED BY <1>1 DEF Fits, AuthKinds

LEMMA StepKindInv ==
    ASSUME TypeOK, RefInv, KindInv, [Next]_vars, GatesStay, RouterMoves, WebMoves
    PROVE  KindInv'
<1>0. /\ issued \in Nat /\ rt.r \in 0 .. issued /\ rt'.t \in Threads /\ callbacks \subseteq 1 .. issued
      /\ \A t \in Threads : mem[t] \in 0 .. issued
      /\ \A w \in Webs : webs[w].r \in 0 .. issued
      /\ \A r \in 1 .. issued : gate'[r].kind = gate[r].kind
      /\ rt.pc \in RouterPcs /\ rt'.pc \in RouterPcs
    BY TypeParts, StepRouterType
    DEF GatesTypeOK, RouterTypeOK, WebTypeOK, TypeOK, GatesStay
<1>1. ASSUME rt'.pc \in Answering PROVE Fits(gate'[rt'.r].kind, rt'.res)
    <2>1. CASE rt.pc \in Answering /\ rt'.r = rt.r /\ rt'.res = rt.res
        BY <1>0, <2>1 DEF KindInv, Fits, Answering, RefInv, OnGate
    <2>2. CASE UNCHANGED rt
        BY <1>1, <2>1, <2>2
    <2>3. ASSUME NEW t \in Threads, NEW res \in {"approve", "deny", "credential", "cancel"},
                 Select(t, res)
          PROVE  Fits(gate'[rt'.r].kind, rt'.res)
        <3>1. rt'.r = mem[t] /\ mem[t] # NoRequest /\ rt'.res = res /\ res \in Answers(gate[mem[t]].kind)
            BY <2>3 DEF Select, IsLive, At
        <3>2. gate'[rt'.r].kind = gate[mem[t]].kind
            BY <1>0, <3>1
        <3> QED BY <3>1, <3>2, AnswersFit
    <2>4. ASSUME NEW r \in callbacks, HandleCallback(r), rt' # rt
          PROVE  Fits(gate'[rt'.r].kind, rt'.res)
        <3>1. /\ mem[gate[r].thread] = r /\ gate[mem[gate[r].thread]].kind \in AuthKinds
              /\ rt'.r = r /\ rt'.res = "callback"
            BY <2>4 DEF HandleCallback, LiveOfKind, At
        <3> QED BY <1>0, <3>1 DEF Fits, AuthKinds
    <2>5. CASE Message
        <3>1. ASSUME NEW t \in Threads, Spawn(t) \/ Inject(t) \/ OrphanPeek(t)
              PROVE  rt'.pc \notin Answering
            BY <3>1 DEF Spawn, Inject, OrphanPeek, Await, At, Answering
        <3>2. CASE ClearBegin
            BY <1>1, <3>2, TypeParts DEF ClearBegin, Goto, Answering, RouterTypeOK
        <3>3. CASE \E t \in Threads : Spawn(t) \/ Inject(t) \/ OrphanPeek(t)
            BY <1>1, <3>1, <3>3
        <3>4. CASE \E r \in callbacks : HandleCallback(r)
            BY <2>2, <2>4, <3>4
        <3>5. CASE \E t \in Threads, res \in {"approve", "deny", "credential", "cancel"} :
                     Select(t, res)
            BY <2>3, <3>5
        <3> QED BY <2>5, <3>2, <3>3, <3>4, <3>5 DEF Message
    <2>6. CASE RouterNext
        <3>1. rt.pc # "idle"
            BY <2>6 DEF RouterNext, Take, TakeUnlink, Resolving, ResolveApproved, ResolveDenied,
                ResolveCancelled, ResolveReady, ResolveRequeued, ResolveNoBackend, ResolveError,
                ExecRuns, ExecFails, ExecPauses, Resume, AwaitEnd, AwaitDeadline, JoinPosted,
                JoinLook, JoinWait, JoinMisses, JoinHandle, InjectedEnd, GateInsert, GateSave,
                OrphanFail, ClearDiscard, ClearUnlink,
                ClearDone
        <3> QED BY <1>1, <2>1, <3>1 DEF RouterMoves, OnGate, Answering
    <2>7. CASE Restart
        BY <1>1, <2>7 DEF Restart, Idle, At, Answering
    <2> QED BY <2>2, <2>5, <2>6, <2>7, RouterFrame
<1>2. ASSUME NEW w \in Webs, webs'[w].pc \in {"insert", "save"}
      PROVE  gate'[webs'[w].r].kind = "pairing"
    <2>1. CASE WebBuild(w) /\ webs'[w].r = issued'
        BY <2>1, WebBuilds DEF Builds
    <2>2. CASE webs[w].pc \in {"insert", "save"} /\ webs'[w].r = webs[w].r
        BY <1>0, <2>2 DEF KindInv, RefInv
    <2> QED BY <1>2, <2>1, <2>2 DEF WebMoves
<1> QED BY <1>1, <1>2 DEF KindInv, Fits, Answering

\* What a step does to the gates of calls: a gate that is live afterwards was live
\* before, unless it was just put there.
LEMMA StepLive ==
    ASSUME TypeOK, RefInv, KindInv, [Next]_vars, GatesStay, ~Restart,
           NEW t \in Threads, LiveOfKind(t, PauseKinds)'
    PROVE  \/ LiveOfKind(t, PauseKinds)
           \/ GateInsert /\ t = rt.t /\ gate[rt.r].kind \in PauseKinds
<1>0. /\ issued \in Nat /\ rt.r \in 0 .. issued /\ mem \in [Threads -> 0 .. issued]
      /\ \A w \in Webs : webs[w].r \in 0 .. issued
      /\ \A r \in 1 .. issued : gate'[r].kind = gate[r].kind
    BY TypeParts DEF GatesTypeOK, RouterTypeOK, WebTypeOK, GatesStay
<1>1. mem'[t] # NoRequest /\ mem'[t] \notin expired' /\ gate'[mem'[t]].kind \in PauseKinds
    BY DEF LiveOfKind, IsLive
<1>2. CASE mem'[t] = mem[t]
    <2>1. expired \subseteq expired'
        BY DEF Next, vars, TaskNext, Message, RouterNext, WebNext, GateExpires, Expire,
            TaskStart, TaskSettle, TaskPost, TaskEnd, Spawn, Inject, OrphanPeek, Select,
            HandleCallback, ClearBegin,
            Take, TakeUnlink, ResolveApproved, ResolveDenied, ResolveCancelled, ResolveReady,
            ResolveRequeued, ResolveNoBackend, ResolveError, ExecRuns, ExecFails, ExecPauses,
            Resume, AwaitEnd, AwaitDeadline, JoinPosted, JoinLook, JoinWait, JoinMisses,
            JoinHandle, InjectedEnd, GateInsert,
            GateSave, OrphanFail, ClearDiscard, ClearUnlink, ClearDone,
            WebList, WebDiscard, WebUnlink, WebBuild, WebInsert, WebSave, WebCallback, Restart
    <2> QED BY <1>0, <1>1, <1>2, <2>1 DEF LiveOfKind, IsLive
<1>3. CASE GateInsert
    <2>1. rt.pc = "insert" /\ rt.r \in 1 .. issued
        BY <1>0, <1>3 DEF GateInsert, RefInv, OnGate
    <2>2. CASE mem' = [mem EXCEPT ![rt.t] = rt.r]
        BY <1>0, <1>1, <1>2, <1>3, <2>1, <2>2
    <2> QED BY <1>2, <1>3, <2>2 DEF GateInsert, Insert, Slot
<1>4. ASSUME NEW w \in Webs, WebInsert(w), mem'[t] # mem[t] PROVE FALSE
    <2>1. mem'[t] = webs[w].r /\ webs[w].pc = "insert"
        BY <1>0, <1>4 DEF WebInsert, Insert, Slot
    <2>2. gate[webs[w].r].kind = "pairing" /\ webs[w].r \in 1 .. issued
        BY <1>0, <2>1 DEF KindInv, RefInv
    <2> QED BY <1>0, <1>1, <2>1, <2>2 DEF PauseKinds
<1>5. CASE mem'[t] = NoRequest
    BY <1>1, <1>5
<1> QED BY <1>0, <1>2, <1>3, <1>4, <1>5, MemFrame
        DEF MemChange, Take, TakeVerified, ClearDiscard, WebDiscard, Discard, Slot

\* A thread that waits and does not execute goes on waiting, except when the router
\* gives it up.
LEMMA StepWaits ==
    ASSUME TypeOK, [Next]_vars, ~Restart,
           NEW t \in Threads, stored[t] = "Waiting", task[t] \notin Executing
    PROVE  \/ stored'[t] = "Waiting"
           \/ t = rt.t /\ (ResolveNoBackend \/ OrphanFail)
<1>0. stored \in [Threads -> ThreadState \cup {"Absent"}]
    BY TypeParts DEF ThreadTypeOK
<1>1. ASSUME NEW u \in Threads, TaskNext(u) PROVE stored'[t] = "Waiting"
    BY <1>0, <1>1 DEF TaskNext, TaskStart, TaskSettle, TaskPost, TaskEnd, TransitionTo, Executing
<1>2. ASSUME NEW u \in Threads, Spawn(u) PROVE stored'[t] = "Waiting"
    BY <1>0, <1>2 DEF Spawn
<1>3. CASE ResolveNoBackend \/ OrphanFail
    BY <1>0, <1>3 DEF ResolveNoBackend, OrphanFail, FailWaiting, TransitionTo
<1>4. CASE Resume \/ JoinPosted \/ JoinWait \/ JoinMisses \/ JoinHandle
    BY <1>4 DEF Resume, JoinPosted, JoinWait, JoinMisses, JoinHandle
<1> QED BY <1>1, <1>2, <1>3, <1>4, ThreadFrame DEF ThreadChange

LEMMA StepWaitInv ==
    ASSUME TypeOK, RefInv, TaskInv, TokenInv, KindInv, WaitInv, [Next]_vars,
           GatesStay, RouterMoves
    PROVE  WaitInv'
<1>0. /\ issued \in Nat /\ rt.r \in 0 .. issued /\ rt.t \in Threads /\ rt'.t \in Threads
      /\ mem \in [Threads -> 0 .. issued] /\ stored \in [Threads -> ThreadState \cup {"Absent"}]
      /\ task \in [Threads -> {"none", "starting", "executing", "ending", "posted"}]
      /\ \A r \in 1 .. issued : gate'[r].kind = gate[r].kind
    BY TypeParts, StepRouterType DEF GatesTypeOK, RouterTypeOK, ThreadTypeOK, GatesStay
<1>1. ASSUME Restart PROVE WaitInv'
    <2>1. ASSUME NEW t \in Threads, mem'[t] # NoRequest PROVE stored'[t] = "Waiting"
        <3>1. PICK gates : /\ mem' = Reconciled(gates, Recovered)
                           /\ stored' = ReconciledThreads(gates, Recovered)
            BY <1>1, RestartFacts
        <3> QED BY <2>1, <3>1 DEF Reconciled, ReconciledThreads
    <2>2. rt'.pc = "idle"
        BY <1>1 DEF Restart, Idle, At
    <2> QED BY <2>1, <2>2 DEF WaitInv, GateOwnerIsWaiting, LiveOfKind, IsLive, OnGate
<1> SUFFICES ASSUME ~Restart PROVE WaitInv'
    BY <1>1
<1>2. ASSUME NEW t \in Threads, LiveOfKind(t, PauseKinds)' PROVE stored'[t] = "Waiting"
    <2>1. CASE LiveOfKind(t, PauseKinds)
        <3>1. stored[t] = "Waiting" /\ mem[t] # NoRequest
            BY <2>1 DEF WaitInv, GateOwnerIsWaiting, LiveOfKind, IsLive
        <3>2. task[t] \notin Executing
            BY <3>1 DEF TaskInv, TokenInv, Holding
        <3>3. ~(t = rt.t /\ ResolveNoBackend)
            BY <3>1 DEF TokenInv, ResolveNoBackend, Resolving, Holding
        <3>4. ~(t = rt.t /\ OrphanFail)
            BY <2>1 DEF WaitInv, OrphanFail
        <3> QED BY <3>1, <3>2, <3>3, <3>4, StepWaits
    <2>2. CASE GateInsert /\ t = rt.t /\ gate[rt.r].kind \in PauseKinds
        BY <2>2 DEF WaitInv, GateInsert, OnGate
    <2> QED BY <1>2, <2>1, <2>2, StepLive
<1>3. ASSUME rt'.pc \in OnGate \ {"take", "save"}, gate'[rt'.r].kind \in PauseKinds
      PROVE  stored'[rt'.t] = "Waiting"
    <2>1. ASSUME rt.pc \in OnGate \ {"take", "save"}, stored[rt.t] = "Waiting"
          PROVE  stored'[rt.t] = "Waiting"
        <3>1. task[rt.t] \notin Executing
            BY <1>0, <2>1 DEF TaskInv, OnGate, Joining
        <3>2. ~ResolveNoBackend /\ ~OrphanFail
            BY <1>3 DEF ResolveNoBackend, OrphanFail, Return, Idle, At, OnGate
        <3> QED BY <1>0, <2>1, <3>1, <3>2, StepWaits
    <2>2. CASE rt.pc \in OnGate /\ rt'.r = rt.r /\ rt'.t = rt.t
        <3>1. gate[rt.r].kind \in PauseKinds
            BY <1>0, <1>3, <2>2 DEF RefInv
        <3>2. CASE rt.pc \in Holding
            BY <2>1, <2>2, <3>1, <3>2 DEF WaitInv, OnGate, Holding, Joining
        <3>3. CASE IsLive(rt.t) /\ mem[rt.t] = rt.r /\ rt.pc = "take" /\ rt'.pc = "unlink"
            <4>1. stored[rt.t] = "Waiting"
                BY <1>0, <3>1, <3>3 DEF WaitInv, GateOwnerIsWaiting, LiveOfKind
            <4>2. UNCHANGED stored
                BY <3>3, ThreadFrame DEF ThreadChange, TaskNext, TaskStart, TaskSettle, TaskPost,
                    TaskEnd, Spawn,
                    Idle, At, Resume, ResolveNoBackend, Resolving, JoinPosted, JoinLook,
                    JoinWait, JoinMisses, JoinHandle, InjectedEnd,
                    OrphanFail
            <4> QED BY <2>2, <4>1, <4>2
        <3>4. \A t \in Threads : ~Spawn(t)
            BY <2>2 DEF Spawn, Idle, At, OnGate
        <3> QED BY <1>3, <3>2, <3>3, <3>4 DEF RouterMoves, OnGate, Holding
    <2>3. CASE /\ rt'.pc = "insert" /\ rt.pc \in {"resolved", "exec"} \cup Joining
               /\ rt'.t = rt.t /\ rt'.r = issued' /\ issued' = issued + 1
        <3>1. rt' # rt
            BY <1>0, <2>3
        <3>2. CASE ResolveRequeued
            <4>1. gate'[issued'].kind \in {gate[rt.r].kind, "pairing"} /\ rt.pc = "resolved"
                BY <3>2, RequeueBuilds DEF Builds, ResolveRequeued, Resolving
            <4>2. gate[rt.r].kind \in PauseKinds
                BY <1>3, <2>3, <4>1 DEF PauseKinds
            <4> QED BY <2>1, <2>3, <4>1, <4>2 DEF WaitInv, OnGate
        <3>3. ASSUME NEW k \in PauseKinds, ExecPauses(k) PROVE stored'[rt'.t] = "Waiting"
            <4>1. rt.pc = "exec" /\ gate[rt.r].kind # "fallback"
                BY <3>3 DEF ExecPauses, IsTool
            <4>2. gate[rt.r].kind \in PauseKinds
                BY <4>1 DEF KindInv, AuthKinds, PauseKinds
            <4> QED BY <2>1, <2>3, <4>1, <4>2 DEF WaitInv, OnGate
        <3>4. CASE JoinPosted \/ JoinHandle
            <4>1. out[rt.t].kind \in PauseKinds
                BY <1>0, <1>3, <2>3, <3>4, CollectBuilds DEF Builds, Reported, PauseKinds
            <4>2. stored[rt.t] = "Waiting"
                BY <1>0, <4>1 DEF TaskInv
            <4> QED BY <2>3, <3>4, <4>2 DEF JoinPosted, JoinHandle
        <3>5. \A w \in Webs : ~WebBuild(w)
            BY <3>1 DEF WebBuild
        <3> QED BY <1>0, <2>3, <3>2, <3>3, <3>4, <3>5, GateFrame DEF GateChange
    <2> QED BY <1>3, <2>2, <2>3 DEF RouterMoves, OnGate
<1>4. ASSUME rt'.pc = "orphan" PROVE ~LiveOfKind(rt.t, PauseKinds)'
    <2>1. CASE UNCHANGED rt
        <3>1. ~LiveOfKind(rt.t, PauseKinds) /\ ~GateInsert
            BY <1>4, <2>1 DEF WaitInv, GateInsert
        <3>2. ASSUME NEW t \in Threads, t = rt.t PROVE ~LiveOfKind(t, PauseKinds)'
            BY <3>1, <3>2, StepLive
        <3> QED BY <1>0, <2>1, <3>2 DEF LiveOfKind, IsLive
    <2>2. ASSUME NEW t \in Threads, OrphanPeek(t), rt'.t = t PROVE ~LiveOfKind(rt.t, PauseKinds)'
        BY <2>2 DEF OrphanPeek, LiveOfKind, IsLive
    <2> QED BY <1>4, <2>1, <2>2 DEF RouterMoves
<1> QED BY <1>2, <1>3, <1>4 DEF WaitInv, GateOwnerIsWaiting

\* How the router gets to the action.
LEMMA StepExec ==
    ASSUME TypeOK, [Next]_vars
    PROVE  /\ rt'.pc = "exec" =>
                 /\ rt'.t = rt.t /\ rt'.r = rt.r
                 /\ UNCHANGED rt \/ ResolveApproved
                    \/ (ResolveReady /\ rt'.res = rt.res /\ gate[rt.r].kind # "staged")
           /\ rt'.pc = "resolved" => UNCHANGED rt \/ (TakeUnlink /\ rt'.t = rt.t)
<1>0. RouterTypeOK
    BY TypeParts
<1>1. CASE ResolveApproved
    BY <1>0, <1>1 DEF ResolveApproved, Resolving, Goto, RouterTypeOK
<1>2. CASE ResolveReady
    <2>1. \/ rt' \in {Idle, At("resume", rt.t, NoRequest, "none")}
          \/ rt' = [rt EXCEPT !.pc = "exec"] /\ gate[rt.r].kind # "staged"
        BY <1>2 DEF ResolveReady, Resolving, Goto, Return, ToResume
    <2> QED BY <1>0, <1>2, <2>1 DEF Idle, At, RouterTypeOK
<1>3. CASE TakeUnlink
    BY <1>0, <1>3 DEF TakeUnlink, Goto, RouterTypeOK
<1>4. CASE RouterNext /\ ~ResolveApproved /\ ~ResolveReady /\ ~TakeUnlink
    <2>1. \/ rt' = Idle \/ UNCHANGED rt
          \/ \E pc \in RouterPcs \ {"exec", "resolved"} : rt' = [rt EXCEPT !.pc = pc]
          \/ \E pc \in RouterPcs \ {"exec", "resolved"} : \E t, r : rt' = At(pc, t, r, "none")
        BY <1>4
        DEF RouterNext, Take, ResolveDenied, ResolveCancelled,
            ResolveRequeued, Requeue, ResolveNoBackend, ResolveError,
            ExecRuns, ExecFails, ExecPauses, Resume, AwaitEnd, AwaitDeadline, JoinPosted,
            JoinLook, JoinWait, JoinMisses, JoinHandle, InjectedEnd, Collect, GateInsert,
            GateSave, OrphanFail, ClearDiscard,
            ClearUnlink, ClearDone, ToResume, Await, Goto, Return, RouterPcs
    <2> QED BY <1>0, <2>1 DEF Idle, At, RouterTypeOK
<1>5. CASE Message
    <2>1. rt'.pc \notin {"exec", "resolved"} \/ UNCHANGED rt
        BY <1>0, <1>5
        DEF Message, Spawn, Inject, OrphanPeek, Select, HandleCallback, ClearBegin, Await, Goto,
            Idle, At,
            RouterTypeOK
    <2> QED BY <2>1
<1>6. CASE Restart
    BY <1>6 DEF Restart, Idle, At
<1>7. CASE UNCHANGED rt
    BY <1>7
<1> QED BY <1>1, <1>2, <1>3, <1>4, <1>5, <1>6, <1>7, RouterFrame

LEMMA StepGrantInv ==
    ASSUME TypeOK, RefInv, KindInv, GrantInv, [Next]_vars, GatesStay, RouterMoves
    PROVE  GrantInv'
<1>0. /\ issued \in Nat /\ rt.r \in 0 .. issued /\ rt.pc \in RouterPcs
      /\ \A w \in Webs : webs[w].r \in 0 .. issued
      /\ \A r \in 1 .. issued : gate'[r].call = gate[r].call /\ (gate'[r].granted => gate[r].granted)
    BY TypeParts DEF RouterTypeOK, WebTypeOK, GatesStay
<1>1. CASE Restart
    <2>1. /\ issued' = issued /\ gate' = [r \in 1 .. issued |-> RestoredGate(gate[r])]
          /\ rt'.pc = "idle"
        BY <1>1 DEF Restart, Idle, At
    <2>2. \A r \in 1 .. issued : ~gate'[r].granted
        BY <2>1, RestoredFacts, TypeParts
    <2> QED BY <2>1, <2>2 DEF GrantInv
<1> SUFFICES ASSUME ~Restart PROVE GrantInv'
    BY <1>1
<1>2. approved \subseteq approved'
    BY HistoryFrame DEF HistoryChange, ResolveApproved, ExecRuns, ExecPauses
<1>3. rt.pc \in OnGate => rt.r \in 1 .. issued
    BY <1>0 DEF RefInv
<1>4. \A r \in 1 .. issued : gate'[r].granted => gate'[r].call \in approved'
    BY <1>0, <1>2 DEF GrantInv
<1>5. ASSUME NEW t, NEW kinds, NEW c, NEW granted, Builds(t, kinds, c, granted),
             granted => c \in approved
      PROVE  \A r \in 1 .. issued' : gate'[r].granted => gate'[r].call \in approved'
    BY <1>0, <1>2, <1>4, <1>5 DEF Builds
<1>6. \A r \in 1 .. issued' : gate'[r].granted => gate'[r].call \in approved'
    <2>1. CASE ResolveRequeued
        <3>1. gate[rt.r].granted => gate[rt.r].call \in approved
            BY <1>3, <2>1 DEF GrantInv, ResolveRequeued, Resolving, OnGate
        <3> QED BY <1>5, <2>1, <3>1, RequeueBuilds
    <2>2. ASSUME NEW k \in PauseKinds, ExecPauses(k)
          PROVE  \A r \in 1 .. issued' : gate'[r].granted => gate'[r].call \in approved'
        <3>1. rt.pc = "exec" /\ rt.r \in 1 .. issued
            BY <1>3, <2>2 DEF ExecPauses, OnGate
        <3>2. ApprovalGranted \/ gate[rt.r].kind = "approval" => gate[rt.r].call \in approved
            BY <3>1 DEF ApprovalGranted, GrantInv, KindInv
        <3> QED BY <1>5, <2>2, <3>2, PauseBuilds
    <2>3. CASE JoinPosted \/ JoinHandle
        <3>1. CASE UNCHANGED <<gate, issued>>
            BY <1>4, <3>1
        <3>2. CASE Builds(rt.t, {Reported(out[rt.t].kind)}, issued + 1, FALSE)
            BY <1>5, <3>2
        <3> QED BY <2>3, <3>1, <3>2, CollectBuilds
    <2>4. ASSUME NEW w \in Webs, WebBuild(w)
          PROVE  \A r \in 1 .. issued' : gate'[r].granted => gate'[r].call \in approved'
        <3>1. gate[webs[w].r].granted => gate[webs[w].r].call \in approved
            BY <1>0, <2>4 DEF GrantInv, WebBuild, RefInv
        <3> QED BY <1>5, <2>4, <3>1, WebBuilds
    <2>5. CASE UNCHANGED <<gate, issued>>
        BY <1>4, <2>5
    <2> QED BY <2>1, <2>2, <2>3, <2>4, <2>5, GateFrame DEF GateChange
<1>7. ASSUME rt'.pc = "exec", rt'.res \in {"approve", "deny"} PROVE gate'[rt'.r].call \in approved'
    <2>1. CASE ResolveApproved
        <3>1. gate[rt.r].call \in approved' /\ rt'.r = rt.r /\ rt.r \in 1 .. issued
            BY <1>3, <2>1, TypeParts DEF ResolveApproved, Resolving, Goto, OnGate, RouterTypeOK
        <3> QED BY <1>0, <3>1
    <2>2. CASE UNCHANGED rt
        BY <1>0, <1>2, <1>3, <1>7, <2>2 DEF GrantInv, OnGate
    <2>3. CASE ResolveReady /\ rt'.res = rt.res
        BY <1>7, <2>3 DEF ResolveReady, Resolving
    <2> QED BY <1>7, <2>1, <2>2, <2>3, StepExec
<1> QED BY <1>6, <1>7 DEF GrantInv

-----------------------------------------------------------------------------
(***************************************************************************)
(* The invariant holds in every reachable state.                           *)
(***************************************************************************)
LEMMA InitIInv == Init => IInv
<1> SUFFICES ASSUME Init PROVE IInv
    OBVIOUS
<1>1. TypeOK
    <2>1. GatesTypeOK
        <3>1. gate \in Seq(Gate) /\ Len(gate) = 0
            BY DEF Init, GatesInit
        <3>2. issued = 0 /\ gate \in [1 .. issued -> Gate]
            BY <3>1 DEF Init, GatesInit
        <3>3. NoRows \in [Threads -> 0 .. issued]
            BY <3>2 DEF NoRows
        <3>4. mem = NoRows /\ file = NoRows /\ torn = FALSE /\ expired = {}
            BY DEF Init, GatesInit
        <3>5. issued \in 0 .. MaxRequests
            BY <3>2, GatesAssumption DEF GatesAssumption
        <3> QED BY <3>2, <3>3, <3>4, <3>5 DEF GatesTypeOK
    <2>2. NoOutcome \in [kind : Outcomes, needs : BOOLEAN]
        BY DEF NoOutcome, Outcome, Outcomes
    <2>3. Idle \in [pc : RouterPcs, t : Threads, r : 0 .. issued,
                    res : {"none", "approve", "deny", "credential", "cancel", "callback"}]
        BY AnyThreadIsOne DEF Init, GatesInit, Idle, At, RouterPcs
    <2>4. WebIdle \in [pc : {"idle", "discard", "unlink", "build", "insert", "save"},
                       op : {"none", "clear", "replay", "pair"}, t : Threads, r : 0 .. issued]
        BY AnyThreadIsOne DEF Init, GatesInit, WebIdle, WebAt
    <2> QED BY <2>1, <2>2, <2>3, <2>4, RouterAssumption
            DEF Init, TypeOK, RouterAssumption, ThreadState
<1>2. /\ rt.pc = "idle" /\ \A w \in Webs : webs[w].pc = "idle"
      /\ \A t \in Threads : /\ mem[t] = NoRequest /\ file[t] = NoRequest
                            /\ task[t] = "none" /\ out[t].kind = "none"
      /\ completed = {} /\ issued = 0
    BY DEF Init, GatesInit, NoRows, Idle, At, WebIdle, WebAt, NoOutcome, Outcome
<1> QED BY <1>1, <1>2 DEF IInv, RefInv, TaskInv, TokenInv, WebHolds, KindInv, WaitInv, GrantInv,
            GateOwnerIsWaiting, LiveOfKind, IsLive, OnGate, Holding, Joining, PauseKinds,
            Missed, Executing

LEMMA StepIInv == IInv /\ [Next]_vars => IInv'
<1> SUFFICES ASSUME IInv, [Next]_vars PROVE IInv'
    OBVIOUS
<1> USE DEF IInv
<1>1. TypeOK' /\ RefInv' /\ GatesStay /\ RouterMoves /\ WebMoves
    BY StepTypeOK, StepRefInv, StepGates, StepRouter, StepWebs
<1> QED BY <1>1, StepTaskInv, StepTokenInv, StepKindInv, StepWaitInv, StepGrantInv

LEMMA AlwaysIInv == Spec => []IInv
BY InitIInv, StepIInv, PTL DEF Spec

\* Every variable holds a value of its kind, and every gate that store, file,
\* router or web request refers to was built.
THEOREM TypeCorrect == Spec => []TypeOK
<1>1. IInv => TypeOK
    BY DEF IInv
<1> QED BY <1>1, AlwaysIInv, PTL

\* take_verified and discard hand a gate to one caller only: whoever took a gate
\* and is about to insert its successor finds the thread's slot free, so insert
\* never answers AlreadyExists and the paused call is not dropped.
THEOREM InsertIsExclusive == Spec => []InsertFindsFreeSlot
<1>1. IInv => InsertFindsFreeSlot
    BY DEF IInv, TokenInv, InsertFindsFreeSlot, Inserts, Holding, WebHolds
<1> QED BY <1>1, AlwaysIInv, PTL

\* A live approval or authentication gate on a tool call belongs to a thread that
\* waits for it, through fail_orphaned_waiting_thread_if_needed, the web handlers
\* and the reconciliation of a restart.
THEOREM OwnerWaits == Spec => []GateOwnerIsWaiting
<1>1. IInv => GateOwnerIsWaiting
    BY DEF IInv, WaitInv
<1> QED BY <1>1, AlwaysIInv, PTL

\* No thread executes between two messages, for at its deadline await_thread_outcome
\* still joins the task; and an outcome that join_thread missed is never handed over
\* as that of a later run, for its thread has no gate left to be resumed through.
THEOREM RunsSettle == Spec => []RunsAreSettled
<1>1. IInv => RunsAreSettled
    BY DEF IInv, TaskInv, RunsAreSettled, Joining
<1> QED BY <1>1, AlwaysIInv, PTL

\* execute_pending_gate_action runs a tool that requires approval only when the
\* user approved that very call since the process started: the hint
\* approval_already_granted is set by an approval alone and cleared on restore.
THEOREM ApprovalIsNeverSkipped == Spec => ApprovalNeverSkipped
<1>1. IInv /\ [Next]_vars => [\A c \in ran' \ ran : gate[rt.r].needs => c \in approved]_vars
    <2> SUFFICES ASSUME IInv, [Next]_vars, NEW c \in ran' \ ran, gate[rt.r].needs
                 PROVE  c \in approved
        OBVIOUS
    <2>1. /\ rt.pc = "exec" /\ c = gate[rt.r].call /\ ApprovalMet
        BY HistoryFrame DEF HistoryChange, ResolveApproved, ExecRuns, ExecPauses, Restart
    <2>2. rt.r \in 1 .. issued
        BY <2>1, TypeParts DEF IInv, RefInv, OnGate, RouterTypeOK
    <2> QED BY <2>1, <2>2 DEF IInv, GrantInv, ApprovalMet, ApprovalGranted
<1> QED BY <1>1, AlwaysIInv, PTL DEF Spec, ApprovalNeverSkipped

-----------------------------------------------------------------------------
(***************************************************************************)
(* A call runs at most once, as long as the file can be read and written.  *)
(***************************************************************************)
StaysFresh(r) == gate'[r].kind \in RunKinds => gate'[r].call \notin ran'

LEMMA StepFresh ==
    ASSUME TypeOK, RefInv, TokenInv, RunInv, [Next]_vars, GatesStay,
           NEW r \in 1 .. issued, Fresh(r),
           rt.pc = "exec" /\ gate[r].thread = rt.t => ~Runs(r)
    PROVE  StaysFresh(r)
<1>0. /\ gate[r].call \in 1 .. issued /\ gate'[r].kind = gate[r].kind /\ gate'[r].call = gate[r].call
      /\ rt.pc = "exec" => rt.r \in 1 .. issued /\ gate[rt.r].thread = rt.t
    BY TypeParts DEF GatesStay, RefInv, Gate, Requests, OnGate, RouterTypeOK
<1>1. CASE ran' = ran
    BY <1>0, <1>1 DEF Fresh, Runs, StaysFresh
<1>2. CASE rt.pc = "exec" /\ ran' = ran \cup {gate[rt.r].call}
    <2>1. CASE gate[r].thread = rt.t
        BY <1>0, <1>2, <2>1 DEF Fresh, Runs, StaysFresh
    <2>2. CASE gate[r].thread # rt.t
        <3>1. gate[gate[r].call].thread = gate[r].thread
              /\ gate[gate[rt.r].call].thread = gate[rt.r].thread
            BY <1>0, <1>2 DEF RefInv
        <3> QED BY <1>0, <1>2, <2>2, <3>1 DEF Fresh, Runs, StaysFresh
    <2> QED BY <2>1, <2>2
<1> QED BY <1>1, <1>2, HistoryFrame DEF HistoryChange, ResolveApproved, ExecRuns, ExecPauses, Restart

\* What the file holds, without errors: a row changes where and when the code says.
LEMMA StepFileWorks ==
    ASSUME TypeOK, RunInv, ~FileErrors, [Next]_vars
    PROVE  /\ torn' => file' = NoRows
           /\ TakeUnlink => file'[rt.t] = NoRequest
<1>0. file \in [Threads -> 0 .. issued] /\ torn \in BOOLEAN /\ rt.t \in Threads
      /\ (torn => file = NoRows)
    BY TypeParts DEF GatesTypeOK, RouterTypeOK, RunInv
<1>1. ASSUME NEW t \in Threads, NEW r, NEW ok \in BOOLEAN, SaveRow(t, r, ok) \/ RemoveRow(t, ok)
      PROVE  torn' => file' = NoRows
    BY <1>0, <1>1 DEF SaveRow, RemoveRow, WriteState
<1>2. ASSUME NEW ok \in BOOLEAN, RemoveRow(rt.t, ok) PROVE file'[rt.t] = NoRequest
    BY <1>0, <1>2 DEF RemoveRow, WriteState, NoRows
<1>3. CASE Restart
    <2>1. PICK rows \in {file, NoRows}, bad \in BOOLEAN :
             /\ torn => bad
             /\ bad => torn \/ rows = NoRows
             /\ mem' = Reconciled(Restored(rows, bad), Recovered)
             /\ torn' = bad
             /\ file' = [t \in Threads |->
                            IF Restored(rows, bad)[t] # mem'[t] THEN NoRequest ELSE rows[t]]
        BY <1>3, RestartFacts
    <2>2. ASSUME bad PROVE file' = NoRows
        <3>1. rows = NoRows
            BY <1>0, <2>1, <2>2
        <3> QED BY <2>1, <3>1 DEF NoRows
    <2>3. ~TakeUnlink
        BY <1>3 DEF Restart, TakeUnlink, Goto, Idle, At
    <2> QED BY <2>1, <2>2, <2>3
<1>4. CASE UNCHANGED <<file, torn>> /\ ~TakeUnlink
    BY <1>0, <1>4
<1>5. CASE TakeUnlink
    BY <1>0, <1>1, <1>2, <1>5 DEF TakeUnlink
<1>6. CASE GateSave \/ ClearUnlink
    <2>1. ~TakeUnlink
        BY <1>6 DEF TakeUnlink, GateSave, ClearUnlink
    <2> QED BY <1>0, <1>1, <1>6, <2>1 DEF GateSave, ClearUnlink
<1>7. ASSUME NEW w \in Webs, WebUnlink(w) \/ WebSave(w)
      PROVE  (torn' => file' = NoRows) /\ ~TakeUnlink
    <2>1. webs[w].t \in Threads /\ webs' # webs
        BY <1>7, TypeParts DEF WebUnlink, WebSave, WebTypeOK, WebGoto, WebReturn, WebIdle, WebAt
    <2>2. ~TakeUnlink
        BY <2>1 DEF TakeUnlink
    <2> QED BY <1>1, <1>7, <2>1, <2>2 DEF WebUnlink, WebSave
<1> QED BY <1>3, <1>4, <1>5, <1>6, <1>7, FileFrame DEF FileChange

LEMMA StepRunInv ==
    ASSUME IInv, RunInv, ~FileErrors, [Next]_vars, GatesStay, RouterMoves, WebMoves
    PROVE  RunInv'
<1>0. /\ issued \in Nat /\ rt.r \in 0 .. issued /\ rt.t \in Threads /\ rt'.t \in Threads
      /\ mem \in [Threads -> 0 .. issued] /\ file \in [Threads -> 0 .. issued]
      /\ \A w \in Webs : webs[w].r \in 0 .. issued
      /\ issued' \in Nat /\ issued <= issued'
      /\ \A r \in 1 .. issued : gate'[r].kind = gate[r].kind /\ gate'[r].call = gate[r].call
    BY TypeParts, StepRouterType, GatesAssumption
    DEF IInv, GatesTypeOK, RouterTypeOK, WebTypeOK, GatesStay, GatesAssumption
<1>1. TypeOK /\ RefInv /\ TokenInv /\ KindInv
    BY DEF IInv
<1>2. rt.pc \in OnGate => rt.r \in 1 .. issued /\ gate[rt.r].thread = rt.t
    BY <1>0, <1>1 DEF RefInv
<1>3. \A r \in 1 .. issued : Fresh(r) /\ (rt.pc = "exec" /\ gate[r].thread = rt.t => ~Runs(r)) => StaysFresh(r)
    BY <1>1, StepFresh
<1>5. ran' \subseteq 1 .. issued'
    <2>1. rt.pc = "exec" => gate[rt.r].call \in 1 .. issued
        BY <1>0, <1>1, <1>2, TypeParts DEF RefInv, OnGate, Gate, Requests
    <2>2. ran \subseteq 1 .. issued'
        BY <1>0 DEF RunInv
    <2> QED BY <1>0, <2>1, <2>2, HistoryFrame DEF HistoryChange, ResolveApproved, ExecRuns, ExecPauses, Restart
<1>6. torn' => file' = NoRows
    BY <1>1, StepFileWorks
\* A gate kept in the store or in the file stays fresh.
<1>7. ASSUME NEW t \in Threads, mem[t] # NoRequest PROVE mem[t] \in 1 .. issued /\ StaysFresh(mem[t])
    <2>1. mem[t] \in 1 .. issued /\ gate[mem[t]].thread = t
        BY <1>0, <1>1, <1>7 DEF RefInv
    <2>2. rt.pc = "exec" => t # rt.t
        BY <1>1, <1>7 DEF TokenInv, Holding
    <2> QED BY <1>3, <1>7, <2>1, <2>2 DEF RunInv
<1>8. ASSUME NEW t \in Threads, file[t] # NoRequest PROVE file[t] \in 1 .. issued /\ StaysFresh(file[t])
    <2>1. file[t] \in 1 .. issued /\ gate[file[t]].thread = t
        BY <1>0, <1>1, <1>8 DEF RefInv
    <2>2. rt.pc = "exec" /\ t = rt.t => ~Runs(file[t])
        BY <1>8 DEF RunInv
    <2> QED BY <1>3, <1>8, <2>1, <2>2 DEF RunInv
<1>9. ASSUME NEW w \in Webs, webs[w].pc \in {"insert", "save"}
      PROVE  webs[w].r \in 1 .. issued /\ StaysFresh(webs[w].r) /\ gate'[webs[w].r].kind \notin RunKinds
    BY <1>0, <1>1, <1>9 DEF RefInv, KindInv, RunKinds, StaysFresh
<1>10. ASSUME rt.pc \in OnGate \ {"take", "exec"} PROVE StaysFresh(rt.r)
    BY <1>2, <1>3, <1>10 DEF RunInv
<1>11. ASSUME NEW t \in Threads, mem'[t] # NoRequest PROVE StaysFresh(mem'[t])
    BY <1>7, <1>8, <1>9, <1>10, <1>11, <1>1, StepMem DEF MemMoves, OnGate
<1>12. ASSUME NEW t \in Threads, file'[t] # NoRequest PROVE StaysFresh(file'[t])
    BY <1>8, <1>9, <1>10, <1>12, <1>1, StepFile DEF FileMoves, OnGate

<1>13. ASSUME rt'.pc \in OnGate \ {"take"}, rt.pc \in OnGate, rt'.r = rt.r, rt'.t = rt.t
       PROVE  StaysFresh(rt'.r)
    <2>1. CASE rt.pc = "take"
        <3>1. mem[rt.t] = rt.r
            BY <1>13, <2>1 DEF RouterMoves, OnGate, Holding, Joining, Spawn, Idle, At
        <3> QED BY <1>0, <1>2, <1>7, <1>13, <2>1, <3>1
    <2>2. CASE rt.pc = "exec"
        <3>1. ~ExecRuns
            BY <1>13 DEF ExecRuns, ToResume, At, OnGate
        <3>2. \A k \in PauseKinds : ~ExecPauses(k)
            BY <1>0, <1>13 DEF ExecPauses, NextRequest, At
        <3>3. UNCHANGED ran
            BY <3>1, <3>2, HistoryFrame DEF HistoryChange, ResolveApproved, Restart
        <3> QED BY <1>0, <1>2, <1>13, <2>2, <3>3 DEF RunInv, StaysFresh, Fresh, Runs, OnGate
    <2> QED BY <1>10, <1>13, <2>1, <2>2
<1>14. ASSUME /\ rt'.pc = "insert" /\ rt.pc \in {"resolved", "exec"} \cup Joining
              /\ rt'.t = rt.t /\ rt'.r = issued' /\ issued' = issued + 1
       PROVE  StaysFresh(rt'.r)
    <2>1. rt' # rt
        BY <1>0, <1>14
    <2>2. CASE ResolveRequeued
        <3>1. Fresh(rt.r) /\ UNCHANGED ran
            BY <2>2 DEF RunInv, ResolveRequeued, Resolving, OnGate
        <3> QED BY <1>1, <1>14, <2>2, <3>1, RequeueBuilds DEF Builds, StaysFresh, Fresh, Runs, RunKinds
    <2>3. ASSUME NEW k \in PauseKinds, ExecPauses(k) PROVE StaysFresh(rt'.r)
        <3>1. gate[rt.r].call \notin ran
            BY <2>3 DEF RunInv, ExecPauses, Fresh, OnGate
        <3>2. k \notin RunKinds \/ UNCHANGED ran
            BY <2>3 DEF ExecPauses, RunKinds
        <3> QED BY <1>1, <1>14, <2>3, <3>1, <3>2, PauseBuilds DEF Builds, StaysFresh
    <2>4. CASE JoinPosted \/ JoinHandle
        <3>1. gate'[issued'].call = issued + 1
            BY <1>0, <1>1, <1>14, <2>4, CollectBuilds DEF Builds
        <3>2. issued + 1 \notin ran /\ UNCHANGED ran
            BY <1>0, <2>4 DEF RunInv, JoinPosted, JoinHandle
        <3> QED BY <1>14, <3>1, <3>2 DEF StaysFresh
    <2>5. \A w \in Webs : ~WebBuild(w)
        BY <2>1 DEF WebBuild
    <2>6. ~Restart
        BY <1>14 DEF Restart, Idle, At
    <2> QED BY <1>0, <1>14, <2>2, <2>3, <2>4, <2>5, <2>6, GateFrame DEF GateChange
<1>15. rt'.pc \in OnGate \ {"take"} => StaysFresh(rt'.r)
    BY <1>13, <1>14 DEF RouterMoves, OnGate
<1>16. ASSUME rt'.pc = "exec" PROVE gate'[rt'.r].kind \in RunKinds
    <2>1. CASE UNCHANGED rt
        BY <1>0, <1>2, <1>16, <2>1 DEF RunInv, Runs, OnGate
    <2>2. CASE ResolveApproved \/ (ResolveReady /\ gate[rt.r].kind # "staged")
        <3>1. rt.pc = "resolved" /\ rt.r \in 1 .. issued
            BY <1>2, <2>2 DEF ResolveApproved, ResolveReady, Resolving, OnGate
        <3>2. gate[rt.r].kind \in RunKinds
            BY <1>1, <2>2, <3>1 DEF KindInv, ResolveApproved, ResolveReady, Resolving, RunKinds, AuthKinds
        <3> QED BY <1>0, <1>1, <1>16, <3>1, <3>2, StepExec
    <2> QED BY <1>1, <1>16, <2>1, <2>2, StepExec
<1>17. ASSUME rt'.pc \in {"resolved", "exec"}, file'[rt'.t] # NoRequest
       PROVE  gate'[file'[rt'.t]].kind \notin RunKinds
    <2>1. ~TakeUnlink
        <3>1. TakeUnlink => rt'.t = rt.t
            BY <1>1, TypeParts DEF TakeUnlink, Goto, RouterTypeOK
        <3> QED BY <1>1, <1>17, <3>1, StepFileWorks
    <2>2. rt.pc \in {"resolved", "exec"} /\ rt'.t = rt.t
        BY <1>1, <1>17, <2>1, StepExec DEF ResolveApproved, ResolveReady, Resolving
    <2>3. CASE file'[rt.t] = file[rt.t]
        <3>1. file[rt.t] \in 1 .. issued
            BY <1>0, <1>17, <2>2, <2>3
        <3> QED BY <1>0, <1>17, <2>2, <2>3, <3>1 DEF RunInv, Runs
    <2> QED BY <1>0, <1>1, <1>9, <1>17, <2>2, <2>3, StepFile DEF FileMoves
<1> QED BY <1>5, <1>6, <1>11, <1>12, <1>15, <1>16, <1>17 DEF RunInv, StaysFresh, Fresh, Runs

\* execute_pending_gate_action never reaches a call it already ran, through any
\* chain of gates, with web requests beside it and across restarts that may cut a
\* write short: the file is updated before the gate is acted upon.  It needs a
\* file that can be read and written, since a remove that fails is only logged.
THEOREM CallRunsOnce == ~FileErrors => (Spec => []RunsOnce)
<1> SUFFICES ASSUME ~FileErrors PROVE Spec => []RunsOnce
    OBVIOUS
<1>1. Init => RunInv
    BY DEF Init, GatesInit, RunInv, NoRows, Idle, At, OnGate
<1>2. IInv /\ RunInv /\ [Next]_vars => RunInv'
    <2> SUFFICES ASSUME IInv, RunInv, [Next]_vars PROVE RunInv'
        OBVIOUS
    <2>1. GatesStay /\ RouterMoves /\ WebMoves
        BY StepGates, StepRouter, StepWebs DEF IInv
    <2> QED BY <2>1, StepRunInv
<1>3. RunInv => RunsOnce
    BY DEF RunInv, RunsOnce, Fresh, OnGate
<1> QED BY <1>1, <1>2, <1>3, AlwaysIInv, PTL DEF Spec
=============================================================================
