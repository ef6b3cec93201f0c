---------------------------- MODULE PendingGates ----------------------------
(***************************************************************************)
(* The PendingGateStore of the engine bridge: the gates (approval,         *)
(* authentication, pairing) on which engine threads are paused, kept in    *)
(* memory under one mutex and mirrored in the file pending-gates.json.     *)
(*                                                                         *)
(* Every store method works in two steps, the memory under the mutex and   *)
(* the file after the mutex is released, so each is two operators here     *)
(* and a caller's other steps may fall between them.                       *)
(*                                                                         *)
(* A gate is named by its request id; ids are handed out in order, so the  *)
(* order of ids is the order of created_at.  A thread has one owner, so    *)
(* the key (user_id, thread_id) is the thread.                             *)
(*                                                                         *)
(* Bounds: MaxRequests caps the request ids, MaxExpiries how many expire.  *)
(***************************************************************************)
EXTENDS Integers, FiniteSets

CONSTANTS
    Threads,      \* engine thread ids
    MaxRequests,  \* bound: gates built
    MaxExpiries,  \* bound: gates that expire
    FileErrors    \* whether reading or writing the file may fail

ASSUME GatesAssumption ==
    /\ IsFiniteSet(Threads) /\ Threads # {}
    /\ MaxRequests \in Nat /\ MaxExpiries \in Nat
    /\ FileErrors \in BOOLEAN

VARIABLES
    gate,     \* request id -> the PendingGate built with that id
    issued,   \* request ids handed out so far
    mem,      \* StoreInner::by_key: thread -> request id, NoRequest when absent
    file,     \* pending-gates.json: thread -> request id of its row
    torn,     \* the file does not parse
    expired   \* requests whose expires_at lies in the past

gateVars == <<gate, issued, mem, file, torn, expired>>

NoRequest == 0
Requests == 1 .. MaxRequests
NoRows == [t \in Threads |-> NoRequest]

(***************************************************************************)
(* Kinds of gate.  "staged" is an Authentication gate whose action already *)
(* ran and left its output in resume_output; "fallback" is the             *)
(* Authentication gate built from the text of a finished thread            *)
(* (action_name authentication_fallback); "pairing" is External.           *)
(***************************************************************************)
AuthKinds == {"auth", "staged", "fallback"}
GateKinds == {"approval", "pairing"} \cup AuthKinds

\* call: the tool call the gate stands for, named by its first request id.
\* needs: the tool's approval requirement; granted: approval_already_granted.
Gate == [thread : Threads, kind : GateKinds, call : Requests, needs : BOOLEAN,
         granted : BOOLEAN]

IsLive(t) == mem[t] # NoRequest /\ mem[t] \notin expired
LiveOfKind(t, kinds) == IsLive(t) /\ gate[mem[t]].kind \in kinds

\* request_id: Uuid::new_v4() while the PendingGate is built.
NextRequest == issued + 1
CanBuild == issued < MaxRequests
Build(t, k, c, n, g) ==
    /\ CanBuild
    /\ issued' = NextRequest
    /\ gate' = [r \in 1 .. NextRequest |->
                  IF r = NextRequest
                  THEN [thread |-> t, kind |-> k, call |-> c, needs |-> n, granted |-> g]
                  ELSE gate[r]]

(***************************************************************************)
(* The memory half of insert, take_verified and discard, each under the    *)
(* mutex.  They leave file and torn to the caller's second step.           *)
(***************************************************************************)
Slot(t, r) == mem' = [mem EXCEPT ![t] = r]

\* insert: AlreadyExists when the key is taken.
Inserts(t) == mem[t] = NoRequest
Insert(t, r) == Inserts(t) /\ Slot(t, r)

\* take_verified: the id must match; an expired gate is dropped from memory only.
Takes(t, r) == mem[t] = r /\ r \notin expired
TakeVerified(t, r) ==
    /\ mem[t] = r
    /\ Slot(t, NoRequest)

\* discard and discard_for_thread: by key, whatever gate is there.
Discards(t) == mem[t] # NoRequest
Discard(t) == Discards(t) /\ Slot(t, NoRequest)

(***************************************************************************)
(* The file half.  write_state truncates the file, then writes it, so an   *)
(* error may leave it as it was, empty, or cut short; a file that does not *)
(* parse fails every later save and remove.                                *)
(***************************************************************************)
FileCutShort == file' = NoRows /\ torn' \in BOOLEAN

WriteState(rows, ok) ==
    \/ ok /\ ~torn /\ file' = rows /\ UNCHANGED torn
    \/ ~ok /\ (torn \/ FileErrors) /\ UNCHANGED <<file, torn>>
    \/ ~ok /\ ~torn /\ FileErrors /\ FileCutShort

SaveRow(t, r, ok) == WriteState([file EXCEPT ![t] = r], ok)

\* Mutant of RemoveRow: the row stays.
RemoveRowForgotten(t, ok) == WriteState(file, ok)

RemoveRow(t, ok) == WriteState([file EXCEPT ![t] = NoRequest], ok)

(***************************************************************************)
(* restore_from_persistence: the unexpired rows, with                      *)
(* approval_already_granted cleared; nothing when the file does not parse. *)
(***************************************************************************)
Restored(rows, cut) ==
    [t \in Threads |-> IF cut \/ rows[t] \in expired THEN NoRequest ELSE rows[t]]

\* Mutant of RestoredGate: the hint survives the restart.
RestoredGateKeeps(g) == g

RestoredGate(g) == [g EXCEPT !.granted = FALSE]

\* Thirty minutes pass.
Expire(r) ==
    /\ r \in 1 .. issued /\ r \notin expired /\ Cardinality(expired) < MaxExpiries
    /\ \E t \in Threads : r \in {mem[t], file[t]}
    /\ expired' = expired \cup {r}
    /\ UNCHANGED <<gate, issued, mem, file, torn>>

GatesInit ==
    /\ gate = <<>>
    /\ issued = 0
    /\ mem = NoRows
    /\ file = NoRows
    /\ torn = FALSE
    /\ expired = {}

GatesTypeOK ==
    /\ issued \in 0 .. MaxRequests
    /\ gate \in [1 .. issued -> Gate]
    /\ mem \in [Threads -> 0 .. issued]
    /\ file \in [Threads -> 0 .. issued]
    /\ torn \in BOOLEAN
    /\ expired \subseteq 1 .. issued
=============================================================================
