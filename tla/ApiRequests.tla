---------------------------- MODULE ApiRequests -----------------------------
(***************************************************************************)
(* The requests one ovc-api server handles for one repository.  Handlers   *)
(* that write take the per-repository tokio mutex (AppState::repo_lock),   *)
(* open the file in a blocking task, change and save it in another, and    *)
(* release the mutex when they return; handlers that only read open the    *)
(* file without the mutex (routes/branches.rs, routes/repos.rs).           *)
(*                                                                         *)
(* The processes of RepoSave are the requests.  They share one operating   *)
(* system process, so they crash together.                                 *)
(***************************************************************************)
EXTENDS RepoSave

CONSTANTS
    Writers,      \* requests whose handler writes
    Disconnects   \* requests whose client may go away early

ASSUME WritersAssumption ==
    Writers \subseteq Procs /\ Disconnects \subseteq Writers

VARIABLES
    mutex,   \* the request that holds the repository's mutex
    stage    \* stage[p]: how far the handler of p is

apiVars == <<mutex, stage>>
allVars == <<vars, apiVars>>

(* queued: waits for the mutex; guarded: holds it or is done; reading: a   *)
(* handler without mutex; dropped, orphan: the handler's future is gone    *)
(* while its opening, or its saving, blocking task still runs.             *)
Stages == {"queued", "guarded", "reading", "dropped", "orphan"}

ApiInit ==
    /\ Init
    /\ mutex = NoOne
    /\ stage = [p \in Procs |-> IF p \in Writers THEN "queued" ELSE "reading"]

(* Mutant: the handler goes on without waiting for the mutex. *)
MutTakeGuard(p) ==
    /\ stage[p] = "queued"
    /\ mutex' = p
    /\ stage' = [stage EXCEPT ![p] = "guarded"]
    /\ UNCHANGED vars

(* repo_mtx.lock().await returns. *)
TakeGuard(p) ==
    /\ stage[p] = "queued"
    /\ mutex = NoOne
    /\ mutex' = p
    /\ stage' = [stage EXCEPT ![p] = "guarded"]
    /\ UNCHANGED vars

(* open_repo_blocking, then the closure that changes and saves. *)
WriterStep(p) ==
    /\ stage[p] = "guarded"
    /\ Step(p)
    /\ UNCHANGED apiVars

(* A reading handler opens the file and never saves. *)
ReaderStep(p) ==
    /\ stage[p] = "reading"
    /\ Open(p) \/ Exit(p)
    /\ UNCHANGED apiVars

(* The handler returns and its guard is dropped. *)
ReleaseGuard(p) ==
    /\ mutex = p
    /\ pc[p] \in Final
    /\ mutex' = NoOne
    /\ UNCHANGED <<vars, stage>>

(* The client closes its connection: the handler's future is dropped at    *)
(* its await, and with it the guard.  The blocking task cannot be stopped: *)
(* an open runs to its end and is thrown away, a save runs to its end.     *)
Disconnect(p) ==
    /\ p \in Disconnects
    /\ mutex = p
    /\ pc[p] \notin Final
    /\ mutex' = NoOne
    /\ stage' = [stage EXCEPT ![p] = IF pc[p] \in Opening THEN "dropped"
                                                          ELSE "orphan"]
    /\ UNCHANGED vars

DroppedStep(p) ==
    /\ stage[p] = "dropped"
    /\ Open(p) \/ Exit(p)
    /\ UNCHANGED apiVars

OrphanStep(p) ==
    /\ stage[p] = "orphan"
    /\ Step(p)
    /\ UNCHANGED apiVars

(* The server dies with every request it is handling; the requests still   *)
(* queued or not yet begun stand for those of the restarted server.        *)
Begun(p) == pc[p] \notin Final /\ (pc[p] # "open" \/ mutex = p)

ServerCrash ==
    /\ \E p \in Procs : Begun(p)
    /\ pc' = [p \in Procs |-> IF Begun(p) THEN "crashed" ELSE pc[p]]
    /\ mutex' = NoOne
    /\ UNCHANGED <<diskVars, mem, rd, merged, ops, histVars, stage>>

RequestStep(p) ==
    \/ TakeGuard(p) \/ WriterStep(p) \/ ReaderStep(p) \/ ReleaseGuard(p)
    \/ DroppedStep(p) \/ OrphanStep(p)

ApiNext ==
    \/ \E p \in Procs : RequestStep(p) \/ Disconnect(p)
    \/ ServerCrash
    \/ (Tick \/ AgeLock) /\ UNCHANGED apiVars

ApiSpec == ApiInit /\ [][ApiNext]_allVars

-----------------------------------------------------------------------------
(* The save of a request whose client went away ran, or runs, without the  *)
(* mutex.                                                                  *)
Orphaned == \E p \in Procs : stage[p] = "orphan"

(* With the mutex held from before open until after save, no request ever  *)
(* replaces a version it has not seen, although the conflict check runs    *)
(* before the lock and compares whole seconds, and none removes the lock   *)
(* file of a live one, though a lock whose text is not yet written looks   *)
(* stale to lock.rs: either takes a save that lost its mutex.              *)
ApiGuarded == lost \/ broken => Orphaned

(* The file read as a serial repository: every rename applies exactly one  *)
(* operation to the content of the previous one, or changes nothing.       *)
Serial == INSTANCE SerialRepo WITH objs <- disk.objs, refs <- disk.refs

ApiSerializable == [][Serial!Next \/ Orphaned]_<<disk.objs, disk.refs>>
=============================================================================
