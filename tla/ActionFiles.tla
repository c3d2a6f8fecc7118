----------------------------- MODULE ActionFiles ----------------------------
(***************************************************************************)
(* The files that actions keep under .ovc: the secrets vault (secrets.rs), *)
(* the configuration actions.yml and the history of runs (history.rs).     *)
(* Handlers of the server and commands read, change and write them without *)
(* a lock; fs::write truncates the file before it fills it, and whoever    *)
(* dies in between leaves it torn, or with only the beginning of what it   *)
(* should have.                                                            *)
(***************************************************************************)
EXTENDS Integers, Sequences, FiniteSets

CONSTANTS
    Writers,     \* handlers and commands, each of which does one thing
    Passphrase,  \* Passphrase[w]: OVC_KEY_PASSPHRASE, or 0
    Items,       \* names of secrets, names of actions
    Limit,       \* how many runs a listing reads
    MaxRuns      \* bound: runs recorded

ASSUME ActionFilesAssumptions ==
    Passphrase \in [Writers -> Nat] /\ Limit \in Nat \ {0} /\ MaxRuns \in Nat

VARIABLES
    disk,    \* disk[f]: secrets.enc and actions.yml
    writer,  \* writer[w]
    runs,    \* the files of actions-history, newest first
    record,  \* record_run: the run that is being written, or 0
    sweep,   \* clear: the runs that it still has to remove
    acked,   \* history: acked[f], the items put there with success and not removed
    mixed,   \* history: mixed[f], a load and its write had another write between
    cutBack, \* history: a configuration was loaded cut short and written back
    died     \* history: somebody died

filesVars == <<disk, writer, runs, record, sweep, acked, mixed, cutBack, died>>
historyVars == <<runs, record, sweep>>

Files   == {"secrets", "config"}
Missing == [st |-> "none", enc |-> 0, items |-> {}]
Quiet   == [pc |-> "idle", file |-> "secrets", op |-> "list", item |-> 0, new |-> Missing,
            stale |-> FALSE, cut |-> FALSE]

(* What a command does to a file: SecretsVault::set and remove,            *)
(* put_action_config, delete_action_config, put_config and init_config.    *)
Ops(f) == IF f = "secrets" THEN {"put", "remove"} ELSE {"put", "remove", "replace", "init"}

---------------------------------------------------------------------------
(* SecretsVault::load and ActionsConfig::load: a missing file is empty, an *)
(* encrypted one needs its passphrase, a torn one is an error.  Not so the *)
(* beginning of a configuration that is still YAML: every part of it has a *)
(* default, so that even the empty file is a configuration.                *)
Readable(w, f) ==
    \/ disk[f].st \in {"none", "cut"}
    \/ disk[f].st = "whole" /\ disk[f].enc \in {0, Passphrase[w]}

(* What a write leaves that has only begun. *)
Begun(f, new) ==
    {[st |-> "torn", enc |-> 0, items |-> {}]} \cup
    (IF f = "config" THEN {[st |-> "cut", enc |-> 0, items |-> S] : S \in SUBSET new.items}
     ELSE {})

(* save_with_passphrase: in plain only without a passphrase. *)
SavedWith(w, f) == IF f = "secrets" THEN Passphrase[w] ELSE 0

(* Mutant: every write begins with an empty file. *)
MutLoaded(w, f) == {}

Loaded(w, f) == IF Readable(w, f) THEN disk[f].items ELSE {}

(* What a command would write, having loaded the file now. *)
Changed(w, f, op, i) ==
    [st |-> "whole", enc |-> SavedWith(w, f),
     items |-> CASE op = "put"     -> Loaded(w, f) \cup {i}
                 [] op = "remove"  -> Loaded(w, f) \ {i}
                 [] op = "replace" -> {i}
                 [] op = "init"    -> {}]

(* The command goes on to write; the others report an error.  A whole new  *)
(* configuration needs no load, init wants no file unless it is forced, an *)
(* action that is deleted must be there.                                   *)
MayChange(w, f, op, i, force) ==
    CASE op = "replace" -> TRUE
      [] op = "init"    -> disk[f].st = "none" \/ force
      [] op = "put"     -> Readable(w, f)
      [] op = "remove"  -> Readable(w, f) /\ (f = "secrets" \/ i \in disk[f].items)

Load(w) ==
    /\ writer[w].pc = "idle"
    /\ \E f \in Files, i \in Items, force \in BOOLEAN : \E op \in Ops(f) :
         writer' = [writer EXCEPT ![w] =
            IF MayChange(w, f, op, i, force)
              THEN [pc |-> "loaded", file |-> f, op |-> op, item |-> i,
                    new |-> Changed(w, f, op, i), stale |-> FALSE,
                    cut |-> disk[f].st = "cut" /\ op \in {"put", "remove"}]
              ELSE [@ EXCEPT !.pc = "ended"]]
    /\ UNCHANGED <<disk, historyVars, acked, mixed, cutBack, died>>

(* fs::write, first half. *)
Truncate(w) ==
    /\ writer[w].pc = "loaded"
    /\ \E begun \in Begun(writer[w].file, writer[w].new) :
          disk' = [disk EXCEPT ![writer[w].file] = begun]
    /\ writer' = [v \in Writers |->
          IF v = w THEN [writer[w] EXCEPT !.pc = "torn"]
          ELSE IF writer[v].file = writer[w].file THEN [writer[v] EXCEPT !.stale = TRUE]
          ELSE writer[v]]
    /\ mixed' = [mixed EXCEPT ![writer[w].file] =
          @ \/ writer[w].stale \/ \E v \in Writers \ {w} :
                    writer[v].pc = "torn" /\ writer[v].file = writer[w].file]
    /\ cutBack' = (cutBack \/ writer[w].cut)
    /\ UNCHANGED <<historyVars, acked, died>>

(* Second half, and the answer. *)
Fill(w) ==
    /\ writer[w].pc = "torn"
    /\ LET f == writer[w].file IN
         /\ disk' = [disk EXCEPT ![f] = writer[w].new]
         /\ acked' = [acked EXCEPT ![f] =
               CASE writer[w].op = "put"    -> @ \cup {writer[w].item}
                 [] writer[w].op = "remove" -> @ \ {writer[w].item}
                 [] OTHER                   -> writer[w].new.items]
    /\ writer' = [writer EXCEPT ![w].pc = "ended"]
    /\ UNCHANGED <<historyVars, mixed, cutBack, died>>

WriterDies(w) ==
    /\ writer[w].pc \in {"loaded", "torn"}
    /\ writer' = [writer EXCEPT ![w].pc = "ended"]
    /\ died' = TRUE
    /\ UNCHANGED <<disk, historyVars, acked, mixed, cutBack>>

---------------------------------------------------------------------------
(* The history: record_run creates a file and fills it. *)
RecordCreates ==
    /\ record = 0 /\ Len(runs) < MaxRuns
    /\ \E id \in 1..MaxRuns :
         /\ \A k \in DOMAIN runs : runs[k].id # id
         /\ runs' = <<[id |-> id, whole |-> FALSE]>> \o runs
         /\ record' = id
    /\ UNCHANGED <<disk, writer, sweep, acked, mixed, cutBack, died>>

(* A file that clear removed meanwhile is filled out of sight. *)
RecordFills ==
    /\ record # 0
    /\ runs' = [k \in DOMAIN runs |->
                  IF runs[k].id = record THEN [runs[k] EXCEPT !.whole = TRUE] ELSE runs[k]]
    /\ record' = 0
    /\ UNCHANGED <<disk, writer, sweep, acked, mixed, cutBack, died>>

RecorderDies ==
    /\ record # 0
    /\ record' = 0
    /\ died' = TRUE
    /\ UNCHANGED <<disk, writer, runs, sweep, acked, mixed, cutBack>>

(* Mutant: only records that can be read are removed. *)
MutSwept == {runs[k].id : k \in {j \in DOMAIN runs : runs[j].whole}}

(* ActionHistory::clear lists the directory and removes file by file. *)
Swept == {runs[k].id : k \in DOMAIN runs}

ClearLists ==
    /\ sweep = {} /\ runs # <<>>
    /\ sweep' = Swept
    /\ died' = FALSE
    /\ UNCHANGED <<disk, writer, runs, record, acked, mixed, cutBack>>

(* remove_file. *)
Without(s, k) == SubSeq(s, 1, k - 1) \o SubSeq(s, k + 1, Len(s))

ClearRemoves ==
    /\ sweep # {}
    /\ \E id \in sweep :
         /\ \/ \E k \in DOMAIN runs :
                   runs[k].id = id /\ runs' = Without(runs, k)
            \/ (\A k \in DOMAIN runs : runs[k].id # id) /\ UNCHANGED runs
         /\ sweep' = sweep \ {id}
    /\ UNCHANGED <<disk, writer, record, acked, mixed, cutBack, died>>

(* list_runs fails on the first record of the newest that it cannot read. *)
list_runs == \A k \in DOMAIN runs : k <= Limit => runs[k].whole

FilesInit ==
    /\ disk \in {[f \in Files |-> Missing],
                 [f \in Files |-> [st |-> "whole", enc |-> IF f = "secrets" THEN 1 ELSE 0,
                                   items |-> Items]]}
    /\ writer = [w \in Writers |-> Quiet]
    /\ runs = <<>> /\ record = 0 /\ sweep = {}
    /\ acked = [f \in Files |-> disk[f].items]
    /\ mixed = [f \in Files |-> FALSE] /\ cutBack = FALSE /\ died = FALSE

UpdateStep == \E w \in Writers : Load(w) \/ Truncate(w) \/ Fill(w) \/ WriterDies(w)

HistoryStep == RecordCreates \/ RecordFills \/ RecorderDies \/ ClearLists \/ ClearRemoves

FilesNext == UpdateStep \/ HistoryStep

FilesSpec == FilesInit /\ [][FilesNext]_filesVars

---------------------------------------------------------------------------
(* A secret or an action that was stored with success is in its file until *)
(* it is removed, unless another command wrote the file between a load and *)
(* the write that followed it; for actions, also unless what was loaded    *)
(* and written back was the beginning of a configuration whose write was   *)
(* under way or died.  A vault that is torn or cannot be decrypted is      *)
(* never the start of a new one.                                           *)
UpdatesKept ==
    \A f \in Files :
        disk[f].st = "whole" =>
            acked[f] \subseteq disk[f].items \/ mixed[f] \/ (f = "config" /\ cutBack)

(* The list of runs can be read, unless a record is being written or       *)
(* somebody has died since the history was last cleared.                   *)
HistoryReadable == ~list_runs => record # 0 \/ died \/ sweep # {}

(* The files keep what was put into them, although they are written        *)
(* without a lock and in two steps.                                        *)
FilesKept == UpdatesKept /\ HistoryReadable
=============================================================================
