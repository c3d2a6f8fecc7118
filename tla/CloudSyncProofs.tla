-------------------------- MODULE CloudSyncProofs ---------------------------
(***************************************************************************)
(* Theorems about CloudSync for any number of clones, files, chunks,       *)
(* commands and attempts, and for both backends.                           *)
(***************************************************************************)
EXTENDS CloudSync, TLAPS

(* Only a command over LocalBackend is between the two halves of a write.  *)
LocalPCs == {"cfill", "cgen", "cgfill", "mtrunc", "mfill", "mgen", "mgfill"}
SendPCs  == {"chunks", "cfill", "cgen", "cgfill"}
PutPCs   == {"mput", "mtrunc", "mfill", "mgen", "mgfill"}

(* The chunks of the manifest exist; a manifest that parses was published; *)
(* GcsBackend never leaves anything half written.                          *)
StoreInv ==
    /\ man \subseteq blobs
    /\ manSt = "whole" => man \in published
    /\ Gcs => /\ manSt \in {"none", "whole"}
              /\ genOk
              /\ torn = {}
              /\ badgen = {}

(* A push has sent what it will list; a pull fetches what was published.   *)
JobInv(j) ==
    /\ j.pc \notin {"idle", "checkout"} => j.snap \in made
    /\ j.pc \in LocalPCs => ~Gcs
    /\ j.pc \in SendPCs \cup PutPCs => j.cmd = "push"
    /\ j.cur \subseteq blobs
    /\ j.pc \notin {"cfill", "cgen", "cgfill"} => j.cur = {}
    /\ j.pc \in SendPCs => j.snap \ j.todo \subseteq blobs
    /\ j.pc \in {"mput", "mtrunc", "mfill"} => j.snap \subseteq blobs
    /\ j.pc = "fetch2" => IF Gcs THEN manSt = "whole" ELSE j.seenMan \in published
    /\ j.pc \in {"cache", "get"} => j.cmd = "pull" /\ j.seenMan \in published
    /\ j.pc \in {"fetch", "fetch2", "cache"} /\ j.cmd = "pull"
          => j.todo = {} /\ j.got = {}

(* With GcsBackend, what a command or a sidecar knows under the current    *)
(* generation is the current manifest.                                     *)
KnownInv(j, s) ==
    /\ j.seenGen <= gen
    /\ s.gen <= gen
    /\ s.known /\ s.gen = gen => s.hash = man
    /\ j.pc = "side" /\ j.cmd = "push" /\ j.seenGen = gen => j.snap = man
    /\ j.pc \in {"cache", "get", "side"} /\ j.cmd = "pull" /\ j.seenGen = gen
          => j.seenMan = man

CloudInv ==
    /\ TypeOK
    /\ local \in [Clones -> made]
    /\ StoreInv
    /\ \A c \in Clones : JobInv(job[c])
    /\ Gcs => \A c \in Clones : KnownInv(job[c], side[c])

LEMMA CloudInvInit == Init => CloudInv
  <1> SUFFICES ASSUME Init PROVE CloudInv
    OBVIOUS
  <1> USE CloudAssumption DEF Init, NoJob
  <1>1. NoJob \in Job /\ JobOK(NoJob)
    BY DEF Job, PCs, JobOK
  <1>2. TypeOK
    <2>1. job \in [Clones -> Job] /\ \A c \in Clones : JobOK(job[c])
      BY <1>1
    <2>2. side \in [Clones -> [known : BOOLEAN, gen : Nat, hash : made \cup {{}}]]
      OBVIOUS
    <2>3. /\ local \in [Clones -> SUBSET Chunks]
          /\ made \subseteq Files
      BY DEF Chunks
    <2> QED
      BY <2>1, <2>2, <2>3 DEF TypeOK
  <1>3. StoreInv /\ local \in [Clones -> made]
    BY DEF StoreInv
  <1>4. \A c \in Clones : JobInv(job[c])
    BY DEF JobInv, LocalPCs, SendPCs, PutPCs
  <1>5. \A c \in Clones : KnownInv(job[c], side[c])
    <2> TAKE c \in Clones
    <2>1. /\ job[c].pc = "idle" /\ job[c].seenGen = 0
          /\ side[c].gen = 0 /\ side[c].known = FALSE
      OBVIOUS
    <2> QED
      BY <2>1 DEF KnownInv
  <1> QED
    BY <1>2, <1>3, <1>4, <1>5 DEF CloudInv

(* A step of clone c that only lets the store and the saved files grow,    *)
(* and keeps the parts of the invariant that c can disturb, keeps it all.  *)
StoreType ==
    /\ backend \in Backends
    /\ manSt \in {"none", "empty", "whole", "mixed"}
    /\ man \in made \cup {{}}
    /\ gen \in Nat
    /\ genOk \in BOOLEAN
    /\ blobs \subseteq Chunks
    /\ torn \subseteq blobs
    /\ badgen \subseteq blobs
    /\ made \subseteq Files
    /\ local \in [Clones -> made]
    /\ side \in [Clones -> [known : BOOLEAN, gen : Nat, hash : made \cup {{}}]]
    /\ cmds \in [Clones -> 0 .. MaxCmds]
    /\ published \subseteq made

Grows ==
    /\ backend' = backend
    /\ made \subseteq made'
    /\ blobs \subseteq blobs'
    /\ published \subseteq published'
    /\ Gcs => /\ manSt = "whole" => manSt' = "whole"
              /\ (gen' = gen /\ man' = man) \/ gen' = gen + 1

LEMMA StoreTypeHolds == CloudInv => StoreType
  BY DEF CloudInv, TypeOK, StoreType

LEMMA OneClone ==
    ASSUME CloudInv, NEW c \in Clones, Grows, StoreType', StoreInv',
           job' = [job EXCEPT ![c] = job'[c]],
           \A d \in Clones \ {c} : side'[d] = side[d],
           JobOK(job[c])', JobInv(job[c])',
           Gcs => KnownInv(job[c], side[c])'
    PROVE  CloudInv'
  <1>1. job' \in [Clones -> Job]
    BY DEF CloudInv, TypeOK, JobOK
  <1>2. \A d \in Clones \ {c} : job'[d] = job[d]
    BY DEF CloudInv, TypeOK
  <1>3. \A d \in Clones : JobOK(job[d])'
    BY <1>2 DEF CloudInv, TypeOK, JobOK, Grows
  <1>4. local' \in [Clones -> SUBSET Chunks]
    BY DEF StoreType, Chunks
  <1>5. TypeOK'
    BY <1>1, <1>3, <1>4 DEF TypeOK, StoreType
  <1>6. \A d \in Clones : JobInv(job[d])'
    BY <1>2 DEF CloudInv, JobInv, Grows, Gcs
  <1>7. Gcs' => \A d \in Clones : KnownInv(job[d], side[d])'
    <2> SUFFICES ASSUME Gcs', NEW d \in Clones \ {c}
                 PROVE  KnownInv(job[d], side[d])'
      BY DEF Grows, Gcs
    <2>1. Gcs /\ KnownInv(job[d], side[d])
      BY DEF CloudInv, Grows, Gcs
    <2>2. job[d].seenGen \in Nat /\ side[d].gen \in Nat /\ gen \in Nat
      BY DEF CloudInv, TypeOK, Job
    <2> QED
      BY <1>2, <2>1, <2>2 DEF KnownInv, Grows
  <1> QED
    BY <1>5, <1>6, <1>7 DEF CloudInv, StoreType

(* Steps that change nothing but the command of c. *)
LEMMA CommandOnly ==
    ASSUME CloudInv, NEW c \in Clones, UNCHANGED <<store, clone, published>>,
           cmds' \in [Clones -> 0 .. MaxCmds],
           job' = [job EXCEPT ![c] = job'[c]],
           JobOK(job'[c]), JobInv(job'[c]),
           Gcs => KnownInv(job'[c], side[c])
    PROVE  CloudInv'
  <1> USE DEF store, clone
  <1>1. Grows
    BY DEF Grows
  <1>2. StoreType'
    BY StoreTypeHolds DEF StoreType
  <1>3. StoreInv'
    BY DEF CloudInv, StoreInv, Gcs
  <1>4. JobOK(job[c])' /\ JobInv(job[c])'
    BY DEF JobOK, JobInv, Gcs
  <1>5. Gcs => KnownInv(job[c], side[c])'
    BY DEF KnownInv
  <1> QED
    BY <1>1, <1>2, <1>3, <1>4, <1>5, OneClone

LEMMA NoJobInv ==
    ASSUME CloudInv, NEW c \in Clones
    PROVE  /\ JobOK(NoJob)
           /\ JobInv(NoJob)
           /\ Gcs => KnownInv(NoJob, side[c])
  <1>1. JobOK(NoJob)
    BY CloudAssumption DEF JobOK, Job, NoJob, PCs
  <1>2. JobInv(NoJob)
    BY DEF JobInv, NoJob, LocalPCs, SendPCs, PutPCs
  <1>3. Gcs => KnownInv(NoJob, side[c])
    BY DEF CloudInv, KnownInv, NoJob, TypeOK
  <1> QED
    BY <1>1, <1>2, <1>3

(* Whatever a command returns, its end keeps the invariant. *)
LEMMA EndInv ==
    ASSUME CloudInv, NEW c \in Clones, UNCHANGED <<store, clone, published>>,
           cmds' = cmds, End(c)
    PROVE  CloudInv'
  <1>1. job' = [job EXCEPT ![c] = job'[c]] /\ job'[c] = NoJob
    BY DEF CloudInv, TypeOK, End
  <1>2. cmds' \in [Clones -> 0 .. MaxCmds]
    BY DEF CloudInv, TypeOK
  <1> QED
    BY <1>1, <1>2, NoJobInv, CommandOnly

(* The beginning of a command. *)
LEMMA StartInv ==
    ASSUME CloudInv, NEW c \in Clones, NEW what \in {"push", "pull"},
           Start(c, what)
    PROVE  CloudInv'
  <1> DEFINE j == [NoJob EXCEPT !.pc = "fetch", !.cmd = what, !.snap = local[c]]
  <1>1. job' = [job EXCEPT ![c] = job'[c]] /\ job'[c] = j
    BY DEF CloudInv, TypeOK, Start
  <1>2. cmds' \in [Clones -> 0 .. MaxCmds]
    BY CloudAssumption DEF CloudInv, TypeOK, Start
  <1>3. local[c] \in made /\ made \subseteq Files
    BY DEF CloudInv, TypeOK
  <1>4. JobOK(j)
    <2>1. JobOK(NoJob)
      BY NoJobInv
    <2>2. j \in Job
      BY <1>3, <2>1 DEF Job, PCs, JobOK
    <2> QED
      BY <1>3, <2>2 DEF JobOK, NoJob
  <1>5. JobInv(j)
    BY <1>3 DEF JobInv, NoJob, LocalPCs, SendPCs, PutPCs
  <1>6. Gcs => KnownInv(j, side[c])
    BY DEF CloudInv, KnownInv, NoJob, TypeOK
  <1> QED
    BY <1>1, <1>2, <1>4, <1>5, <1>6, CommandOnly DEF Start

(* Fetching the manifest. *)
LEMMA FetchedInv ==
    ASSUME CloudInv, NEW c \in Clones, job[c].pc \in {"fetch", "fetch2"},
           NEW m \in made \cup {{}}, NEW g \in Nat,
           Fetched(c, m, g),
           job[c].cmd = "pull" => m \in published,
           Gcs => g <= gen /\ (g = gen /\ job[c].cmd = "pull" => m = man)
    PROVE  CloudInv'
  <1> DEFINE push == job[c].cmd = "push"
             j == [job[c] EXCEPT !.pc = IF push THEN "chunks" ELSE "cache",
                                 !.seenMan = m, !.seenGen = g,
                                 !.todo = IF push THEN job[c].snap ELSE {}]
  <1>1. job' = [job EXCEPT ![c] = job'[c]] /\ job'[c] = j
    BY DEF CloudInv, TypeOK, Fetched, Job
  <1>2. cmds' \in [Clones -> 0 .. MaxCmds]
    BY DEF CloudInv, TypeOK, Fetched
  <1>3. job[c] \in Job /\ JobOK(job[c]) /\ JobInv(job[c]) /\ made \subseteq Files
    BY DEF CloudInv, TypeOK
  <1>4. JobOK(j)
    <2>1. j \in Job
      BY <1>3 DEF Job, PCs, JobOK, Chunks
    <2> QED
      BY <1>3, <2>1 DEF JobOK, JobInv, Job
  <1>5. JobInv(j)
    BY <1>3 DEF JobOK, JobInv, Job, LocalPCs, SendPCs, PutPCs
  <1>6. Gcs => KnownInv(j, side[c])
    BY <1>3 DEF CloudInv, KnownInv, TypeOK, Job
  <1>7. UNCHANGED <<store, clone, published>>
    BY DEF Fetched
  <1> HIDE DEF j
  <1> QED
    BY <1>1, <1>2, <1>4, <1>5, <1>6, <1>7, CommandOnly

LEMMA FetchInv ==
    ASSUME CloudInv, NEW c \in Clones,
           \/ FetchNothing(c) \/ FetchFirst(c) \/ FetchSecond(c) \/ FetchFails(c)
    PROVE  CloudInv'
  <1>0. /\ job[c] \in Job /\ JobOK(job[c]) /\ JobInv(job[c])
        /\ Gcs => KnownInv(job[c], side[c])
        /\ job \in [Clones -> Job] /\ cmds \in [Clones -> 0 .. MaxCmds]
        /\ made \subseteq Files /\ published \subseteq made
        /\ man \in made \cup {{}} /\ gen \in Nat
    BY DEF CloudInv, TypeOK
  <1>1. CASE FetchNothing(c)
    <2>1. job[c].pc = "fetch" /\ job[c].cmd = "push" /\ Fetched(c, {}, 0)
      BY <1>1 DEF FetchNothing, At
    <2>2. 0 <= gen /\ "push" # "pull"
      BY <1>0
    <2> QED
      BY <2>1, <2>2, FetchedInv
  <1>2. CASE FetchFirst(c)
    <2> DEFINE j == IF Gcs THEN [job[c] EXCEPT !.pc = "fetch2", !.seenGen = gen]
                           ELSE [job[c] EXCEPT !.pc = "fetch2", !.seenMan = man]
    <2>1. job' = [job EXCEPT ![c] = job'[c]] /\ job'[c] = j
      BY <1>0, <1>2 DEF FetchFirst
    <2>2. /\ UNCHANGED <<store, clone, published>>
          /\ cmds' \in [Clones -> 0 .. MaxCmds]
          /\ job[c].pc = "fetch" /\ manSt = "whole"
      BY <1>0, <1>2 DEF FetchFirst, At
    <2>3. man \in published
      BY <2>2 DEF CloudInv, StoreInv
    <2>4. JobOK(j)
      <3>1. j \in Job
        BY <1>0 DEF Job, PCs
      <3> QED
        BY <1>0, <2>2, <3>1 DEF JobOK, JobInv, Job
    <2>5. JobInv(j)
      BY <1>0, <2>2, <2>3 DEF JobInv, Job, LocalPCs, SendPCs, PutPCs
    <2>6. Gcs => KnownInv(j, side[c])
      BY <1>0, <2>2 DEF KnownInv, Job
    <2> HIDE DEF j
    <2> QED
      BY <2>1, <2>2, <2>4, <2>5, <2>6, CommandOnly
  <1>3. CASE FetchSecond(c)
    <2>1. job[c].pc = "fetch2"
      BY <1>3 DEF FetchSecond, At
    <2>2. Gcs => man \in published
      BY <1>0, <2>1 DEF JobInv, CloudInv, StoreInv
    <2>3. PICK m \in made \cup {{}} : m = IF Gcs THEN man ELSE job[c].seenMan
      BY <1>0 DEF JobOK
    <2>4. PICK g \in Nat : g = IF Gcs THEN job[c].seenGen ELSE gen
      BY <1>0 DEF Job
    <2>5. Fetched(c, m, g)
      BY <1>3, <2>3, <2>4 DEF FetchSecond
    <2>6. m \in published
      BY <1>0, <2>1, <2>2, <2>3 DEF JobInv
    <2>7. Gcs => g <= gen /\ (g = gen /\ job[c].cmd = "pull" => m = man)
      BY <1>0, <2>3, <2>4 DEF KnownInv
    <2> QED
      BY <2>1, <2>5, <2>6, <2>7, FetchedInv
  <1>4. CASE FetchFails(c)
    BY <1>4, EndInv DEF FetchFails, Fail
  <1> QED
    BY <1>1, <1>2, <1>3, <1>4

(* Sending the chunks. *)
LEMMA SendInv ==
    ASSUME CloudInv, NEW c \in Clones,
           \/ ReuseChunk(c) \/ UploadChunk(c) \/ PutFails(c) \/ ChunksSent(c)
    PROVE  CloudInv'
  <1>0. /\ job[c] \in Job /\ JobOK(job[c]) /\ JobInv(job[c])
        /\ Gcs => KnownInv(job[c], side[c])
        /\ job \in [Clones -> Job] /\ cmds \in [Clones -> 0 .. MaxCmds]
        /\ made \subseteq Files /\ StoreType
    BY StoreTypeHolds DEF CloudInv, TypeOK
  <1>1. CASE ReuseChunk(c)
    <2>1. PICK k \in job[c].todo :
              Reused(c, k) /\ job' = [job EXCEPT ![c].todo = @ \ {k}]
      BY <1>1 DEF ReuseChunk
    <2>2. /\ UNCHANGED <<store, clone, published>>
          /\ cmds' \in [Clones -> 0 .. MaxCmds]
          /\ job[c].pc = "chunks" /\ job[c].cmd = "push" /\ k \in blobs
      BY <1>0, <1>1, <2>1 DEF ReuseChunk, At, Reused, JobInv, SendPCs
    <2> DEFINE j == [job[c] EXCEPT !.todo = @ \ {k}]
    <2>3. job' = [job EXCEPT ![c] = job'[c]] /\ job'[c] = j
      BY <1>0, <2>1
    <2>4. j \in Job /\ JobOK(j)
      BY <1>0, <2>2 DEF Job, JobOK, JobInv
    <2>5. JobInv(j)
      BY <1>0, <2>2 DEF JobInv, Job, LocalPCs, SendPCs, PutPCs
    <2>6. Gcs => KnownInv(j, side[c])
      BY <1>0, <2>2 DEF KnownInv, Job
    <2> HIDE DEF j
    <2> QED
      BY <2>2, <2>3, <2>4, <2>5, <2>6, CommandOnly
  <1>2. CASE UploadChunk(c)
    <2>1. PICK k \in job[c].todo : /\ blobs' = blobs \cup {k}
                                  /\ job' = [job EXCEPT ![c].todo = @ \ {k}]
      BY <1>2 DEF UploadChunk
    <2>2. /\ Gcs /\ job[c].pc = "chunks" /\ job[c].cmd = "push" /\ k \in Chunks
          /\ job[c].snap \in made
      BY <1>0, <1>2, <2>1 DEF UploadChunk, At, JobInv, SendPCs, Job
    <2>3. UNCHANGED <<backend, manSt, man, gen, genOk, torn, badgen, local, side,
                      made, cmds, published>>
      BY <1>2 DEF UploadChunk, clone
    <2>4. /\ job' = [job EXCEPT ![c] = job'[c]]
          /\ job'[c] = [job[c] EXCEPT !.todo = @ \ {k}]
      BY <1>0, <2>1
    <2>5. Grows
      BY <2>1, <2>3 DEF Grows
    <2>6. StoreType'
      BY <1>0, <2>1, <2>2, <2>3 DEF StoreType
    <2>7. StoreInv'
      BY <2>1, <2>3 DEF StoreInv, CloudInv, Gcs
    <2>8. JobOK(job[c])'
      BY <1>0, <2>2, <2>3, <2>4 DEF Job, JobOK, JobInv
    <2>9. JobInv(job[c])'
      BY <1>0, <2>1, <2>2, <2>3, <2>4 DEF Job, JobInv, LocalPCs, SendPCs,
         PutPCs, Gcs
    <2>10. Gcs => KnownInv(job[c], side[c])'
      BY <1>0, <2>2, <2>3, <2>4 DEF KnownInv, Job
    <2> QED
      BY <2>3, <2>4, <2>5, <2>6, <2>7, <2>8, <2>9, <2>10, OneClone
  <1>3. CASE PutFails(c)
    BY <1>3, EndInv DEF PutFails, Fail
  <1>4. CASE ChunksSent(c)
    <2>1. /\ UNCHANGED <<store, clone, published>>
          /\ cmds' \in [Clones -> 0 .. MaxCmds]
          /\ job[c].pc = "chunks" /\ job[c].cmd = "push" /\ job[c].todo = {}
      BY <1>0, <1>4 DEF ChunksSent, AllSent, Goto, At, JobInv, SendPCs
    <2> DEFINE j == [job[c] EXCEPT !.pc = "mput"]
    <2>2. job' = [job EXCEPT ![c] = job'[c]] /\ job'[c] = j
      BY <1>0, <1>4 DEF ChunksSent, Goto
    <2>3. j \in Job /\ JobOK(j)
      BY <1>0, <2>1 DEF Job, JobOK, PCs
    <2>4. JobInv(j)
      BY <1>0, <2>1 DEF JobInv, Job, LocalPCs, SendPCs, PutPCs
    <2>5. Gcs => KnownInv(j, side[c])
      BY <1>0, <2>1 DEF KnownInv, Job
    <2> HIDE DEF j
    <2> QED
      BY <2>1, <2>2, <2>3, <2>4, <2>5, CommandOnly
  <1> QED
    BY <1>1, <1>2, <1>3, <1>4

(* LocalBackend writes one file in two steps; the generations of the       *)
(* manifest mean nothing then.                                             *)
LEMMA LocalWrite ==
    ASSUME CloudInv, NEW c \in Clones, ~Gcs,
           UNCHANGED <<backend, local, side, made, cmds>>,
           blobs \subseteq blobs', published \subseteq published', StoreType', StoreInv',
           job' = [job EXCEPT ![c] = job'[c]],
           JobOK(job[c])', JobInv(job[c])'
    PROVE  CloudInv'
  <1>1. Grows
    BY DEF Grows
  <1> QED
    BY <1>1, OneClone

LEMMA LocalChunkInv ==
    ASSUME CloudInv, NEW c \in Clones,
           \/ TruncateChunk(c) \/ FillChunk(c)
           \/ TruncateChunkGen(c) \/ FillChunkGen(c)
    PROVE  CloudInv'
  <1>0. /\ job[c] \in Job /\ JobOK(job[c]) /\ JobInv(job[c])
        /\ job \in [Clones -> Job] /\ cmds \in [Clones -> 0 .. MaxCmds]
        /\ made \subseteq Files /\ StoreType /\ StoreInv
    BY StoreTypeHolds DEF CloudInv, TypeOK
  <1>1. CASE TruncateChunk(c)
    <2>1. /\ ~Gcs /\ job[c].pc = "chunks" /\ job[c].cmd = "push"
          /\ UNCHANGED <<backend, local, side, made, cmds>>
      BY <1>0, <1>1 DEF TruncateChunk, At, clone, JobInv, LocalPCs, SendPCs,
         PutPCs
    <2>2. PICK k \in job[c].todo :
              /\ k \in Chunks
              /\ blobs' = blobs \cup {k} /\ torn' = torn \cup {k}
              /\ job' = [job EXCEPT ![c].pc = "cfill", ![c].cur = {k}]
              /\ UNCHANGED <<manSt, man, gen, genOk, badgen, published>>
      BY <1>0, <1>1 DEF TruncateChunk, Job
    <2>3. /\ job' = [job EXCEPT ![c] = job'[c]]
          /\ job'[c] = [job[c] EXCEPT !.pc = "cfill", !.cur = {k}]
      BY <1>0, <1>1, <2>2 DEF TruncateChunk
    <2>4. /\ StoreType' /\ StoreInv'
          /\ blobs \subseteq blobs' /\ published \subseteq published'
      BY <1>0, <2>1, <2>2 DEF StoreType, StoreInv, Gcs
    <2>5. JobOK(job[c])'
      BY <1>0, <2>1, <2>2, <2>3 DEF Job, JobOK, JobInv, PCs
    <2>6. JobInv(job[c])'
      BY <1>0, <1>1, <2>1, <2>2, <2>3, <2>4 DEF TruncateChunk, Job, JobOK,
         JobInv, LocalPCs, SendPCs, PutPCs, Gcs
    <2> QED
      BY <2>1, <2>3, <2>4, <2>5, <2>6, LocalWrite
  <1>2. CASE FillChunk(c)
    <2>1. /\ ~Gcs /\ job[c].pc = "cfill" /\ job[c].cmd = "push"
          /\ UNCHANGED <<backend, local, side, made, cmds>>
      BY <1>0, <1>2 DEF FillChunk, Goto, At, clone, JobInv, LocalPCs, SendPCs,
         PutPCs
    <2>3. /\ job' = [job EXCEPT ![c] = job'[c]]
          /\ job'[c] = [job[c] EXCEPT !.pc = "cgen"]
      BY <1>0, <1>2 DEF FillChunk, Goto
    <2>4. /\ StoreType' /\ StoreInv'
          /\ blobs \subseteq blobs' /\ published \subseteq published'
      BY <1>0, <1>2, <2>1 DEF FillChunk, clone, StoreType, StoreInv, Gcs
    <2>5. JobOK(job[c])'
      BY <1>0, <2>1, <2>3 DEF Job, JobOK, JobInv, PCs
    <2>6. JobInv(job[c])'
      BY <1>0, <1>2, <2>1, <2>3, <2>4 DEF FillChunk, Job, JobOK, JobInv,
         LocalPCs, SendPCs, PutPCs, Gcs
    <2> QED
      BY <2>1, <2>3, <2>4, <2>5, <2>6, LocalWrite
  <1>3. CASE TruncateChunkGen(c)
    <2>1. /\ ~Gcs /\ job[c].pc = "cgen" /\ job[c].cmd = "push"
          /\ UNCHANGED <<backend, local, side, made, cmds>>
      BY <1>0, <1>3 DEF TruncateChunkGen, Goto, At, clone, JobInv, LocalPCs,
         SendPCs, PutPCs
    <2>2. job[c].cur \subseteq blobs
      BY <1>0 DEF JobInv
    <2>3. /\ job' = [job EXCEPT ![c] = job'[c]]
          /\ job'[c] = [job[c] EXCEPT !.pc = "cgfill"]
      BY <1>0, <1>3, <2>2 DEF TruncateChunkGen, Goto
    <2>4. /\ StoreType' /\ StoreInv'
          /\ blobs \subseteq blobs' /\ published \subseteq published'
      BY <1>0, <1>3, <2>1, <2>2 DEF TruncateChunkGen, clone, StoreType,
         StoreInv, Gcs
    <2>5. JobOK(job[c])'
      BY <1>0, <2>1, <2>2, <2>3 DEF Job, JobOK, JobInv, PCs
    <2>6. JobInv(job[c])'
      BY <1>0, <1>3, <2>1, <2>2, <2>3, <2>4 DEF TruncateChunkGen, Job, JobOK,
         JobInv, LocalPCs, SendPCs, PutPCs, Gcs
    <2> QED
      BY <2>1, <2>3, <2>4, <2>5, <2>6, LocalWrite
  <1>4. CASE FillChunkGen(c)
    <2>1. /\ ~Gcs /\ job[c].pc = "cgfill" /\ job[c].cmd = "push"
          /\ UNCHANGED <<backend, local, side, made, cmds>>
      BY <1>0, <1>4 DEF FillChunkGen, At, clone, JobInv, LocalPCs, SendPCs,
         PutPCs
    <2>3. /\ job' = [job EXCEPT ![c] = job'[c]]
          /\ job'[c] = [job[c] EXCEPT !.pc = "chunks", !.todo = @ \ job[c].cur, !.cur = {}]
      BY <1>0, <1>4 DEF FillChunkGen
    <2>4. /\ StoreType' /\ StoreInv'
          /\ blobs \subseteq blobs' /\ published \subseteq published'
      BY <1>0, <1>4, <2>1 DEF FillChunkGen, clone, StoreType, StoreInv, Gcs
    <2>5. JobOK(job[c])'
      <3>1. "chunks" \in PCs /\ job[c].todo \ job[c].cur \subseteq Chunks
        BY <1>0 DEF Job, PCs
      <3>2. job'[c] \in Job
        BY <1>0, <2>3, <3>1 DEF Job
      <3>3. /\ job'[c].snap = job[c].snap /\ job'[c].seenMan = job[c].seenMan
            /\ job'[c].cmd = job[c].cmd /\ job'[c].got = job[c].got
            /\ job'[c].todo = job[c].todo \ job[c].cur /\ job'[c].cur = {}
        BY <1>0, <2>3 DEF Job
      <3> QED
        BY <1>0, <2>1, <3>2, <3>3 DEF JobOK
    <2>6. JobInv(job[c])'
      BY <1>0, <1>4, <2>1, <2>3, <2>4 DEF FillChunkGen, Job, JobOK, JobInv,
         LocalPCs, SendPCs, PutPCs, Gcs
    <2> QED
      BY <2>1, <2>3, <2>4, <2>5, <2>6, LocalWrite
  <1> QED
    BY <1>1, <1>2, <1>3, <1>4

LEMMA LocalManifestInv ==
    ASSUME CloudInv, NEW c \in Clones,
           \/ CheckGeneration(c) \/ TruncateManifest(c) \/ FillManifest(c)
           \/ TruncateGen(c) \/ FillGen(c)
    PROVE  CloudInv'
  <1>0. /\ job[c] \in Job /\ JobOK(job[c]) /\ JobInv(job[c])
        /\ job \in [Clones -> Job] /\ cmds \in [Clones -> 0 .. MaxCmds]
        /\ made \subseteq Files /\ StoreType /\ StoreInv
    BY StoreTypeHolds DEF CloudInv, TypeOK
  <1>1. CASE CheckGeneration(c)
    <2>1. /\ ~Gcs /\ job[c].pc = "mput" /\ job[c].cmd = "push"
          /\ UNCHANGED <<backend, local, side, made, cmds>>
      BY <1>0, <1>1 DEF CheckGeneration, Goto, store, At, clone, JobInv,
         LocalPCs, SendPCs, PutPCs
    <2>3. /\ job' = [job EXCEPT ![c] = job'[c]]
          /\ job'[c] = [job[c] EXCEPT !.pc = "mtrunc"]
      BY <1>0, <1>1 DEF CheckGeneration, Goto
    <2>4. /\ StoreType' /\ StoreInv'
          /\ blobs \subseteq blobs' /\ published \subseteq published'
      BY <1>0, <1>1, <2>1 DEF CheckGeneration, store, clone, StoreType,
         StoreInv, Gcs
    <2>5. JobOK(job[c])'
      BY <1>0, <2>1, <2>3 DEF Job, JobOK, JobInv, PCs
    <2>6. JobInv(job[c])'
      BY <1>0, <1>1, <2>1, <2>3, <2>4 DEF CheckGeneration, Job, JobOK, JobInv,
         LocalPCs, SendPCs, PutPCs, Gcs
    <2> QED
      BY <2>1, <2>3, <2>4, <2>5, <2>6, LocalWrite
  <1>2. CASE TruncateManifest(c)
    <2>1. /\ ~Gcs /\ job[c].pc = "mtrunc" /\ job[c].cmd = "push"
          /\ UNCHANGED <<backend, local, side, made, cmds>>
      BY <1>0, <1>2 DEF TruncateManifest, Goto, At, clone, JobInv, LocalPCs,
         SendPCs, PutPCs
    <2>3. /\ job' = [job EXCEPT ![c] = job'[c]]
          /\ job'[c] = [job[c] EXCEPT !.pc = "mfill"]
      BY <1>0, <1>2 DEF TruncateManifest, Goto
    <2>4. /\ StoreType' /\ StoreInv'
          /\ blobs \subseteq blobs' /\ published \subseteq published'
      BY <1>0, <1>2, <2>1 DEF TruncateManifest, clone, StoreType, StoreInv, Gcs
    <2>5. JobOK(job[c])'
      BY <1>0, <2>1, <2>3 DEF Job, JobOK, JobInv, PCs
    <2>6. JobInv(job[c])'
      BY <1>0, <1>2, <2>1, <2>3, <2>4 DEF TruncateManifest, Job, JobOK,
         JobInv, LocalPCs, SendPCs, PutPCs, Gcs
    <2> QED
      BY <2>1, <2>3, <2>4, <2>5, <2>6, LocalWrite
  <1>3. CASE FillManifest(c)
    <2>1. /\ ~Gcs /\ job[c].pc = "mfill" /\ job[c].cmd = "push"
          /\ UNCHANGED <<backend, local, side, made, cmds>>
      BY <1>0, <1>3 DEF FillManifest, Goto, At, clone, JobInv, LocalPCs,
         SendPCs, PutPCs
    <2>2. job[c].snap \in made /\ job[c].snap \subseteq blobs
      BY <1>0, <2>1 DEF JobInv
    <2>3. /\ job' = [job EXCEPT ![c] = job'[c]]
          /\ job'[c] = [job[c] EXCEPT !.pc = "mgen"]
      BY <1>0, <1>3, <2>2 DEF FillManifest, Goto
    <2>4. /\ StoreType' /\ StoreInv'
          /\ blobs \subseteq blobs' /\ published \subseteq published'
      BY <1>0, <1>3, <2>1, <2>2 DEF FillManifest, clone, StoreType, StoreInv,
         Gcs
    <2>5. JobOK(job[c])'
      BY <1>0, <2>1, <2>2, <2>3 DEF Job, JobOK, JobInv, PCs
    <2>6. JobInv(job[c])'
      BY <1>0, <1>3, <2>1, <2>2, <2>3, <2>4 DEF FillManifest, Job, JobOK,
         JobInv, LocalPCs, SendPCs, PutPCs, Gcs
    <2> QED
      BY <2>1, <2>3, <2>4, <2>5, <2>6, LocalWrite
  <1>4. CASE TruncateGen(c)
    <2>1. /\ ~Gcs /\ job[c].pc = "mgen" /\ job[c].cmd = "push"
          /\ UNCHANGED <<backend, local, side, made, cmds>>
      BY <1>0, <1>4 DEF TruncateGen, Goto, At, clone, JobInv, LocalPCs,
         SendPCs, PutPCs
    <2>3. /\ job' = [job EXCEPT ![c] = job'[c]]
          /\ job'[c] = [job[c] EXCEPT !.pc = "mgfill"]
      BY <1>0, <1>4 DEF TruncateGen, Goto
    <2>4. /\ StoreType' /\ StoreInv'
          /\ blobs \subseteq blobs' /\ published \subseteq published'
      BY <1>0, <1>4, <2>1 DEF TruncateGen, clone, StoreType, StoreInv, Gcs
    <2>5. JobOK(job[c])'
      BY <1>0, <2>1, <2>3 DEF Job, JobOK, JobInv, PCs
    <2>6. JobInv(job[c])'
      BY <1>0, <1>4, <2>1, <2>3, <2>4 DEF TruncateGen, Job, JobOK, JobInv,
         LocalPCs, SendPCs, PutPCs, Gcs
    <2> QED
      BY <2>1, <2>3, <2>4, <2>5, <2>6, LocalWrite
  <1>5. CASE FillGen(c)
    <2>1. /\ ~Gcs /\ job[c].pc = "mgfill" /\ job[c].cmd = "push"
          /\ UNCHANGED <<backend, local, side, made, cmds>>
      BY <1>0, <1>5 DEF FillGen, At, clone, JobInv, LocalPCs, SendPCs, PutPCs
    <2>2. job[c].seenGen \in Nat /\ job[c].seenGen + 1 \in Nat
      BY <1>0 DEF Job
    <2>3. /\ job' = [job EXCEPT ![c] = job'[c]]
          /\ job'[c] = [job[c] EXCEPT !.pc = "side", !.seenGen = @ + 1]
      BY <1>0, <1>5, <2>2 DEF FillGen
    <2>4. /\ StoreType' /\ StoreInv'
          /\ blobs \subseteq blobs' /\ published \subseteq published'
      BY <1>0, <1>5, <2>1, <2>2 DEF FillGen, clone, StoreType, StoreInv, Gcs
    <2>5. JobOK(job[c])'
      BY <1>0, <2>1, <2>2, <2>3 DEF Job, JobOK, JobInv, PCs
    <2>6. JobInv(job[c])'
      BY <1>0, <1>5, <2>1, <2>2, <2>3, <2>4 DEF FillGen, Job, JobOK, JobInv,
         LocalPCs, SendPCs, PutPCs, Gcs
    <2> QED
      BY <2>1, <2>3, <2>4, <2>5, <2>6, LocalWrite
  <1> QED
    BY <1>1, <1>2, <1>3, <1>4, <1>5

(* What Retry leaves of a push, whatever the attempt did to the store. *)
LEMMA RetryJob ==
    ASSUME CloudInv, NEW c \in Clones, job[c].pc = "mput", Retry(c),
           UNCHANGED <<backend, made, blobs, side>>, gen' \in Nat,
           Gcs => gen <= gen'
    PROVE  /\ job' = [job EXCEPT ![c] = job'[c]]
           /\ JobOK(job[c])' /\ JobInv(job[c])'
           /\ side'[c].gen <= gen' /\ (side'[c].known /\ side'[c].gen = gen' => side'[c].hash = man')
              => (Gcs => KnownInv(job[c], side[c])')
  <1>0. /\ job[c] \in Job /\ JobOK(job[c]) /\ JobInv(job[c])
        /\ Gcs => KnownInv(job[c], side[c])
        /\ job \in [Clones -> Job] /\ cmds \in [Clones -> 0 .. MaxCmds]
        /\ made \subseteq Files /\ StoreType /\ StoreInv
    BY StoreTypeHolds DEF CloudInv, TypeOK
  <1>1. CASE job[c].attempt < MaxAttempts
    <2>1. /\ job' = [job EXCEPT ![c] = job'[c]]
          /\ job'[c] = [job[c] EXCEPT !.pc = "fetch", !.attempt = @ + 1,
                                     !.seenMan = {}, !.seenGen = 0]
      BY <1>0, <1>1 DEF Retry
    <2>2. job[c].attempt + 1 \in 1 .. MaxAttempts /\ job[c].cmd = "push"
      BY <1>0, <1>1, CloudAssumption DEF Job, JobInv, PutPCs
    <2>3. JobOK(job[c])'
      <3>1. job'[c] \in Job
        <4>1. PICK n \in 1 .. MaxAttempts : n = job[c].attempt + 1
          BY <2>2
        <4>2. job'[c] = [job[c] EXCEPT !.pc = "fetch", !.attempt = n,
                                     !.seenMan = {}, !.seenGen = 0]
          BY <2>1, <4>1
        <4>3. "fetch" \in PCs /\ {} \in Files \cup {{}} /\ 0 \in Nat
          BY DEF PCs
        <4>4. [job[c] EXCEPT !.pc = "fetch", !.attempt = n] \in Job
          BY <1>0, <4>1, <4>3 DEF Job
        <4> QED
          BY <4>2, <4>3, <4>4 DEF Job
      <3> QED
        BY <1>0, <2>1, <2>2, <3>1 DEF Job, JobOK
    <2>4. JobInv(job[c])'
      BY <1>0, <2>1, <2>2 DEF Job, JobInv, LocalPCs, SendPCs, PutPCs, Gcs
    <2>5. 0 <= gen'
      OBVIOUS
    <2>6. job'[c].seenGen = 0 /\ job'[c].pc = "fetch"
      BY <1>0, <2>1 DEF Job
    <2> QED
      BY <2>1, <2>3, <2>4, <2>5, <2>6 DEF KnownInv
  <1>2. CASE ~(job[c].attempt < MaxAttempts)
    <2>1. job' = [job EXCEPT ![c] = job'[c]] /\ job'[c] = NoJob
      BY <1>0, <1>2 DEF Retry, End
    <2>2. JobOK(NoJob) /\ JobInv(NoJob)
      BY NoJobInv
    <2>3. JobOK(job[c])'
      BY <2>1, <2>2 DEF JobOK
    <2>4. JobInv(job[c])'
      BY <2>1, <2>2 DEF JobInv, NoJob, LocalPCs, SendPCs, PutPCs
    <2>5. job'[c].seenGen = 0 /\ job'[c].pc = "idle" /\ 0 <= gen'
      BY <2>1 DEF NoJob
    <2> QED
      BY <2>1, <2>3, <2>4, <2>5 DEF KnownInv
  <1> QED
    BY <1>1, <1>2

LEMMA PutRefusedInv ==
    ASSUME CloudInv, NEW c \in Clones, PutRefused(c)
    PROVE  CloudInv'
  <1>0. /\ job[c] \in Job /\ JobOK(job[c]) /\ JobInv(job[c])
        /\ Gcs => KnownInv(job[c], side[c])
        /\ job \in [Clones -> Job] /\ cmds \in [Clones -> 0 .. MaxCmds]
        /\ made \subseteq Files /\ StoreType /\ StoreInv
    BY StoreTypeHolds DEF CloudInv, TypeOK
  <1>1. /\ job[c].pc = "mput" /\ Retry(c)
        /\ UNCHANGED <<store, clone, cmds, published>>
    BY DEF PutRefused, At
  <1>2. UNCHANGED <<backend, manSt, man, gen, genOk, blobs, torn, badgen,
                    local, side, made, cmds, published>>
    BY <1>1 DEF store, clone
  <1>3. gen' \in Nat /\ gen <= gen'
    BY <1>0, <1>2 DEF StoreType
  <1>4. /\ job' = [job EXCEPT ![c] = job'[c]]
        /\ JobOK(job[c])' /\ JobInv(job[c])'
        /\ Gcs => KnownInv(job[c], side[c])'
    <2>1. Gcs => side'[c].gen <= gen'
                 /\ (side'[c].known /\ side'[c].gen = gen' => side'[c].hash = man')
      BY <1>0, <1>2 DEF KnownInv
    <2> QED
      BY <1>1, <1>2, <1>3, <2>1, RetryJob
  <1>5. Grows
    BY <1>2 DEF Grows
  <1>6. StoreType' /\ StoreInv'
    BY <1>0, <1>2 DEF StoreType, StoreInv, Gcs
  <1> QED
    BY <1>2, <1>4, <1>5, <1>6, OneClone

(* The manifest of a push replaces the one in GCS. *)
LEMMA StoredInv ==
    ASSUME CloudInv, NEW c \in Clones, PutManifest(c) \/ PutReplyLost(c)
    PROVE  CloudInv'
  <1>0. /\ job[c] \in Job /\ JobOK(job[c]) /\ JobInv(job[c])
        /\ Gcs => KnownInv(job[c], side[c])
        /\ job \in [Clones -> Job] /\ cmds \in [Clones -> 0 .. MaxCmds]
        /\ made \subseteq Files /\ StoreType /\ StoreInv
    BY StoreTypeHolds DEF CloudInv, TypeOK
  <1>1. /\ Stored(c) /\ Gcs /\ job[c].pc = "mput" /\ job[c].cmd = "push"
        /\ gen = job[c].seenGen /\ gen' = gen + 1
        /\ manSt' = "whole" /\ man' = job[c].snap
        /\ published' = published \cup {job[c].snap}
        /\ UNCHANGED <<backend, genOk, blobs, torn, badgen, local, side, made, cmds>>
    BY <1>0 DEF PutManifest, PutReplyLost, Stored, Matches, At, clone, JobInv,
       PutPCs
  <1>2. gen \in Nat /\ gen' \in Nat /\ gen <= gen' /\ side[c].gen \in Nat
    BY <1>0, <1>1 DEF StoreType
  <1>3. job[c].snap \in made /\ job[c].snap \subseteq blobs
    BY <1>0, <1>1 DEF JobInv
  <1>4. Grows
    BY <1>1 DEF Grows
  <1>5. StoreType'
    BY <1>0, <1>1, <1>2, <1>3 DEF StoreType
  <1>6. StoreInv'
    BY <1>0, <1>1, <1>3 DEF StoreInv, Gcs
  <1>7. side'[c].gen <= gen' /\ side'[c].gen # gen'
    BY <1>0, <1>1, <1>2 DEF KnownInv
  <1>8. /\ job' = [job EXCEPT ![c] = job'[c]]
        /\ JobOK(job[c])' /\ JobInv(job[c])' /\ KnownInv(job[c], side[c])'
    <2>1. CASE PutManifest(c)
      <3>1. /\ job' = [job EXCEPT ![c] = job'[c]]
            /\ job'[c] = [job[c] EXCEPT !.pc = "side", !.seenGen = gen']
        BY <1>0, <2>1 DEF PutManifest
      <3>2. JobOK(job[c])'
        BY <1>0, <1>1, <1>2, <3>1 DEF Job, JobOK, PCs
      <3>3. JobInv(job[c])'
        BY <1>0, <1>1, <3>1 DEF Job, JobInv, LocalPCs, SendPCs, PutPCs, Gcs
      <3>4. KnownInv(job[c], side[c])'
        BY <1>0, <1>1, <1>2, <1>7, <3>1 DEF KnownInv, Job
      <3> QED
        BY <3>1, <3>2, <3>3, <3>4
    <2>2. CASE PutReplyLost(c)
      BY <1>1, <1>2, <1>7, <2>2, RetryJob DEF PutReplyLost
    <2> QED
      BY <2>1, <2>2
  <1> QED
    BY <1>1, <1>4, <1>5, <1>6, <1>8, OneClone

(* The sidecar of a clone is written. *)
LEMMA SideInv ==
    ASSUME CloudInv, NEW c \in Clones, WriteSyncState(c)
    PROVE  CloudInv'
  <1>0. /\ job[c] \in Job /\ JobOK(job[c]) /\ JobInv(job[c])
        /\ Gcs => KnownInv(job[c], side[c])
        /\ job \in [Clones -> Job] /\ cmds \in [Clones -> 0 .. MaxCmds]
        /\ made \subseteq Files /\ StoreType /\ StoreInv
    BY StoreTypeHolds DEF CloudInv, TypeOK
  <1> DEFINE h == IF job[c].cmd = "push" THEN job[c].snap ELSE job[c].seenMan
             sc == [known |-> TRUE, gen |-> job[c].seenGen, hash |-> h]
  <1>1. /\ job[c].pc = "side"
        /\ side' = [side EXCEPT ![c] = sc]
        /\ UNCHANGED <<backend, manSt, man, gen, genOk, blobs, torn, badgen,
                       local, made, cmds, published>>
    BY DEF WriteSyncState, SyncedGen, At, store
  <1>2. sc \in [known : BOOLEAN, gen : Nat, hash : made \cup {{}}]
    BY <1>0 DEF Job, JobOK
  <1>3. side \in [Clones -> [known : BOOLEAN, gen : Nat, hash : made \cup {{}}]]
    BY <1>0 DEF StoreType
  <1>4. /\ side' \in [Clones -> [known : BOOLEAN, gen : Nat, hash : made \cup {{}}]]
        /\ side'[c] = sc /\ \A d \in Clones \ {c} : side'[d] = side[d]
    <2> HIDE DEF sc
    <2> QED
      BY <1>1, <1>2, <1>3
  <1>5. Grows
    BY <1>1 DEF Grows
  <1>6. StoreType' /\ StoreInv'
    BY <1>0, <1>1, <1>4 DEF StoreType, StoreInv, Gcs
  <1>7. /\ job' = [job EXCEPT ![c] = job'[c]]
        /\ job'[c] = NoJob \/ job'[c] = [NoJob EXCEPT !.pc = "checkout"]
    BY <1>0 DEF WriteSyncState, End
  <1>8. /\ job'[c].pc \in {"idle", "checkout"} /\ job'[c].cmd = "push"
        /\ job'[c].snap = {} /\ job'[c].seenMan = {} /\ job'[c].seenGen = 0
        /\ job'[c].todo = {} /\ job'[c].got = {} /\ job'[c].cur = {}
    BY <1>7 DEF NoJob
  <1>9. job'[c] \in Job
    <2>1. NoJob \in Job
      BY NoJobInv DEF JobOK
    <2> QED
      BY <1>7, <2>1 DEF Job, PCs
  <1>10. JobOK(job[c])'
    BY <1>8, <1>9 DEF JobOK
  <1>11. JobInv(job[c])'
    BY <1>8 DEF JobInv, LocalPCs, SendPCs, PutPCs
  <1>12. Gcs => KnownInv(job[c], side[c])'
    <2>1. job[c].cmd \in {"push", "pull"} /\ gen \in Nat
      BY <1>0 DEF Job, StoreType
    <2>2. Gcs => sc.gen <= gen /\ (sc.gen = gen => sc.hash = man)
      BY <1>0, <1>1, <2>1 DEF KnownInv
    <2> HIDE DEF sc
    <2> QED
      BY <1>1, <1>4, <1>8, <2>1, <2>2 DEF KnownInv
  <1> HIDE DEF sc
  <1> QED
    BY <1>4, <1>5, <1>6, <1>7, <1>10, <1>11, <1>12, OneClone

(* A save makes a file and changes the copy of one clone only. *)
LEMMA SaveGrows ==
    ASSUME CloudInv, NEW c \in Clones, Save(c)
    PROVE  /\ local' \in [Clones -> made']
           /\ made \subseteq made' /\ made' \subseteq Files
  BY DEF Save, CloudInv, TypeOK

(* A local save, outside or at the end of `ovc pull`. *)
LEMMA LocalInv ==
    ASSUME CloudInv, NEW c \in Clones,
           UNCHANGED <<store, side, cmds, published>>,
           local' \in [Clones -> made'], made \subseteq made', made' \subseteq Files,
           job' = job \/ End(c)
    PROVE  CloudInv'
  <1>0. /\ job[c] \in Job /\ JobOK(job[c]) /\ JobInv(job[c])
        /\ Gcs => KnownInv(job[c], side[c])
        /\ job \in [Clones -> Job] /\ cmds \in [Clones -> 0 .. MaxCmds]
        /\ made \subseteq Files /\ StoreType /\ StoreInv
    BY StoreTypeHolds DEF CloudInv, TypeOK
  <1>1. UNCHANGED <<backend, manSt, man, gen, genOk, blobs, torn, badgen,
                    side, cmds, published>>
    BY DEF store
  <1>2. /\ job' = [job EXCEPT ![c] = job'[c]]
        /\ JobOK(job'[c]) /\ JobInv(job'[c]) /\ (Gcs => KnownInv(job'[c], side[c]))
    <2>1. CASE job' = job
      BY <1>0, <2>1
    <2>2. CASE End(c)
      BY <1>0, <2>2, NoJobInv DEF End
    <2> QED
      BY <2>1, <2>2
  <1>3. Grows
    BY <1>1 DEF Grows
  <1>4. StoreType'
    <2>1. side' \in [Clones -> [known : BOOLEAN, gen : Nat, hash : made' \cup {{}}]]
      BY <1>0, <1>1 DEF StoreType
    <2> QED
      BY <1>0, <1>1, <2>1 DEF StoreType
  <1>5. StoreInv'
    BY <1>0, <1>1 DEF StoreInv, Gcs
  <1>6. JobOK(job[c])' /\ JobInv(job[c])' /\ (Gcs => KnownInv(job[c], side[c])')
    BY <1>1, <1>2 DEF JobOK, JobInv, KnownInv, Gcs
  <1> QED
    BY <1>1, <1>2, <1>3, <1>4, <1>5, <1>6, OneClone

(* The rest of a pull. *)
LEMMA PullInv ==
    ASSUME CloudInv, NEW c \in Clones,
           \/ ReadLocalChunks(c) \/ GetChunk(c) \/ GetFails(c)
           \/ Install(c) \/ Checkout(c)
    PROVE  CloudInv'
  <1>0. /\ job[c] \in Job /\ JobOK(job[c]) /\ JobInv(job[c])
        /\ Gcs => KnownInv(job[c], side[c])
        /\ job \in [Clones -> Job] /\ cmds \in [Clones -> 0 .. MaxCmds]
        /\ made \subseteq Files /\ StoreType /\ StoreInv
    BY StoreTypeHolds DEF CloudInv, TypeOK
  <1>1. CASE ReadLocalChunks(c)
    <2> DEFINE j == [job[c] EXCEPT !.pc = "get",
                                   !.todo = job[c].seenMan \ local[c],
                                   !.got = job[c].seenMan \cap local[c]]
    <2>1. /\ UNCHANGED <<store, clone, published>>
          /\ cmds' \in [Clones -> 0 .. MaxCmds]
          /\ job[c].pc = "cache" /\ job[c].cmd = "pull"
      BY <1>0, <1>1 DEF ReadLocalChunks, At, JobInv
    <2>2. job' = [job EXCEPT ![c] = job'[c]] /\ job'[c] = j
      BY <1>0, <1>1 DEF ReadLocalChunks
    <2>3. job[c].seenMan \subseteq Chunks
      BY <1>0 DEF Job, Chunks
    <2>4. j \in Job
      BY <1>0, <2>3 DEF Job, PCs
    <2>5. JobOK(j)
      BY <1>0, <2>1, <2>4 DEF Job, JobOK, JobInv
    <2>6. JobInv(j)
      BY <1>0, <2>1 DEF JobInv, Job, LocalPCs, SendPCs, PutPCs
    <2>7. Gcs => KnownInv(j, side[c])
      BY <1>0, <2>1 DEF KnownInv, Job
    <2> HIDE DEF j
    <2> QED
      BY <2>1, <2>2, <2>5, <2>6, <2>7, CommandOnly
  <1>2. CASE GetChunk(c)
    <2>1. PICK k \in job[c].todo :
              job' = [job EXCEPT ![c].todo = @ \ {k}, ![c].got = @ \cup {k}]
      BY <1>2 DEF GetChunk
    <2> DEFINE j == [job[c] EXCEPT !.todo = @ \ {k}, !.got = @ \cup {k}]
    <2>2. /\ UNCHANGED <<store, clone, published>>
          /\ cmds' \in [Clones -> 0 .. MaxCmds]
          /\ job[c].pc = "get" /\ job[c].cmd = "pull"
      BY <1>0, <1>2 DEF GetChunk, At, JobInv
    <2>3. job' = [job EXCEPT ![c] = job'[c]] /\ job'[c] = j
      BY <1>0, <2>1
    <2>4. j \in Job /\ JobOK(j)
      <3>1. k \in Chunks
        BY <1>0 DEF Job
      <3>2. j \in Job
        BY <1>0, <3>1 DEF Job
      <3>3. /\ j.snap = job[c].snap /\ j.seenMan = job[c].seenMan /\ j.cmd = "pull"
            /\ j.todo = job[c].todo \ {k} /\ j.got = job[c].got \cup {k}
            /\ j.cur = job[c].cur
        BY <1>0, <2>2 DEF Job
      <3>4. job[c].cur = {}
        BY <1>0, <2>2 DEF JobInv
      <3> HIDE DEF j
      <3> QED
        BY <1>0, <2>1, <2>2, <3>2, <3>3, <3>4 DEF JobOK
    <2>5. JobInv(j)
      BY <1>0, <2>2 DEF JobInv, Job, LocalPCs, SendPCs, PutPCs
    <2>6. Gcs => KnownInv(j, side[c])
      BY <1>0, <2>2 DEF KnownInv, Job
    <2> HIDE DEF j
    <2> QED
      BY <2>2, <2>3, <2>4, <2>5, <2>6, CommandOnly
  <1>3. CASE GetFails(c)
    BY <1>3, EndInv DEF GetFails, Fail
  <1>4. CASE Install(c)
    <2>1. /\ job[c].pc = "get" /\ job[c].cmd = "pull" /\ job[c].got = job[c].seenMan
          /\ job[c].seenMan \in published /\ published \subseteq made
          /\ local' = [local EXCEPT ![c] = job[c].got]
          /\ UNCHANGED <<backend, manSt, man, gen, genOk, blobs, torn, badgen,
                         side, made, cmds, published>>
      BY <1>0, <1>4 DEF Install, Assembled, Goto, At, JobInv, store, StoreType
    <2>2. /\ job' = [job EXCEPT ![c] = job'[c]]
          /\ job'[c] = [job[c] EXCEPT !.pc = "side"]
      BY <1>0, <1>4 DEF Install, Goto
    <2>3. Grows
      BY <2>1 DEF Grows
    <2>4. StoreType'
      <3>1. local' \in [Clones -> made']
        BY <1>0, <2>1 DEF StoreType
      <3> QED
        BY <1>0, <2>1, <3>1 DEF StoreType
    <2>5. StoreInv'
      BY <1>0, <2>1 DEF StoreInv, Gcs
    <2>6. JobOK(job[c])'
      BY <1>0, <2>1, <2>2 DEF Job, JobOK, PCs
    <2>7. JobInv(job[c])'
      BY <1>0, <2>1, <2>2 DEF Job, JobInv, LocalPCs, SendPCs, PutPCs, Gcs
    <2>8. Gcs => KnownInv(job[c], side[c])'
      BY <1>0, <2>1, <2>2 DEF KnownInv, Job
    <2> QED
      BY <2>1, <2>2, <2>3, <2>4, <2>5, <2>6, <2>7, <2>8, OneClone
  <1>5. CASE Checkout(c)
    <2>1. local \in [Clones -> made]
      BY DEF CloudInv
    <2>2. /\ local' \in [Clones -> made']
          /\ made \subseteq made' /\ made' \subseteq Files
      BY <1>0, <1>5, <2>1, SaveGrows DEF Checkout
    <2> QED
      BY <1>5, <2>2, LocalInv DEF Checkout
  <1> QED
    BY <1>1, <1>2, <1>3, <1>4, <1>5

LEMMA CloudInvNext == CloudInv /\ [Next]_vars => CloudInv'
  <1> SUFFICES ASSUME CloudInv, [Next]_vars PROVE CloudInv'
    OBVIOUS
  <1>1. CASE UNCHANGED vars
    BY <1>1 DEF vars, store, clone, CloudInv, TypeOK, StoreInv, JobOK, JobInv,
                KnownInv, Gcs
  <1>2. ASSUME NEW c \in Clones, Edit(c)
        PROVE  CloudInv'
    BY <1>2, SaveGrows, LocalInv DEF Edit
  <1>3. ASSUME NEW c \in Clones, Abort(c)
        PROVE  CloudInv'
    BY <1>3, EndInv DEF Abort, Fail
  <1>4. ASSUME NEW c \in Clones, Step(c)
        PROVE  CloudInv'
    BY <1>4, FetchInv, SendInv, LocalChunkInv, LocalManifestInv, PutRefusedInv,
       StoredInv, SideInv, PullInv DEF Step
  <1>5. ASSUME NEW c \in Clones, NEW what \in {"push", "pull"}, Start(c, what)
        PROVE  CloudInv'
    BY <1>5, StartInv
  <1> QED
    BY <1>1, <1>2, <1>3, <1>4, <1>5 DEF Next

LEMMA CloudInvHolds == Spec => []CloudInv
  BY CloudInvInit, CloudInvNext, PTL DEF Spec

(* The type invariant of push and pull: commands handle only files that    *)
(* were saved and a push stays within MAX_PUSH_ATTEMPTS.                   *)
THEOREM TypeCorrect == Spec => []TypeOK
  <1>1. CloudInv => TypeOK
    BY DEF CloudInv
  <1> QED
    BY <1>1, CloudInvHolds, PTL

(* Whatever crashes, retries and concurrent pushes do, the chunks of the   *)
(* manifest exist, and with GcsBackend they can be read.                   *)
THEOREM ManifestChunksExist == Spec => []ManifestWhole
  <1>1. CloudInv => ManifestWhole
    BY DEF CloudInv, StoreInv, ManifestWhole, Readable
  <1> QED
    BY <1>1, CloudInvHolds, PTL

(* With GcsBackend no sidecar is ahead of the manifest, since compare-and- *)
(* swap never rolls the generation back; and a clone that status calls     *)
(* LocalAhead has had the file that its push would replace.                *)
THEOREM SidecarsTrusted == Spec => []SidecarTrusted
  <1>1. CloudInv => SidecarNotAhead
    BY DEF CloudInv, KnownInv, SidecarNotAhead
  <1>2. CloudInv => LocalAheadIsSafe
    <2> SUFFICES ASSUME CloudInv, Gcs, NEW c \in Clones, side[c].known,
                        Status(c) = "LocalAhead"
                 PROVE  side[c].hash = man
      BY DEF LocalAheadIsSafe
    <2>1. side[c].gen = gen
      BY DEF Status
    <2> QED
      BY <2>1 DEF CloudInv, KnownInv
  <1> QED
    BY <1>1, <1>2, CloudInvHolds, PTL DEF SidecarTrusted

(* With either backend a pull installs only a file that was published      *)
(* whole.                                                                  *)
THEOREM PullSound == Spec => PullInstallsPublished
  <1> DEFINE Sound == \A c \in Clones :
                         At(c, "get") /\ At(c, "side")' => local'[c] \in published
  <1>1. CloudInv /\ [Next]_vars => [Sound]_vars
    <2> SUFFICES ASSUME CloudInv, Next, NEW c \in Clones,
                        job[c].pc = "get", job'[c].pc = "side"
                 PROVE  local'[c] \in published
      BY DEF At
    <2>1. job \in [Clones -> Job] /\ NoJob.pc = "idle"
      BY DEF CloudInv, TypeOK, NoJob
    <2>2. ASSUME NEW d \in Clones,
                 Edit(d) \/ Abort(d) \/ \E what \in {"push", "pull"} : Start(d, what)
          PROVE  FALSE
      BY <2>1, <2>2 DEF Edit, Abort, Fail, End, Start, NoJob
    <2>3. ASSUME NEW d \in Clones, Step(d), ~Install(d)
          PROVE  FALSE
      <3>1. CASE \/ FetchNothing(d) \/ FetchFirst(d) \/ FetchSecond(d) \/ FetchFails(d)
        BY <2>1, <3>1 DEF FetchNothing, FetchFirst, FetchSecond, FetchFails,
           Fetched,
                          Fail, End, At
      <3>2. CASE \/ ReuseChunk(d) \/ UploadChunk(d) \/ PutFails(d) \/ ChunksSent(d)
        BY <2>1, <3>2 DEF ReuseChunk, UploadChunk, PutFails, ChunksSent, Goto,
           Fail, End, At
      <3>3. CASE \/ TruncateChunk(d) \/ FillChunk(d)
                 \/ TruncateChunkGen(d) \/ FillChunkGen(d)
        BY <2>1, <3>3 DEF TruncateChunk, FillChunk, TruncateChunkGen,
           FillChunkGen, Goto, At
      <3>4. CASE \/ CheckGeneration(d) \/ TruncateManifest(d) \/ FillManifest(d)
                 \/ TruncateGen(d) \/ FillGen(d)
        BY <2>1, <3>4 DEF CheckGeneration, TruncateManifest, FillManifest,
           TruncateGen,
                          FillGen, Goto, At
      <3>5. CASE PutRefused(d) \/ PutManifest(d) \/ PutReplyLost(d)
        BY <2>1, <3>5 DEF PutRefused, PutManifest, PutReplyLost, Stored,
           Retry, End, At
      <3>6. CASE WriteSyncState(d)
        BY <2>1, <3>6 DEF WriteSyncState, End, At, NoJob
      <3>7. CASE ReadLocalChunks(d) \/ GetChunk(d)
        BY <2>1, <3>7 DEF ReadLocalChunks, GetChunk, At, Job
      <3>8. CASE GetFails(d) \/ Checkout(d)
        BY <2>1, <3>8 DEF GetFails, Checkout, Fail, End, At
      <3> QED
        BY <2>3, <3>1, <3>2, <3>3, <3>4, <3>5, <3>6, <3>7, <3>8 DEF Step
    <2>4. PICK d \in Clones : Install(d)
      BY <2>2, <2>3 DEF Next
    <2>5. d = c
      BY <2>1, <2>4 DEF Install, Goto
    <2>6. local'[c] = job[c].got /\ job[c].got = job[c].seenMan
      BY <2>4, <2>5 DEF Install, Assembled, CloudInv, TypeOK
    <2>7. job[c].seenMan \in published
      BY DEF CloudInv, JobInv
    <2> QED
      BY <2>6, <2>7
  <1> QED
    BY <1>1, CloudInvHolds, PTL DEF Spec, PullInstallsPublished
=============================================================================
