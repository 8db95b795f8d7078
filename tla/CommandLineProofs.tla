------------------------- MODULE CommandLineProofs -------------------------
(***************************************************************************)
(* The safety properties of the command line, for any number of processes  *)
(* and starts, any collection and any output directory: whole files only,  *)
(* temporary files removed, the served key persisted, Done means stored.   *)
(***************************************************************************)
EXTENDS CommandLine, TLAPS

\* A rename that is queued or running renames a whole copy of the blob that
\* its command is at.  Its command waits for it or is about to exit; the
\* second is why the invariant must speak of the job and not of the command:
\* a dropped future does not stop the job.
Renames(p) ==
    job[p] = "persist" =>
        /\ pc[p] \in {"persist", "exiting"}
        /\ Index(p) \in 1..Len(List)
        /\ flushed[p] = Segments[List[Index(p)].hash]
Places == {"off", "check", "read", "key", "source", "stdin", "create", "serving",
           "fetch", "temp", "copy", "persist", "exiting", "ok"}
Jobs == {"none", "keycreate", "keywrite", "stdin", "outboards", "sending", "blocked",
         "tempfile", "persist"}
WholesNamed(n) == {Whole(List[i].hash) : i \in {k \in 1..Len(List) : FileNameOf(k) = n}}
Targets(t) ==
    /\ DOMAIN t = FileNames
    /\ \A n \in FileNames : t[n] \in {NoFile, Old, Dir} \cup WholesNamed(n)
PersistInv ==
    /\ pc \in [Procs -> Places] /\ job \in [Procs -> Jobs]
    /\ flushed \in [Procs -> Nat]
    /\ got \in [Procs -> Seq(Nat)]
    /\ Targets(target)
    /\ \A p \in Procs : pc[p] \in {"temp", "copy", "persist"} => Index(p) \in 1..Len(List)
    /\ \A p \in Procs : Renames(p)

\* The blob that Fetch expects next is the one at Index.
LEMMA NextSizeIs ==
    ASSUME NEW p \in Procs, Index(p) \in 1..Len(List)
    PROVE  F!NextSize(p) = Segments[List[Index(p)].hash]
BY DEF F!NextSize, F!NextHash, Index

\* The sizes of the blobs are numbers.
LEMMA SizeIsNat ==
    ASSUME NEW i \in 1..Len(List)
    PROVE  Segments[List[i].hash] \in Nat
<1>1. \A S : \A q \in Seq(S) : \A k \in 1..Len(q) : q[k] \in S
  OBVIOUS
<1>2. List \in Seq([name : STRING, hash : DOMAIN Segments])
  BY CommandLineAssumption
<1>3. List[i] \in [name : STRING, hash : DOMAIN Segments]
  BY <1>1, <1>2
<1>4. List[i].hash \in DOMAIN Segments
  BY <1>3
<1>5. Segments \in [DOMAIN Segments -> Nat]
  BY CommandLineAssumption
<1> QED BY <1>4, <1>5

\* At the beginning no command runs and the targets are old.
LEMMA PersistInit == Init => PersistInv
<1> SUFFICES ASSUME Init PROVE PersistInv
  OBVIOUS
<1>1. got = [p \in Procs |-> <<>>]
  BY DEF Init, F!Init
<1>2. Targets(target)
  BY DEF Init, Targets
<1>3. /\ pc = [p \in Procs |-> "off"] /\ job = [p \in Procs |-> "none"]
      /\ flushed = [p \in Procs |-> 0]
  BY DEF Init
<1> QED BY <1>1, <1>2, <1>3 DEF PersistInv, Renames, Places, Jobs

\* A step of p that touches no finished file: p moves, and perhaps queues or
\* ends a job of its own, but queues no rename.
Moved(p) ==
    /\ UNCHANGED <<flushed, got, target>>
    /\ pc' \in [Procs -> Places] /\ job' \in [Procs -> Jobs]
    /\ \A q \in Procs \ {p} : pc'[q] = pc[q] /\ job'[q] = job[q]
    /\ job'[p] = "persist" => job[p] = "persist" /\ pc'[p] \in {"persist", "exiting"}
    /\ pc'[p] \in {"temp", "copy", "persist"} => Index(p) \in 1..Len(List)

\* Such a step keeps the invariant.
LEMMA MovedKeeps ==
    ASSUME NEW p \in Procs, PersistInv, Moved(p)
    PROVE  PersistInv'
<1>1. /\ flushed' = flushed /\ got' = got /\ target' = target
      /\ pc' \in [Procs -> Places] /\ job' \in [Procs -> Jobs]
  BY DEF Moved
<1>2. \A q \in Procs : pc'[q] \in {"temp", "copy", "persist"} => Index(q) \in 1..Len(List)
  BY DEF Moved, PersistInv
<1>3. ASSUME NEW q \in Procs PROVE Renames(q)'
  BY <1>1, <1>3 DEF Moved, PersistInv, Renames, Index
<1> QED BY <1>1, <1>2, <1>3 DEF PersistInv, Index, Targets

\* The steps of provide, and those of get that neither end a copy nor rename.
LEMMA QuietSteps ==
    ASSUME NEW p \in Procs, PersistInv,
           \/ KeyCheck(p) \/ ReadKey(p) \/ KeyWritten(p)
           \/ Source(p) \/ StdinCopied(p) \/ Spawn(p)
           \/ OnBlob(p) \/ CopySegment(p) \/ Done(p)
           \/ CreateKeyFile(p) \/ WriteKeyFile(p) \/ Outboards(p) \/ TempFile(p)
           \/ ReadStdin(p) \/ Exit(p)
           \/ SendBlob(p) \/ BlobSent(p) \/ SendBlocks(p) \/ SendWakes(p)
    PROVE  PersistInv'
<1> USE DEF At, To, Queue, Places, Jobs
<1>0. /\ pc \in [Procs -> Places] /\ job \in [Procs -> Jobs]
      /\ job[p] = "persist" => pc[p] \in {"persist", "exiting"}
      /\ pc[p] \in {"temp", "copy", "persist"} => Index(p) \in 1..Len(List)
  BY DEF PersistInv, Renames
<1>1. CASE KeyCheck(p)
  <2>1. Moved(p)
    BY <1>0, <1>1 DEF KeyCheck, sharedFiles, fetch, Moved
  <2> QED BY <2>1, MovedKeeps
<1>2. CASE ReadKey(p)
  <2>1. Moved(p)
    BY <1>0, <1>2 DEF ReadKey, sharedFiles, fetch, Moved
  <2> QED BY <2>1, MovedKeeps
<1>3. CASE KeyWritten(p)
  <2>1. Moved(p)
    BY <1>0, <1>3 DEF KeyWritten, own, sharedFiles, fetch, Moved
  <2> QED BY <2>1, MovedKeeps
<1>4. CASE Source(p)
  <2>1. Moved(p)
    BY <1>0, <1>4 DEF Source, own, fetch, Moved
  <2> QED BY <2>1, MovedKeeps
<1>5. CASE StdinCopied(p)
  <2>1. Moved(p)
    BY <1>0, <1>5 DEF StdinCopied, own, sharedFiles, fetch, Moved
  <2> QED BY <2>1, MovedKeeps
<1>6. CASE Spawn(p)
  <2>1. Moved(p)
    BY <1>0, <1>6 DEF Spawn, sharedFiles, fetch, Moved
  <2> QED BY <2>1, MovedKeeps
<1>7. CASE OnBlob(p)
  <2>1. Index(p) \in 1..Len(List)
    BY <1>7, CommandLineAssumption DEF OnBlob, Index, PersistInv
  <2>2. Moved(p)
    BY <1>0, <1>7, <2>1 DEF OnBlob, own, sharedFiles, fetch, Moved
  <2> QED BY <2>2, MovedKeeps
<1>8. CASE CopySegment(p)
  <2>1. Moved(p)
    BY <1>0, <1>8 DEF CopySegment, F!DeliverSegment, own, sharedFiles, Moved
  <2> QED BY <2>1, MovedKeeps
<1>9. CASE Done(p)
  <2>1. Moved(p)
    BY <1>0, <1>9 DEF Done, F!Succeed, own, sharedFiles, Moved
  <2> QED BY <2>1, MovedKeeps
<1>10. CASE CreateKeyFile(p) \/ WriteKeyFile(p) \/ Outboards(p) \/ ReadStdin(p)
  <2>1. Moved(p)
    BY <1>0, <1>10 DEF CreateKeyFile, WriteKeyFile, Outboards, ReadStdin,
                       own, sharedFiles, fetch, Moved
  <2> QED BY <2>1, MovedKeeps
<1>11. CASE TempFile(p)
  <2>1. Moved(p)
    BY <1>0, <1>11 DEF TempFile, own, fetch, Moved
  <2> QED BY <2>1, MovedKeeps
<1>12. CASE Exit(p)
  <2>1. Moved(p)
    BY <1>0, <1>12 DEF Exit, own, sharedFiles, fetch, Moved
  <2> QED BY <2>1, MovedKeeps
<1>13. CASE SendBlob(p) \/ BlobSent(p) \/ SendBlocks(p) \/ SendWakes(p)
  <2>1. Moved(p)
    BY <1>0, <1>13 DEF SendBlob, BlobSent, SendBlocks, SendWakes, own, sharedFiles, fetch, Moved
  <2> QED BY <2>1, MovedKeeps
<1> QED BY <1>1, <1>2, <1>3, <1>4, <1>5, <1>6, <1>7, <1>8, <1>9, <1>10, <1>11, <1>12, <1>13

\* Errors, ctrl-c and kills: the job of the command goes on, or is dropped.
LEMMA Endings ==
    ASSUME NEW p \in Procs, PersistInv,
           Failure(p) \/ JobFails(p) \/ Interrupt(p) \/ Kill(p)
    PROVE  PersistInv'
<1> USE DEF At, To, Queue, Places, Jobs
<1>0. /\ pc \in [Procs -> Places] /\ job \in [Procs -> Jobs]
      /\ job[p] = "persist" => pc[p] \in {"persist", "exiting"}
      /\ pc[p] \in {"temp", "copy", "persist"} => Index(p) \in 1..Len(List)
  BY DEF PersistInv, Renames
<1>1. ASSUME Dropped(p) PROVE UNCHANGED got
  BY <1>1 DEF Dropped, F!Fail, fetch
<1>2. CASE Failure(p)
  <2>1. Moved(p)
    BY <1>0, <1>1, <1>2 DEF Failure, Moved
  <2> QED BY <2>1, MovedKeeps
<1>3. CASE JobFails(p)
  <2>1. Moved(p)
    BY <1>0, <1>1, <1>3 DEF JobFails, Moved
  <2> QED BY <2>1, MovedKeeps
<1>4. CASE Interrupt(p)
  <2>1. Moved(p)
    BY <1>0, <1>1, <1>4 DEF Interrupt, Moved
  <2> QED BY <2>1, MovedKeeps
<1>5. CASE Kill(p)
  <2>1. Moved(p)
    BY <1>0, <1>5 DEF Kill, sharedFiles, fetch, Moved
  <2> QED BY <2>1, MovedKeeps
<1> QED BY <1>2, <1>3, <1>4, <1>5

\* The start of a command.
LEMMA StartStep ==
    ASSUME NEW p \in Procs, PersistInv, Start(p)
    PROVE  PersistInv'
<1>1. job[p] # "persist"
  BY DEF PersistInv, Renames, Start
<1>2. /\ pc' \in [Procs -> Places] /\ pc'[p] \in {"fetch", "check"}
      /\ \A q \in Procs \ {p} : pc'[q] = pc[q]
  BY DEF PersistInv, Start, To, Places
<1>3. /\ flushed' \in [Procs -> Nat]
      /\ \A q \in Procs \ {p} : flushed'[q] = flushed[q]
  BY DEF PersistInv, Start
<1>4. /\ got' \in [Procs -> Seq(Nat)]
      /\ \A q \in Procs \ {p} : got'[q] = got[q]
  BY DEF PersistInv, Start
<1>5. job' = job /\ target' = target
  BY DEF Start, sharedFiles
<1>6. ASSUME NEW q \in Procs PROVE Renames(q)'
  BY <1>1, <1>2, <1>3, <1>4, <1>5, <1>6 DEF PersistInv, Renames, Index
<1>7. \A q \in Procs : (pc[q] \in {"temp", "copy", "persist"} => Index(q) \in 1..Len(List))'
  BY <1>2, <1>4 DEF PersistInv, Index
<1> QED BY <1>2, <1>3, <1>4, <1>5, <1>6, <1>7 DEF PersistInv, Targets

\* The end of a copy: what is flushed is the whole blob.
LEMMA CopyEndsStep ==
    ASSUME NEW p \in Procs, PersistInv, CopyEnds(p)
    PROVE  PersistInv'
<1>1. Index(p) \in 1..Len(List)
  BY DEF CopyEnds, At, PersistInv
<1>2. part[p] = Segments[List[Index(p)].hash] /\ part[p] \in Nat
  BY <1>1, NextSizeIs, SizeIsNat DEF CopyEnds
<1>3. /\ flushed' \in [Procs -> Nat] /\ flushed'[p] = part[p]
      /\ \A q \in Procs \ {p} : flushed'[q] = flushed[q]
  BY <1>2 DEF CopyEnds, PersistInv
<1>4. /\ pc' \in [Procs -> Places] /\ pc'[p] = "persist"
      /\ \A q \in Procs \ {p} : pc'[q] = pc[q]
  BY DEF CopyEnds, PersistInv, To, Places, Jobs
<1>5. /\ job' \in [Procs -> Jobs]
      /\ \A q \in Procs \ {p} : job'[q] = job[q]
  BY DEF CopyEnds, PersistInv, Queue, Places, Jobs
<1>6. got' = got /\ target' = target
  BY DEF CopyEnds, sharedFiles, fetch
<1>7. ASSUME NEW q \in Procs PROVE Renames(q)'
  BY <1>1, <1>2, <1>3, <1>4, <1>5, <1>6, <1>7 DEF PersistInv, Renames, Index
<1>8. \A q \in Procs : (pc[q] \in {"temp", "copy", "persist"} => Index(q) \in 1..Len(List))'
  BY <1>1, <1>4, <1>6 DEF PersistInv, Index
<1> QED BY <1>3, <1>4, <1>5, <1>6, <1>7, <1>8 DEF PersistInv, Targets

\* The rename: a whole blob comes under its name.
LEMMA PersistStep ==
    ASSUME NEW p \in Procs, PersistInv, Persist(p)
    PROVE  PersistInv'
<1>1. job[p] = "persist" /\ Renames(p)
  BY DEF Persist, PersistInv
<1>2. Index(p) \in 1..Len(List)
  BY <1>1 DEF Renames
<1>3. Content(List[Index(p)].hash, flushed[p]) \in WholesNamed(FileNameOf(Index(p)))
  BY <1>1, <1>2 DEF Renames, WholesNamed, Whole
<1>4. flushed' = flushed /\ got' = got
  BY DEF Persist, own, fetch, F!Fail
<1>5. Targets(target')
  <2>1. \/ target' = target
        \/ target' = [target EXCEPT ![FileNameOf(Index(p))] =
                        Content(List[Index(p)].hash, flushed[p])]
    BY DEF Persist
  <2> QED BY <1>3, <2>1 DEF PersistInv, Targets
<1>6. /\ job' \in [Procs -> Jobs] /\ job'[p] # "persist"
      /\ \A q \in Procs \ {p} : job'[q] = job[q]
  BY DEF Persist, PersistInv, Queue, Places, Jobs
<1>7. /\ pc' \in [Procs -> Places]
      /\ \A q \in Procs \ {p} : pc'[q] = pc[q]
      /\ pc'[p] \in {pc[p], "exiting"}
  BY DEF Persist, PersistInv, To, Places, Jobs
<1>8. ASSUME NEW q \in Procs PROVE Renames(q)'
  BY <1>4, <1>6, <1>7, <1>8 DEF PersistInv, Renames, Index
<1>9. \A q \in Procs : (pc[q] \in {"temp", "copy", "persist"} => Index(q) \in 1..Len(List))'
  BY <1>4, <1>7 DEF PersistInv, Index
<1> QED BY <1>4, <1>5, <1>6, <1>7, <1>8, <1>9 DEF PersistInv, Targets

\* The blob is stored and the next one is expected.
LEMMA StoredStep ==
    ASSUME NEW p \in Procs, PersistInv, BlobStored(p)
    PROVE  PersistInv'
<1>1. Index(p) \in 1..Len(List) /\ job[p] # "persist"
  BY DEF BlobStored, At, PersistInv
<1>2. part[p] \in Nat
  BY <1>1, NextSizeIs, SizeIsNat DEF BlobStored, F!CompleteBlob
<1>3. /\ got' \in [Procs -> Seq(Nat)]
      /\ \A q \in Procs \ {p} : got'[q] = got[q]
  <2>1. got' = [got EXCEPT ![p] = Append(@, part[p])]
    BY DEF BlobStored, F!CompleteBlob
  <2>2. Append(got[p], part[p]) \in Seq(Nat)
    BY <1>2 DEF PersistInv
  <2> QED BY <2>1, <2>2 DEF PersistInv
<1>4. /\ pc' \in [Procs -> Places] /\ pc'[p] = "fetch"
      /\ \A q \in Procs \ {p} : pc'[q] = pc[q]
  BY DEF BlobStored, PersistInv, To, Places, Jobs
<1>5. job' = job /\ flushed' = flushed /\ target' = target
  BY DEF BlobStored, own, sharedFiles
<1>6. ASSUME NEW q \in Procs PROVE Renames(q)'
  BY <1>1, <1>3, <1>4, <1>5, <1>6 DEF PersistInv, Renames, Index
<1>7. \A q \in Procs : (pc[q] \in {"temp", "copy", "persist"} => Index(q) \in 1..Len(List))'
  BY <1>3, <1>4 DEF PersistInv, Index
<1> QED BY <1>3, <1>4, <1>5, <1>6, <1>7 DEF PersistInv, Targets

\* A step of the system is a step of one command.
Steps(p) ==
    \/ Start(p)
    \/ KeyCheck(p) \/ ReadKey(p) \/ KeyWritten(p)
    \/ Source(p) \/ StdinCopied(p) \/ Spawn(p) \/ SendBlob(p) \/ SendWakes(p)
    \/ OnBlob(p) \/ CopySegment(p) \/ CopyEnds(p) \/ BlobStored(p) \/ Done(p)
    \/ Job(p) \/ ReadStdin(p) \/ JobFails(p)
    \/ Failure(p) \/ Interrupt(p) \/ Exit(p) \/ Kill(p)

\* Every step is a step of one process.
LEMMA NextIsStep == Next => \E p \in Procs : Steps(p)
BY Zenon DEF Next, Steps

\* Finished files are whole, and renames are of whole copies.
LEMMA PersistInvariant == Spec => []PersistInv
<1>1. PersistInv /\ [Next]_cliVars => PersistInv'
  <2> SUFFICES ASSUME PersistInv, [Next]_cliVars PROVE PersistInv'
    OBVIOUS
  <2>1. CASE UNCHANGED cliVars
    <3>1. /\ pc' = pc /\ job' = job /\ flushed' = flushed
          /\ got' = got /\ target' = target
      BY <2>1 DEF cliVars, own, sharedFiles, fetch
    <3> QED BY <3>1 DEF PersistInv, Renames, Index, Targets
  <2>2. CASE Next
    <3>1. PICK p \in Procs : Steps(p)
      BY <2>2, NextIsStep
    <3> QED BY <3>1, QuietSteps, Endings, StartStep, CopyEndsStep, PersistStep, StoredStep
            DEF Steps, Job
  <2> QED BY <2>1, <2>2
<1> QED BY <1>1, PersistInit, PTL DEF Spec

\* Under a target name there is never a part of a blob: with any number of
\* commands in one directory, each of which may fail, be interrupted or be
\* killed at any point and be started again.
THEOREM CommandLineNoPartialTarget == Spec => []NoPartialTarget
<1>1. PersistInv => NoPartialTarget
  BY DEF PersistInv, NoPartialTarget, Targets, WholesNamed
<1> QED BY <1>1, PersistInvariant, PTL

(***************************************************************************)
(* TempsCleaned.                                                           *)
(***************************************************************************)

\* The temporary file of a command that is still running belongs to its main
\* future or, once it is about to be renamed, to the job that renames it.
Holds(p) == pc[p] \in {"stdin", "create", "serving", "copy"} \/ job[p] = "persist"
TempsInv == \A f \in temps : f \in killed \/ \E p \in Procs : f = Temp(p) /\ Holds(p)

\* A step of p that leaves p's temporary file in place only if p still holds
\* it, or was killed.
Cleans(p) ==
    /\ UNCHANGED starts
    /\ killed \subseteq killed'
    /\ \A q \in Procs \ {p} : pc'[q] = pc[q] /\ job'[q] = job[q]
    /\ temps' \subseteq temps \cup {Temp(p)}
    /\ Temp(p) \in temps' => \/ Holds(p)' \/ Temp(p) \in killed'
                             \/ Temp(p) \in temps /\ ~Holds(p)

\* Such a step keeps the invariant.
LEMMA CleansKeeps ==
    ASSUME NEW p \in Procs, TempsInv, Cleans(p)
    PROVE  TempsInv'
<1> SUFFICES ASSUME NEW f \in temps'
             PROVE  f \in killed' \/ \E q \in Procs : f = Temp(q)' /\ Holds(q)'
  BY DEF TempsInv
<1>0. /\ \A q \in Procs : Temp(q)' = Temp(q)
      /\ \A q \in Procs \ {p} : Holds(q)' = Holds(q)
  BY DEF Cleans, Temp, Holds
<1>1. \A q \in Procs : Temp(q) = Temp(p) => q = p
  BY DEF Temp
<1>2. CASE f = Temp(p)
  <2>1. Temp(p) \in temps /\ ~Holds(p) => Temp(p) \in killed
    BY <1>1 DEF TempsInv
  <2> QED BY <1>0, <1>2, <2>1 DEF Cleans
<1>3. CASE f # Temp(p)
  <2>1. f \in temps
    BY <1>3 DEF Cleans
  <2>2. f \in killed \/ \E q \in Procs : f = Temp(q) /\ Holds(q)
    BY <2>1 DEF TempsInv
  <2> QED BY <1>0, <1>3, <2>2 DEF Cleans
<1> QED BY <1>2, <1>3

\* Every step but a start is such a step.
LEMMA StepsClean ==
    ASSUME NEW p \in Procs, PersistInv, Steps(p), ~Start(p)
    PROVE  Cleans(p)
<1> USE DEF At, To, Queue, Places, Jobs
<1>0. /\ pc \in [Procs -> Places] /\ job \in [Procs -> Jobs]
      /\ job[p] = "persist" => pc[p] \in {"persist", "exiting"}
  BY DEF PersistInv, Renames
<1>1. CASE \/ ReadKey(p) \/ KeyWritten(p) \/ StdinCopied(p) \/ Exit(p)
           \/ OnBlob(p) \/ BlobStored(p) \/ Done(p)
  BY <1>0, <1>1 DEF ReadKey, KeyWritten, StdinCopied, Exit, OnBlob, BlobStored, Done,
                    own, sharedFiles, history, Cleans, Holds
<1>2. CASE CreateKeyFile(p) \/ WriteKeyFile(p) \/ Outboards(p) \/ ReadStdin(p) \/ CopySegment(p)
  BY <1>0, <1>2 DEF CreateKeyFile, WriteKeyFile, Outboards, ReadStdin, CopySegment,
                    own, sharedFiles, history, Cleans, Holds
<1>3. CASE KeyCheck(p)
  BY <1>0, <1>3 DEF KeyCheck, sharedFiles, Cleans, Holds
<1>4. CASE Source(p)
  BY <1>0, <1>4 DEF Source, own, history, Cleans, Holds
<1>5. CASE Spawn(p)
  BY <1>0, <1>5 DEF Spawn, sharedFiles, Cleans, Holds
<1>6. CASE CopyEnds(p)
  BY <1>0, <1>6 DEF CopyEnds, sharedFiles, history, Cleans, Holds
<1>7. CASE TempFile(p)
  BY <1>0, <1>7 DEF TempFile, own, history, Cleans, Holds
<1>8. CASE Persist(p)
  BY <1>0, <1>8 DEF Persist, own, history, Cleans, Holds
<1>9. CASE Failure(p) \/ JobFails(p)
  BY <1>0, <1>9 DEF Failure, JobFails, Dropped, history, Cleans, Holds
<1>10. CASE Interrupt(p)
  BY <1>0, <1>10 DEF Interrupt, Dropped, history, Cleans, Holds
<1>11. CASE Kill(p)
  BY <1>0, <1>11 DEF Kill, sharedFiles, Cleans, Holds
<1>12. CASE SendBlob(p) \/ BlobSent(p) \/ SendBlocks(p) \/ SendWakes(p)
  BY <1>0, <1>12 DEF SendBlob, BlobSent, SendBlocks, SendWakes,
                     own, sharedFiles, history, Cleans, Holds
<1> QED BY <1>1, <1>2, <1>3, <1>4, <1>5, <1>6, <1>7, <1>8, <1>9, <1>10, <1>11, <1>12
        DEF Steps, Job

\* A command that starts again holds nothing from before.
LEMMA StartClean ==
    ASSUME NEW p \in Procs, PersistInv, TempsInv, Start(p)
    PROVE  TempsInv'
<1>1. ~Holds(p)
  BY DEF PersistInv, Renames, Start, Holds
<1>2. \A q \in Procs \ {p} : starts'[q] = starts[q] /\ pc'[q] = pc[q]
  BY DEF Start, To, PersistInv
<1>3. job' = job /\ temps' = temps /\ killed' = killed
  BY DEF Start, sharedFiles, history
<1>4. \A q \in Procs : Holds(q) => Temp(q)' = Temp(q) /\ Holds(q)'
  BY <1>1, <1>2, <1>3 DEF Holds, Temp
<1> QED BY <1>3, <1>4, Zenon DEF TempsInv

\* Temporary files are held by a running command, or left by a killed one.
LEMMA TempsInvariant == Spec => []TempsInv
<1>1. Init => TempsInv
  BY DEF Init, TempsInv
<1>2. TempsInv /\ PersistInv /\ [Next]_cliVars => TempsInv'
  <2> SUFFICES ASSUME TempsInv, PersistInv, [Next]_cliVars PROVE TempsInv'
    OBVIOUS
  <2>1. CASE UNCHANGED cliVars
    BY <2>1 DEF cliVars, own, sharedFiles, history, TempsInv, Temp, Holds
  <2>2. CASE Next
    <3>1. PICK p \in Procs : Steps(p)
      BY <2>2, NextIsStep
    <3> QED BY <3>1, StepsClean, StartClean, CleansKeeps
  <2> QED BY <2>1, <2>2
<1> QED BY <1>1, <1>2, PersistInvariant, PTL DEF Spec

\* Every temporary file is that of a running command or of one that was
\* killed: an error, and ctrl-c at any point of provide or get, a rename on a
\* blocking thread included, remove it.
THEOREM CommandLineTempsCleaned == Spec => []TempsCleaned
<1>1. TempsInv /\ PersistInv => TempsCleaned
  BY DEF TempsInv, PersistInv, Renames, Holds, TempsCleaned
<1> QED BY <1>1, PersistInvariant, TempsInvariant, PTL

(***************************************************************************)
(* ServesPersistedKey.                                                     *)
(***************************************************************************)

\* The job that writes the key file, in two steps, holds a key; a command
\* that is past get_keypair holds the key in the file.  This is so as long
\* as one provider at a time makes a key, whether or not its future still
\* waits for the job.
IsKey(k) == k \notin {NoFile, Partial}
KeyJobs(p) ==
    /\ job[p] \in {"keycreate", "keywrite"} => pc[p] \in {"key", "exiting"} /\ IsKey(keypair[p])
    /\ pc[p] = "key" => job[p] \in {"keycreate", "keywrite", "none"}
KeyAt(p) ==
    /\ job[p] = "keycreate" => keyfile = NoFile
    /\ job[p] = "keywrite" => keyfile = Partial
    /\ pc[p] = "read" => keyfile # NoFile
    /\ \/ pc[p] = "key" /\ job[p] = "none"
       \/ pc[p] \in {"source", "stdin", "create", "serving"}
       => keyfile = keypair[p] /\ IsKey(keyfile)
OneMaker == \A p, q \in Procs : MakesKey(p) /\ MakesKey(q) => p = q
ServedIsFile == served \subseteq {keyfile} /\ (served # {} => IsKey(keyfile))
KeyInv ==
    /\ starts \in [Procs -> 0..MaxStarts] /\ DOMAIN keypair = Procs
    /\ \A p \in Procs : KeyJobs(p)
    /\ ~overlap => OneMaker /\ ServedIsFile /\ \A p \in Procs : KeyAt(p)

\* A step of p only.
OnlyMoves(p) ==
    /\ starts' \in [Procs -> 0..MaxStarts] /\ DOMAIN keypair' = Procs
    /\ \A q \in Procs \ {p} : pc'[q] = pc[q] /\ job'[q] = job[q] /\ keypair'[q] = keypair[q]

\* A step of p that leaves the key file alone and begins to make no key.
KeepsKey(p) ==
    /\ OnlyMoves(p)
    /\ UNCHANGED <<keyfile, overlap>>
    /\ KeyJobs(p)'
    /\ MakesKey(p)' => MakesKey(p)
    /\ ~overlap => KeyAt(p)' /\ ServedIsFile'

\* The other commands' parts of the invariant are about what such a step
\* leaves alone.
LEMMA KeepsKeyKeeps ==
    ASSUME NEW p \in Procs, KeyInv, KeepsKey(p)
    PROVE  KeyInv'
<1>1. \A q \in Procs \ {p} : MakesKey(q)' = MakesKey(q)
  BY DEF KeepsKey, OnlyMoves, MakesKey, At
<1>2. ASSUME NEW q \in Procs PROVE KeyJobs(q)'
  BY <1>2 DEF KeepsKey, OnlyMoves, KeyInv, KeyJobs
<1>3. ASSUME ~overlap, NEW q \in Procs PROVE KeyAt(q)'
  BY <1>3 DEF KeepsKey, OnlyMoves, KeyInv, KeyAt
<1>4. ASSUME ~overlap PROVE OneMaker'
  BY <1>1, <1>4 DEF KeepsKey, KeyInv, OneMaker
<1> QED BY <1>2, <1>3, <1>4 DEF KeepsKey, OnlyMoves, KeyInv

\* The steps of a command that neither look for the key, nor make it.
LEMMA StepsKeepKey ==
    ASSUME NEW p \in Procs, PersistInv, KeyInv,
           Steps(p), ~KeyCheck(p), ~CreateKeyFile(p), ~WriteKeyFile(p)
    PROVE  KeepsKey(p)
<1> USE DEF At, To, Queue, Places, Jobs
<1>0. /\ pc \in [Procs -> Places] /\ job \in [Procs -> Jobs]
      /\ starts \in [Procs -> 0..MaxStarts] /\ DOMAIN keypair = Procs
      /\ KeyJobs(p)
      /\ ~overlap => KeyAt(p) /\ ServedIsFile
  BY DEF PersistInv, KeyInv
<1> USE DEF OnlyMoves, KeepsKey, KeyJobs, MakesKey, KeyAt
<1>1. CASE Start(p)
  <2>1. starts' \in [Procs -> 0..MaxStarts]
    BY <1>0, <1>1, CommandLineAssumption DEF Start
  <2> QED BY <1>0, <1>1, <2>1 DEF Start, sharedFiles, history, ServedIsFile
<1>2. CASE ReadKey(p)
  BY <1>0, <1>2 DEF ReadKey, sharedFiles, history, ServedIsFile, IsKey
<1>3. CASE KeyWritten(p) \/ StdinCopied(p) \/ Exit(p) \/ OnBlob(p) \/ BlobStored(p) \/ Done(p)
  BY <1>0, <1>3 DEF KeyWritten, StdinCopied, Exit, OnBlob, BlobStored, Done,
                    own, sharedFiles, history, ServedIsFile
<1>4. CASE Outboards(p) \/ ReadStdin(p) \/ CopySegment(p)
  BY <1>0, <1>4 DEF Outboards, ReadStdin, CopySegment, own, sharedFiles, history, ServedIsFile
<1>5. CASE Source(p)
  BY <1>0, <1>5 DEF Source, own, history, ServedIsFile
<1>6. CASE Spawn(p)
  BY <1>0, <1>6 DEF Spawn, sharedFiles, ServedIsFile
<1>7. CASE CopyEnds(p)
  BY <1>0, <1>7 DEF CopyEnds, sharedFiles, history, ServedIsFile
<1>8. CASE TempFile(p)
  BY <1>0, <1>8 DEF TempFile, own, history, ServedIsFile
<1>9. CASE Persist(p)
  BY <1>0, <1>9 DEF Persist, own, history, ServedIsFile
<1>10. CASE Failure(p) \/ JobFails(p)
  BY <1>0, <1>10 DEF Failure, JobFails, history, ServedIsFile
<1>11. CASE Interrupt(p)
  BY <1>0, <1>11 DEF Interrupt, history, ServedIsFile
<1>12. CASE Kill(p)
  BY <1>0, <1>12 DEF Kill, sharedFiles, ServedIsFile
<1>13. CASE SendBlob(p) \/ BlobSent(p) \/ SendBlocks(p) \/ SendWakes(p)
  BY <1>0, <1>13 DEF SendBlob, BlobSent, SendBlocks, SendWakes,
                     own, sharedFiles, history, ServedIsFile
<1> QED BY <1>1, <1>2, <1>3, <1>4, <1>5, <1>6, <1>7, <1>8, <1>9, <1>10, <1>11, <1>12, <1>13
        DEF Steps, Job

\* A provider looks for the key file.  If it finds none, and nobody else is
\* making one, no other command relies on one.
LEMMA KeyCheckStep ==
    ASSUME NEW p \in Procs, PersistInv, KeyInv, KeyCheck(p)
    PROVE  KeyInv'
<1> USE DEF At, To, Queue
<1>0. /\ pc \in [Procs -> Places] /\ job \in [Procs -> Jobs]
      /\ starts \in [Procs -> 0..MaxStarts] /\ DOMAIN keypair = Procs
  BY DEF PersistInv, KeyInv
<1>1. /\ OnlyMoves(p) /\ UNCHANGED <<keyfile, served>>
      /\ \/ keyfile # NoFile /\ pc'[p] = "read" /\ job'[p] = job[p] /\ keypair'[p] = keypair[p]
         \/ keyfile = NoFile /\ pc'[p] = "key" /\ job'[p] = "keycreate" /\ keypair'[p] = Temp(p)
  BY <1>0 DEF KeyCheck, OnlyMoves, sharedFiles
<1>2. IsKey(Temp(p))
  BY <1>0, KeyAssumption DEF Temp, IsKey
<1>3. KeyJobs(p) /\ pc[p] = "check"
  BY DEF KeyInv, KeyCheck
<1>4. ASSUME NEW q \in Procs PROVE KeyJobs(q)'
  BY <1>1, <1>2, <1>3, <1>4 DEF OnlyMoves, KeyInv, KeyJobs
<1>5. ASSUME ~overlap' PROVE OneMaker' /\ ServedIsFile' /\ \A q \in Procs : KeyAt(q)'
  <2>1. ~overlap /\ \A q \in Procs \ {p} : ~MakesKey(q)
    BY <1>5 DEF KeyCheck
  <2>2. \A q \in Procs \ {p} : ~MakesKey(q)'
    BY <1>1, <2>1 DEF OnlyMoves, MakesKey
  <2>3. OneMaker'
    BY <2>2 DEF OneMaker
  <2>4. ServedIsFile'
    BY <1>1, <2>1 DEF KeyInv, ServedIsFile
  <2>5. \A q \in Procs : KeyAt(q)
    BY <2>1 DEF KeyInv
  <2>6. ASSUME NEW q \in Procs PROVE KeyAt(q)'
    BY <1>1, <1>3, <2>5, <2>6 DEF OnlyMoves, KeyAt, KeyJobs
  <2> QED BY <2>3, <2>4, <2>6
<1> QED BY <1>1, <1>4, <1>5 DEF KeyInv, OnlyMoves

\* The file is created, and later written, by the only job that makes a key.
LEMMA KeyFileSteps ==
    ASSUME NEW p \in Procs, PersistInv, KeyInv, CreateKeyFile(p) \/ WriteKeyFile(p)
    PROVE  KeyInv'
<1> USE DEF At, Queue
<1>0. /\ job \in [Procs -> Jobs]
      /\ starts \in [Procs -> 0..MaxStarts] /\ DOMAIN keypair = Procs
  BY DEF PersistInv, KeyInv
<1>1. /\ OnlyMoves(p) /\ UNCHANGED <<pc, overlap, served, keypair>>
      /\ \/ job[p] = "keycreate" /\ job'[p] = "keywrite" /\ keyfile' = Partial
         \/ job[p] = "keywrite" /\ job'[p] = "none" /\ keyfile' = keypair[p]
  BY <1>0 DEF CreateKeyFile, WriteKeyFile, own, history, OnlyMoves
<1>2. KeyJobs(p) /\ IsKey(keypair[p])
  BY <1>1 DEF KeyInv, KeyJobs
<1>3. ASSUME NEW q \in Procs PROVE KeyJobs(q)'
  BY <1>1, <1>2, <1>3 DEF OnlyMoves, KeyInv, KeyJobs
<1>4. ASSUME ~overlap PROVE OneMaker' /\ ServedIsFile' /\ \A q \in Procs : KeyAt(q)'
  <2>1. OneMaker /\ ServedIsFile /\ \A q \in Procs : KeyAt(q)
    BY <1>4 DEF KeyInv
  <2>2. ~IsKey(keyfile)
    BY <1>1, <2>1 DEF KeyAt, IsKey
  <2>3. \A q \in Procs \ {p} : ~MakesKey(q)
    BY <1>1, <2>1 DEF OneMaker, MakesKey
  <2>4. OneMaker'
    BY <1>1, <2>3 DEF OneMaker, OnlyMoves, MakesKey
  <2>5. ServedIsFile'
    BY <1>1, <2>1, <2>2 DEF ServedIsFile
  <2>6. KeyAt(p)'
    BY <1>1, <1>2, <2>1, <2>2 DEF KeyAt, KeyJobs, IsKey
  <2>7. ASSUME NEW q \in Procs \ {p} PROVE KeyAt(q)'
    BY <1>1, <1>2, <2>1, <2>2, <2>3, <2>7 DEF KeyAt, OnlyMoves, MakesKey, IsKey
  <2> QED BY <2>4, <2>5, <2>6, <2>7
<1> QED BY <1>1, <1>3, <1>4 DEF KeyInv, OnlyMoves

\* The key file, the keys in memory and the keys served agree.
LEMMA KeyInvariant == Spec => []KeyInv
<1>1. Init => KeyInv
  BY CommandLineAssumption
     DEF Init, KeyInv, KeyJobs, OneMaker, MakesKey, At, ServedIsFile, KeyAt
<1>2. KeyInv /\ PersistInv /\ [Next]_cliVars => KeyInv'
  <2> SUFFICES ASSUME KeyInv, PersistInv, [Next]_cliVars PROVE KeyInv'
    OBVIOUS
  <2>1. CASE UNCHANGED cliVars
    BY <2>1 DEF cliVars, own, sharedFiles, history, KeyInv, KeyJobs, OneMaker, MakesKey, At,
                ServedIsFile, KeyAt
  <2>2. CASE Next
    <3>1. PICK p \in Procs : Steps(p)
      BY <2>2, NextIsStep
    <3> QED BY <3>1, StepsKeepKey, KeepsKeyKeeps, KeyCheckStep, KeyFileSteps
  <2> QED BY <2>1, <2>2
<1> QED BY <1>1, <1>2, PersistInvariant, PTL DEF Spec

\* What a provider serves under is in the key file, and every provider with
\* the file has the same identity, if no two of them look for the file and
\* make it at the same time: a kill between the two steps of the write, or a
\* write that outlives its command, changes no identity.
THEOREM CommandLineServesPersistedKey == Spec => []ServesPersistedKey
<1>1. KeyInv => ServesPersistedKey
  BY DEF KeyInv, KeyAt, ServedIsFile, ServesPersistedKey
<1> QED BY <1>1, KeyInvariant, PTL

(***************************************************************************)
(* DoneMeansStored.                                                        *)
(***************************************************************************)

\* How many blobs a running get has stored: the current one is stored when
\* its rename has returned, before it is counted.
StoredUpTo(p) == IF pc[p] = "persist" /\ job[p] = "none" THEN Len(got[p]) + 1 ELSE Len(got[p])
Gets(p) == pc[p] \in {"fetch", "temp", "copy", "persist", "ok"}

\* Blob i is under its name unless a blob that p itself has stored since, or
\* that another get may store, has replaced it.
Stands(p, i) ==
    (\A j \in 1..Len(List) : j <= StoredUpTo(p) \/ ~GetsAlone(p) => ~Supersedes(p, j, i))
      => target[FileNameOf(i)] = Whole(List[i].hash)
StoredInv ==
    /\ \A p \in Procs : Gets(p) \/ job[p] = "persist" => cmd[p] = "get"
    /\ \A p \in Procs : pc[p] = "persist" => job[p] \in {"persist", "none"}
    /\ \A p \in Procs : pc[p] = "ok" => Len(got[p]) = Len(List)
    /\ \A p \in Procs : Gets(p) => \A i \in 1..StoredUpTo(p) : i \in 1..Len(List) /\ Stands(p, i)

\* A step of p that stores and counts nothing, and after which p gets only
\* if it did before, or starts from nothing.
StoresNothing(p) ==
    /\ UNCHANGED <<cmd, target>>
    /\ \A q \in Procs \ {p} : pc'[q] = pc[q] /\ job'[q] = job[q] /\ got'[q] = got[q]
    /\ Gets(p)' \/ job'[p] = "persist" => cmd[p] = "get"
    /\ pc'[p] = "persist" => job'[p] \in {"persist", "none"}
    /\ pc'[p] = "ok" => Len(got'[p]) = Len(List)
    /\ Gets(p)' => \/ StoredUpTo(p)' = 0
                   \/ Gets(p) /\ StoredUpTo(p)' = StoredUpTo(p)

\* Such a step keeps the invariant.
LEMMA StoresNothingKeeps ==
    ASSUME NEW p \in Procs, StoredInv, StoresNothing(p)
    PROVE  StoredInv'
<1>1. \A q \in Procs : GetsAlone(q)' = GetsAlone(q)
  BY DEF StoresNothing, GetsAlone
<1>2. \A q \in Procs, i, j \in 1..Len(List) : Supersedes(q, j, i)' = Supersedes(q, j, i)
  BY <1>1 DEF Supersedes
<1>3. ASSUME NEW q \in Procs, NEW i \in 1..Len(List),
             StoredUpTo(q)' = StoredUpTo(q), Stands(q, i)
      PROVE  Stands(q, i)'
  BY <1>1, <1>2, <1>3 DEF Stands, StoresNothing
<1>4. ASSUME NEW q \in Procs \ {p}
      PROVE  StoredUpTo(q)' = StoredUpTo(q) /\ Gets(q)' = Gets(q)
  BY <1>4 DEF StoresNothing, StoredUpTo, Gets
<1>5. ASSUME NEW q \in Procs, Gets(q)', NEW i \in 1..StoredUpTo(q)'
      PROVE  i \in 1..Len(List) /\ Stands(q, i)'
  <2>1. CASE q = p /\ StoredUpTo(p)' = 0
    BY <1>5, <2>1
  <2>2. CASE Gets(q) /\ StoredUpTo(q)' = StoredUpTo(q)
    BY <1>3, <1>5, <2>2 DEF StoredInv
  <2> QED BY <1>4, <1>5, <2>1, <2>2 DEF StoresNothing
<1>6. \A q \in Procs : Gets(q)' \/ job'[q] = "persist" => cmd'[q] = "get"
  BY <1>4 DEF StoresNothing, StoredInv
<1>7. \A q \in Procs : /\ pc'[q] = "persist" => job'[q] \in {"persist", "none"}
                       /\ pc'[q] = "ok" => Len(got'[q]) = Len(List)
  BY DEF StoresNothing, StoredInv
<1> QED BY <1>5, <1>6, <1>7 DEF StoredInv

\* Every step but a rename that succeeds.
LEMMA StepsStoreNothing ==
    ASSUME NEW p \in Procs, PersistInv, StoredInv, Steps(p), ~Persist(p)
    PROVE  StoresNothing(p)
<1> USE DEF At, To, Queue, Places, Jobs
<1>0. /\ pc \in [Procs -> Places] /\ job \in [Procs -> Jobs] /\ got \in [Procs -> Seq(Nat)]
      /\ job[p] = "persist" => pc[p] \in {"persist", "exiting"}
      /\ Gets(p) \/ job[p] = "persist" => cmd[p] = "get"
      /\ pc[p] = "persist" => job[p] \in {"persist", "none"}
      /\ pc[p] = "ok" => Len(got[p]) = Len(List)
  BY DEF PersistInv, Renames, StoredInv
<1> USE DEF StoresNothing, Gets, StoredUpTo
<1>1. CASE Start(p)
  BY <1>0, <1>1 DEF Start, sharedFiles
<1>2. CASE KeyCheck(p) \/ ReadKey(p) \/ Spawn(p)
  BY <1>0, <1>2 DEF KeyCheck, ReadKey, Spawn, sharedFiles, fetch
<1>3. CASE KeyWritten(p) \/ StdinCopied(p) \/ Exit(p) \/ OnBlob(p)
  BY <1>0, <1>3 DEF KeyWritten, StdinCopied, Exit, OnBlob, own, sharedFiles, fetch
<1>4. CASE Outboards(p) \/ ReadStdin(p) \/ CreateKeyFile(p) \/ WriteKeyFile(p)
  BY <1>0, <1>4 DEF Outboards, ReadStdin, CreateKeyFile, WriteKeyFile, own, sharedFiles, fetch
<1>5. CASE Source(p) \/ TempFile(p)
  BY <1>0, <1>5 DEF Source, TempFile, own, fetch
<1>6. CASE CopySegment(p)
  BY <1>0, <1>6 DEF CopySegment, F!DeliverSegment, own, sharedFiles
<1>7. CASE CopyEnds(p)
  BY <1>0, <1>7 DEF CopyEnds, sharedFiles, fetch
<1>8. CASE BlobStored(p)
  <2>1. got' = [got EXCEPT ![p] = Append(@, part[p])]
    BY <1>8 DEF BlobStored, F!CompleteBlob
  <2>2. Len(Append(got[p], part[p])) = Len(got[p]) + 1
    BY <1>0
  <2> QED BY <1>0, <1>8, <2>1, <2>2 DEF BlobStored, own, sharedFiles
<1>9. CASE Done(p)
  BY <1>0, <1>9 DEF Done, F!Succeed, own, sharedFiles
<1>10. CASE Failure(p) \/ JobFails(p)
  BY <1>0, <1>10 DEF Failure, JobFails, Dropped, F!Fail, fetch
<1>11. CASE Interrupt(p)
  BY <1>0, <1>11 DEF Interrupt, Dropped, F!Fail, fetch
<1>12. CASE Kill(p)
  BY <1>0, <1>12 DEF Kill, sharedFiles, fetch
<1>13. CASE SendBlob(p) \/ BlobSent(p) \/ SendBlocks(p) \/ SendWakes(p)
  BY <1>0, <1>13 DEF SendBlob, BlobSent, SendBlocks, SendWakes, own, sharedFiles, fetch
<1> QED BY <1>1, <1>2, <1>3, <1>4, <1>5, <1>6, <1>7, <1>8, <1>9, <1>10, <1>11, <1>12, <1>13
        DEF Steps, Job

\* The rename: the blob now stands under its name.  Other blobs with that
\* name are superseded, in the eyes of p because they are earlier, in those
\* of another get because it is not alone.
LEMMA PersistStores ==
    ASSUME NEW p \in Procs, PersistInv, StoredInv, Persist(p)
    PROVE  StoredInv'
<1> DEFINE x == Index(p)
           n == FileNameOf(x)
<1>0. /\ pc \in [Procs -> Places] /\ job \in [Procs -> Jobs] /\ got \in [Procs -> Seq(Nat)]
      /\ job[p] = "persist" /\ pc[p] \in {"persist", "exiting"} /\ cmd[p] = "get"
      /\ x \in 1..Len(List) /\ flushed[p] = Segments[List[x].hash]
      /\ Targets(target)
  BY DEF Persist, PersistInv, Renames, StoredInv
<1>1. /\ job' = [job EXCEPT ![p] = "none"] /\ cmd' = cmd /\ got' = got
  BY DEF Persist, Queue, own, fetch, F!Fail
<1>2. CASE target[n] = Dir
  <2>1. target' = target /\ pc' = [pc EXCEPT ![p] = "exiting"]
    BY <1>0, <1>2 DEF Persist, At, To
  <2>2. StoresNothing(p)
    BY <1>0, <1>1, <2>1 DEF StoresNothing, Gets, Places
  <2> QED BY <2>2, StoresNothingKeeps
<1>3. CASE target[n] # Dir
  <2>1. pc' = pc /\ target' = [target EXCEPT ![n] = Whole(List[x].hash)]
    BY <1>0, <1>3 DEF Persist, Whole
  <2>2. /\ target'[n] = Whole(List[x].hash)
        /\ \A m : m # n => target'[m] = target[m]
    BY <1>0, <2>1 DEF Targets, FileNames
  <2>3. /\ \A q \in Procs : GetsAlone(q)' = GetsAlone(q)
        /\ \A q \in Procs : Gets(q)' = Gets(q)
    BY <1>1, <2>1 DEF GetsAlone, Gets
  <2>4. \A q \in Procs, i, j \in 1..Len(List) : Supersedes(q, j, i)' = Supersedes(q, j, i)
    BY <2>3 DEF Supersedes
  <2>5. /\ Gets(p) => StoredUpTo(p) = x - 1 /\ StoredUpTo(p)' = x
        /\ \A q \in Procs \ {p} : StoredUpTo(q)' = StoredUpTo(q)
    BY <1>0, <1>1, <2>1 DEF StoredUpTo, Gets, Index, Jobs
  <2>6. ASSUME Gets(p), NEW i \in 1..x PROVE i \in 1..Len(List) /\ Stands(p, i)'
    <3>1. i \in 1..Len(List)
      BY <1>0
    <3>2. CASE i = x
      BY <2>2, <3>1, <3>2 DEF Stands
    <3>3. CASE i # x /\ FileNameOf(i) # n
      <4>0. i \in 1..StoredUpTo(p)
        BY <1>0, <2>5, <2>6, <3>3 DEF Index
      <4>1. Stands(p, i)
        BY <2>6, <4>0 DEF StoredInv
      <4> QED BY <1>0, <2>2, <2>3, <2>4, <2>5, <2>6, <3>1, <3>3, <4>1 DEF Stands
    <3>4. CASE i # x /\ FileNameOf(i) = n
      <4>1. List[x].hash # List[i].hash => Supersedes(p, x, i)
        BY <1>0, <3>4 DEF Supersedes
      <4> QED BY <1>0, <2>2, <2>4, <2>5, <2>6, <3>1, <3>4, <4>1 DEF Stands
    <3> QED BY <3>1, <3>2, <3>3, <3>4
  <2>7. ASSUME NEW q \in Procs \ {p}, Gets(q), NEW i \in 1..StoredUpTo(q)
        PROVE  i \in 1..Len(List) /\ Stands(q, i)'
    <3>1. i \in 1..Len(List) /\ Stands(q, i)
      BY <2>7 DEF StoredInv
    <3>2. ~GetsAlone(q)
      BY <1>0 DEF GetsAlone
    <3>3. CASE FileNameOf(i) # n
      BY <2>2, <2>3, <2>4, <2>5, <3>1, <3>2, <3>3 DEF Stands
    <3>4. CASE FileNameOf(i) = n
      <4>1. List[x].hash # List[i].hash => Supersedes(q, x, i)
        BY <3>2, <3>4 DEF Supersedes
      <4> QED BY <1>0, <2>2, <2>3, <2>4, <3>1, <3>2, <3>4, <4>1 DEF Stands
    <3> QED BY <3>1, <3>3, <3>4
  <2>8. \A q \in Procs : Gets(q)' => \A i \in 1..StoredUpTo(q)' : i \in 1..Len(List) /\ Stands(q, i)'
    BY <2>3, <2>5, <2>6, <2>7
  <2>9. \A q \in Procs : /\ Gets(q)' \/ job'[q] = "persist" => cmd'[q] = "get"
                         /\ pc'[q] = "persist" => job'[q] \in {"persist", "none"}
                         /\ pc'[q] = "ok" => Len(got'[q]) = Len(List)
    BY <1>0, <1>1, <2>1, <2>3 DEF StoredInv
  <2> QED BY <2>8, <2>9 DEF StoredInv
<1> QED BY <1>2, <1>3

\* The blobs a get has stored stand.
LEMMA StoredInvariant == Spec => []StoredInv
<1>1. Init => StoredInv
  BY DEF Init, F!Init, StoredInv, Gets
<1>2. StoredInv /\ PersistInv /\ [Next]_cliVars => StoredInv'
  <2> SUFFICES ASSUME StoredInv, PersistInv, [Next]_cliVars PROVE StoredInv'
    OBVIOUS
  <2>1. CASE UNCHANGED cliVars
    <3>1. cmd' = cmd /\ pc' = pc /\ job' = job /\ got' = got /\ target' = target
      BY <2>1 DEF cliVars, own, sharedFiles, fetch
    <3> QED BY <3>1 DEF StoredInv, Gets, StoredUpTo, Stands, GetsAlone, Supersedes
  <2>2. CASE Next
    <3>1. PICK p \in Procs : Steps(p)
      BY <2>2, NextIsStep
    <3> QED BY <3>1, StepsStoreNothing, StoresNothingKeeps, PersistStores
  <2> QED BY <2>1, <2>2
<1> QED BY <1>1, <1>2, PersistInvariant, PTL DEF Spec

\* A get that says Done has every blob under its name, with any number of
\* gets and earlier, failed or killed ones in the directory, unless another
\* blob of that name is later in the collection or another get wrote it.
THEOREM CommandLineDoneMeansStored == Spec => []DoneMeansStored
<1>1. StoredInv /\ PersistInv => DoneMeansStored
  <2> SUFFICES ASSUME StoredInv, PersistInv, NEW p \in Procs, pc[p] = "ok", NEW i \in 1..Len(List),
                      \A j \in 1..Len(List) : ~Supersedes(p, j, i)
               PROVE  target[FileNameOf(i)] = Whole(List[i].hash)
    BY DEF DoneMeansStored
  <2>1. Gets(p) /\ StoredUpTo(p) = Len(List)
    BY DEF StoredInv, Gets, StoredUpTo
  <2>2. Stands(p, i)
    BY <2>1 DEF StoredInv
  <2> QED BY <2>2 DEF Stands
<1> QED BY <1>1, PersistInvariant, StoredInvariant, PTL
=============================================================================
