----------------------------- MODULE CommandLine -----------------------------
(***************************************************************************)
(* The command line (main.rs): processes that run `provide' or `get' on    *)
(* one machine, share its files, are interrupted by ctrl-c, killed, and    *)
(* started again.                                                          *)
(*                                                                         *)
(* All `provide' processes are given the same key file and address, all    *)
(* `get' processes the same collection and output directory.  What get::run*)
(* does is taken from Fetch, which the getter implements; the collection   *)
(* is created in one step.  Files are written, and blobs sent, by jobs on  *)
(* tokio's blocking threads: the future that waits for a job can be        *)
(* dropped, a job that has begun cannot, and the process does not exit     *)
(* before it ends.                                                         *)
(***************************************************************************)
EXTENDS Naturals, Sequences

CONSTANTS
    Procs,      \* processes
    Commands,   \* the functions from Procs to their commands to consider
    List,       \* the collection: for each blob its name and hash
    Segments,   \* Segments[h]: the size of the content of h
    HashName,   \* HashName[h]: the text of a hash
    NoFile,     \* no file, or no key, or no process
    Partial,    \* a key file that is created but not written yet
    Old, Dir,   \* what else may be in the output directory: a file, a directory
    MaxStarts   \* bound: starts of one process

Cmds == {"provide", "provide_stdin", "get"}

ASSUME CommandLineAssumption ==
    /\ Commands \subseteq [Procs -> Cmds]
    /\ List \in Seq([name : STRING, hash : DOMAIN Segments])
    /\ Segments \in [DOMAIN Segments -> Nat]
    /\ HashName \in [DOMAIN Segments -> STRING]
    /\ MaxStarts \in Nat

\* A key is neither of the two things that are no key.
ASSUME KeyAssumption ==
    \A p \in Procs, n \in 0..MaxStarts : <<p, n>> \notin {NoFile, Partial}

VARIABLES
    cmd,     \* cmd[p]: the command p runs
    starts,  \* starts[p]: how often p was started
    pc,      \* pc[p]: where its main future is
    job,     \* job[p]: the blocking job it has queued or running; of
             \* several copies of a provider the one that is last to end
    keypair, \* keypair[p]: the provider's key
    keyfile, \* the file at --key: absent, a key, or Partial
    bound,   \* the process that holds the provider's address
    temps,   \* temporary files, by the process and start that made them
    flushed, \* flushed[p]: segments in its temporary file when its copy ended
    target,  \* target[n]: what is in the output directory under a name
    killed,  \* history: the starts that were killed
    overlap, \* history: a provider looked for the key while another made one
    served,  \* history: the keys that were served
    result, got, part \* the state of Fetch, for every process

sharedFiles == <<keyfile, temps, target>>
history == <<killed, overlap, served>>
fetch == <<result, got, part>>
own == <<cmd, starts, keypair, flushed, bound>>
cliVars == <<own, pc, job, sharedFiles, history, fetch>>

F == INSTANCE Fetch WITH
       Getters <- Procs,
       Want <- [p \in Procs |-> "list"],
       Collections <- {"list"},
       Blobs <- [c \in {"list"} |-> [i \in 1..Len(List) |-> List[i].hash]],
       LazyBlobs <- {}

\* An unnamed blob is stored under its hash.
FileNameOf(i) == IF List[i].name = "" THEN HashName[List[i].hash] ELSE List[i].name
FileNames == {FileNameOf(i) : i \in 1..Len(List)}
Content(h, n) == [hash |-> h, len |-> n]
Whole(h) == Content(h, Segments[h])

\* Without a `get' nobody looks at the output directory.
Init ==
    /\ cmd \in Commands
    /\ starts = [p \in Procs |-> 0]
    /\ pc = [p \in Procs |-> "off"]
    /\ job = [p \in Procs |-> "none"]
    /\ keypair = [p \in Procs |-> NoFile]
    /\ keyfile = NoFile
    /\ bound = NoFile
    /\ flushed = [p \in Procs |-> 0]
    /\ temps = {}
    /\ target \in [FileNames -> {NoFile, Old, Dir}]
    /\ (\A p \in Procs : cmd[p] # "get") => target = [n \in FileNames |-> NoFile]
    /\ killed = {} /\ overlap = FALSE /\ served = {}
    /\ F!Init

At(p, l) == pc[p] = l
To(p, l) == pc' = [pc EXCEPT ![p] = l]
Queue(p, j) == job' = [job EXCEPT ![p] = j]
Temp(p) == <<p, starts[p]>>

\* main: the command's future is started.
Start(p) ==
    /\ pc[p] \in {"off", "ok"} /\ starts[p] < MaxStarts
    /\ starts' = [starts EXCEPT ![p] = @ + 1]
    /\ To(p, IF cmd[p] = "get" THEN "fetch" ELSE "check")
    /\ keypair' = [keypair EXCEPT ![p] = NoFile]
    /\ flushed' = [flushed EXCEPT ![p] = 0]
    /\ result' = [result EXCEPT ![p] = "pending"]
    /\ got' = [got EXCEPT ![p] = <<>>]
    /\ part' = [part EXCEPT ![p] = 0]
    /\ UNCHANGED <<cmd, job, bound, sharedFiles, history>>

(***************************************************************************)
(* provide: get_keypair.  A key is named after the start that made it.     *)
(***************************************************************************)
MakesKey(p) == At(p, "key") \/ job[p] \in {"keycreate", "keywrite"}

\* Mutant of KeyCheck: a key is generated even if the file exists.
KeyCheckGenerates(p) ==
    /\ At(p, "check")
    /\ overlap' = (overlap \/ \E q \in Procs \ {p} : MakesKey(q))
    /\ keypair' = [keypair EXCEPT ![p] = Temp(p)]
    /\ To(p, "key") /\ Queue(p, "keycreate")
    /\ UNCHANGED <<cmd, starts, flushed, bound, sharedFiles, killed, served, fetch>>

KeyCheck(p) ==
    /\ At(p, "check")
    /\ overlap' = (overlap \/ \E q \in Procs \ {p} : MakesKey(q))
    /\ \/ keyfile # NoFile /\ To(p, "read") /\ UNCHANGED <<job, keypair>>
       \/ /\ keyfile = NoFile
          /\ keypair' = [keypair EXCEPT ![p] = Temp(p)]
          /\ To(p, "key") /\ Queue(p, "keycreate")
    /\ UNCHANGED <<cmd, starts, flushed, bound, sharedFiles, killed, served, fetch>>

ReadKey(p) ==
    /\ At(p, "read") /\ keyfile # Partial
    /\ keypair' = [keypair EXCEPT ![p] = keyfile]
    /\ To(p, "source")
    /\ UNCHANGED <<cmd, starts, job, flushed, bound, sharedFiles, history, fetch>>

\* Mutant of CreateKeyFile: the job runs only while it is waited for.
CreateKeyFileAwaited(p) ==
    /\ job[p] = "keycreate" /\ At(p, "key")
    /\ keyfile' = Partial /\ Queue(p, "keywrite")
    /\ UNCHANGED <<own, pc, temps, target, history, fetch>>

\* fs::write creates or truncates the file, then writes it.
CreateKeyFile(p) ==
    /\ job[p] = "keycreate"
    /\ keyfile' = Partial /\ Queue(p, "keywrite")
    /\ UNCHANGED <<own, pc, temps, target, history, fetch>>

WriteKeyFile(p) ==
    /\ job[p] = "keywrite"
    /\ keyfile' = keypair[p] /\ Queue(p, "none")
    /\ UNCHANGED <<own, pc, temps, target, history, fetch>>

KeyWritten(p) ==
    /\ At(p, "key") /\ job[p] = "none" /\ To(p, "source")
    /\ UNCHANGED <<own, job, sharedFiles, history, fetch>>

(***************************************************************************)
(* provide: the sources, the collection, the provider.                     *)
(***************************************************************************)
\* A path is listed; standard input is copied to a temporary file first.
Source(p) ==
    /\ At(p, "source")
    /\ \/ /\ cmd[p] = "provide"
          /\ To(p, "create") /\ Queue(p, "outboards") /\ UNCHANGED temps
       \/ /\ cmd[p] = "provide_stdin"
          /\ temps' = temps \cup {Temp(p)}
          /\ To(p, "stdin") /\ Queue(p, "stdin")
    /\ UNCHANGED <<own, keyfile, target, history, fetch>>

\* A blocking read of standard input returns: with data or at its end.
ReadStdin(p) ==
    /\ job[p] = "stdin" /\ Queue(p, "none")
    /\ UNCHANGED <<own, pc, sharedFiles, history, fetch>>

StdinCopied(p) ==
    /\ At(p, "stdin") /\ job[p] = "none"
    /\ \/ Queue(p, "stdin") /\ UNCHANGED pc
       \/ To(p, "create") /\ Queue(p, "outboards")
    /\ UNCHANGED <<own, sharedFiles, history, fetch>>

\* The jobs of create_collection end.
Outboards(p) ==
    /\ job[p] = "outboards" /\ Queue(p, "none")
    /\ UNCHANGED <<own, pc, sharedFiles, history, fetch>>

\* Builder::spawn and Provider::ticket; then the provider is awaited.
Spawn(p) ==
    /\ At(p, "create") /\ job[p] = "none" /\ bound = NoFile
    /\ bound' = p /\ To(p, "serving")
    /\ served' = served \cup {keypair[p]}
    /\ UNCHANGED <<cmd, starts, keypair, flushed, job, sharedFiles, killed, overlap, fetch>>

(***************************************************************************)
(* A provider that serves: send_blob copies every blob on a blocking       *)
(* thread.  The transfers themselves are in Provider; here is only what    *)
(* they mean for the process.                                              *)
(***************************************************************************)
SendBlob(p) ==
    /\ At(p, "serving") /\ job[p] = "none" /\ Queue(p, "sending")
    /\ UNCHANGED <<own, pc, sharedFiles, history, fetch>>

\* The copy ends: with the blob, at a file that changed, or at a connection
\* that was lost.
BlobSent(p) ==
    /\ job[p] = "sending" /\ Queue(p, "none")
    /\ UNCHANGED <<own, pc, sharedFiles, history, fetch>>

\* The client does not read: the copy waits for flow control credit.
SendBlocks(p) ==
    /\ job[p] = "sending" /\ Queue(p, "blocked")
    /\ UNCHANGED <<own, pc, sharedFiles, history, fetch>>

\* Credit arrives, or the connection ends.  Nobody is obliged to do either,
\* and once the tasks of the runtime are dropped nobody need tell the copy.
SendWakes(p) ==
    /\ job[p] = "blocked" /\ Queue(p, "sending")
    /\ UNCHANGED <<own, pc, sharedFiles, history, fetch>>

(***************************************************************************)
(* get: on_blob.                                                           *)
(***************************************************************************)
Index(p) == Len(got[p]) + 1

OnBlob(p) ==
    /\ At(p, "fetch") /\ Index(p) <= Len(List)
    /\ To(p, "temp") /\ Queue(p, "tempfile")
    /\ UNCHANGED <<own, sharedFiles, history, fetch>>

\* The temporary file is dropped at once if nobody waits for it any more.
TempFile(p) ==
    /\ job[p] = "tempfile" /\ Queue(p, "none")
    /\ IF At(p, "temp") THEN To(p, "copy") /\ temps' = temps \cup {Temp(p)}
                        ELSE UNCHANGED <<pc, temps>>
    /\ UNCHANGED <<own, keyfile, target, history, fetch>>

CopySegment(p) ==
    /\ At(p, "copy") /\ F!DeliverSegment(p)
    /\ UNCHANGED <<own, pc, job, sharedFiles, history>>

\* Mutant of CopyEnds: the end of the stream is taken for the end of the blob.
CopyEndsAnywhere(p) ==
    /\ At(p, "copy")
    /\ flushed' = [flushed EXCEPT ![p] = part[p]]
    /\ To(p, "persist") /\ Queue(p, "persist")
    /\ UNCHANGED <<cmd, starts, keypair, bound, sharedFiles, history, fetch>>

\* tokio::io::copy returns at the end of the blob, everything flushed.
CopyEnds(p) ==
    /\ At(p, "copy") /\ part[p] = F!NextSize(p)
    /\ flushed' = [flushed EXCEPT ![p] = part[p]]
    /\ To(p, "persist") /\ Queue(p, "persist")
    /\ UNCHANGED <<cmd, starts, keypair, bound, sharedFiles, history, fetch>>

\* The temporary file is renamed, which replaces a file of that name; a
\* directory of that name makes it fail, and the temporary file is removed.
Persist(p) ==
    /\ job[p] = "persist" /\ Queue(p, "none")
    /\ temps' = temps \ {Temp(p)}
    /\ LET n == FileNameOf(Index(p)) IN
       \/ /\ target[n] # Dir
          /\ target' = [target EXCEPT ![n] = Content(List[Index(p)].hash, flushed[p])]
          /\ UNCHANGED <<pc, fetch>>
       \/ /\ target[n] = Dir /\ At(p, "persist")
          /\ To(p, "exiting") /\ F!Fail(p) /\ UNCHANGED target
       \/ /\ target[n] = Dir /\ ~At(p, "persist")
          /\ UNCHANGED <<pc, target, fetch>>
    /\ UNCHANGED <<own, keyfile, history>>

\* run checks that the blob was read to its end and goes on.
BlobStored(p) ==
    /\ At(p, "persist") /\ job[p] = "none"
    /\ F!CompleteBlob(p) /\ To(p, "fetch")
    /\ UNCHANGED <<own, job, sharedFiles, history>>

\* Mutant of Done: the result of run is not awaited.
DoneEarly(p) ==
    /\ At(p, "fetch") /\ To(p, "ok")
    /\ UNCHANGED <<own, job, sharedFiles, history, fetch>>

Done(p) ==
    /\ At(p, "fetch") /\ F!Succeed(p) /\ To(p, "ok")
    /\ UNCHANGED <<own, job, sharedFiles, history>>

(***************************************************************************)
(* Errors, ctrl-c, kill.                                                   *)
(***************************************************************************)
\* Mutant of Dropped: a temporary file outlives the future that made it.
DroppedKeepsTemps(p) ==
    /\ temps' = temps
    /\ bound' = IF bound = p THEN NoFile ELSE bound
    /\ IF cmd[p] = "get" THEN F!Fail(p) ELSE UNCHANGED fetch

\* The main future is dropped with what it owns: temporary files (unless a
\* job owns it by now), the endpoint, the connection.
Dropped(p) ==
    /\ temps' = IF job'[p] = "persist" THEN temps ELSE temps \ {Temp(p)}
    /\ bound' = IF bound = p THEN NoFile ELSE bound
    /\ IF cmd[p] = "get" THEN F!Fail(p) ELSE UNCHANGED fetch

\* An error on the way: a key that does not parse, a path that is neither
\* file nor directory, a job that failed, an address in use, a bad token, a
\* failed transfer, a full disk.
Failure(p) ==
    /\ \/ At(p, "read") /\ keyfile = Partial
       \/ pc[p] \in {"source", "fetch", "copy"}
       \/ At(p, "create") /\ job[p] = "none"
    /\ UNCHANGED job
    /\ To(p, "exiting") /\ Dropped(p)
    /\ UNCHANGED <<cmd, starts, keypair, flushed, keyfile, target, history>>

\* The disk is full when a file is written: an error of the job.
JobFails(p) ==
    /\ \/ At(p, "key") /\ job[p] \in {"keycreate", "keywrite"}
       \/ At(p, "stdin") /\ job[p] = "stdin"
       \/ At(p, "temp") /\ job[p] = "tempfile"
    /\ Queue(p, "none") /\ To(p, "exiting") /\ Dropped(p)
    /\ UNCHANGED <<cmd, starts, keypair, flushed, keyfile, target, history>>

Live(p) == pc[p] \notin {"off", "ok", "exiting"}

\* A job that has not begun may be dropped by the runtime that shuts down.
Interrupt(p) ==
    /\ Live(p)
    /\ \/ UNCHANGED job
       \/ job[p] \in {"keycreate", "tempfile", "persist", "sending"} /\ Queue(p, "none")
    /\ To(p, "exiting") /\ Dropped(p)
    /\ UNCHANGED <<cmd, starts, keypair, flushed, keyfile, target, history>>

Exit(p) ==
    /\ At(p, "exiting") /\ job[p] = "none"
    /\ To(p, "off")
    /\ UNCHANGED <<own, job, sharedFiles, history, fetch>>

\* The process is killed: files stay as they are.
Kill(p) ==
    /\ Live(p) \/ At(p, "exiting")
    /\ To(p, "off") /\ Queue(p, "none")
    /\ killed' = killed \cup {Temp(p)}
    /\ bound' = IF bound = p THEN NoFile ELSE bound
    /\ UNCHANGED <<cmd, starts, keypair, flushed, sharedFiles, overlap, served, fetch>>

Job(p) ==
    \/ CreateKeyFile(p) \/ WriteKeyFile(p) \/ Outboards(p) \/ TempFile(p) \/ Persist(p)
    \/ BlobSent(p) \/ SendBlocks(p)

Next == \E p \in Procs :
    \/ Start(p)
    \/ KeyCheck(p) \/ ReadKey(p) \/ KeyWritten(p)
    \/ Source(p) \/ StdinCopied(p) \/ Spawn(p) \/ SendBlob(p) \/ SendWakes(p)
    \/ OnBlob(p) \/ CopySegment(p) \/ CopyEnds(p) \/ BlobStored(p) \/ Done(p)
    \/ Job(p) \/ ReadStdin(p) \/ JobFails(p)
    \/ Failure(p) \/ Interrupt(p) \/ Exit(p) \/ Kill(p)

Spec == Init /\ [][Next]_cliVars

\* Blocking threads run and a process without jobs exits; nobody is obliged
\* to type on standard input or to read what a provider sends.
FairSpec == Spec /\ \A p \in Procs : WF_cliVars(Job(p) \/ Exit(p))

(***************************************************************************)
(* Properties.                                                             *)
(***************************************************************************)

\* Under a target name there is never a part of a blob: only what was there
\* before, or a whole blob of that name, whatever fails, is interrupted or
\* killed, and with several `get's writing to the same directory.
NoPartialTarget ==
    \A n \in FileNames :
        target[n] \notin {NoFile, Old, Dir} =>
            \E i \in 1..Len(List) : FileNameOf(i) = n /\ target[n] = Whole(List[i].hash)

\* A `get' that ends with "Done" has stored every blob under its name.  Of
\* different blobs with one name the last is there, if no other `get' writes
\* to the directory: a slower one may still put an earlier one in its place.
GetsAlone(p) == \A q \in Procs \ {p} : cmd[q] # "get"
Supersedes(p, j, i) == /\ FileNameOf(j) = FileNameOf(i) /\ List[j].hash # List[i].hash
                       /\ ~(GetsAlone(p) /\ j < i)
DoneMeansStored ==
    \A p \in Procs : pc[p] = "ok" =>
        \A i \in 1..Len(List) :
            (\A j \in 1..Len(List) : ~Supersedes(p, j, i))
              => target[FileNameOf(i)] = Whole(List[i].hash)

\* Temporary files are those of running commands, or of commands that were
\* killed: an error and ctrl-c at any point remove them.
TempsCleaned ==
    \A f \in temps : f \in killed \/ \E p \in Procs : f = Temp(p) /\ pc[p] \notin {"off", "ok"}

\* "if it does not exist the private key will be persisted to this
\* location": what is served can be served again after a restart, and all
\* providers with the key file have the same identity, if no two of them
\* look for the file and make it at the same time - killed, interrupted and
\* failing ones included.
ServesPersistedKey ==
    ~overlap => /\ \A p \in Procs : pc[p] = "serving" => keyfile = keypair[p]
                /\ \A k, l \in served : k = l

\* After ctrl-c or an error the process exits, whatever jobs it has begun,
\* with two exceptions: one that reads standard input waits for the input
\* that a blocking thread reads, and a provider, on which ctrl-c does not
\* call shutdown, for a copy to a client that does not read.  A copy that is
\* not blocked does not keep it.
ExitsUnlessHeld ==
    \A p \in Procs :
        At(p, "exiting") ~> (~At(p, "exiting") \/ job[p] \in {"stdin", "blocked"})
=============================================================================
