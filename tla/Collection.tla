----------------------------- MODULE Collection -----------------------------
(***************************************************************************)
(* create_collection and compute_outboard (provider.rs): the database a    *)
(* provider serves is built from files, one blocking job per data source,  *)
(* all in parallel, while other programs may write to the files.           *)
(*                                                                         *)
(* A file's content is a sequence of segments and stands for its own hash  *)
(* (no two contents have the same hash).  Segments are read one by one, so *)
(* a job can see a mixture of contents.  Of the encoded collection only    *)
(* its size is modelled, against the buffer that is allocated for it; of a *)
(* name, its length.                                                       *)
(***************************************************************************)
EXTENDS Postcard

CONSTANTS
    Path,       \* files
    FileName,   \* FileName[p]: the last component of a path
    Name,       \* names of blobs
    NameLen,    \* NameLen[n]: the length of a name in bytes
    NoName,     \* the name of a DataSource::File
    SourceLists, \* the lists of data sources that may be given
    EXTRA,      \* what the encoding buffer has beyond the estimate (1024)
    Contents,   \* contents files may have
    NoFile,     \* what is at a path that is not a file
    MaxWrites   \* bound: writes to the files by other programs

ASSUME CollectionAssumption ==
    /\ FileName \in [Path -> Name] /\ NameLen \in [Name -> Nat] /\ NoName \notin Name
    /\ SourceLists \subseteq Seq([path : Path, name : Name \cup {NoName}])
    /\ EXTRA \in Nat
    /\ \A q \in Contents : q \in Seq({q[k] : k \in DOMAIN q})
    /\ NoFile \notin Contents
    /\ MaxWrites \in Nat

VARIABLES
    sources, \* the data sources: path and given name of each
    content, \* content[p]: what is at a path
    writes,  \* writes by others so far
    job,     \* job[i]: where compute_outboard for source i is
    len,     \* len[i]: the length it found when it opened the file
    read,    \* read[i]: what it has read, at the end the content it hashed
    phase,   \* "jobs", then "created" or "failed"
    db,      \* the Database: for each blob hash, path and size
    blobs,   \* Collection.blobs: name and hash of each
    total    \* Collection.total_blobs_size

collVars == <<sources, content, writes, job, len, read, phase, db, blobs, total>>
outcome == <<phase, db, blobs, total>>

Jobs == DOMAIN sources
FileOf(i) == content[sources[i].path]

Init ==
    /\ sources \in SourceLists
    /\ content \in [Path -> Contents \cup {NoFile}]
    /\ writes = 0
    /\ job = [i \in Jobs |-> "start"]
    /\ len = [i \in Jobs |-> 0]
    /\ read = [i \in Jobs |-> <<>>]
    /\ phase = "jobs"
    /\ db = <<>>
    /\ blobs = <<>>
    /\ total = 0

(***************************************************************************)
(* compute_outboard                                                        *)
(***************************************************************************)
OpenSource(i) ==
    /\ job[i] = "start" /\ FileOf(i) # NoFile
    /\ job' = [job EXCEPT ![i] = "copy"]
    /\ len' = [len EXCEPT ![i] = Len(FileOf(i))]
    /\ UNCHANGED <<sources, content, writes, read, outcome>>

OpenSourceFails(i) ==
    /\ job[i] = "start" /\ FileOf(i) = NoFile
    /\ job' = [job EXCEPT ![i] = "failed"]
    /\ UNCHANGED <<sources, content, writes, len, read, outcome>>

CopySegment(i) ==
    /\ job[i] = "copy" /\ Len(read[i]) < Len(FileOf(i))
    /\ read' = [read EXCEPT ![i] = Append(@, FileOf(i)[Len(@) + 1])]
    /\ UNCHANGED <<sources, content, writes, job, len, outcome>>

\* Mutant of CopyEnds: the two lengths are not compared.
CopyEndsUnchecked(i) ==
    /\ job[i] = "copy" /\ Len(read[i]) >= Len(FileOf(i))
    /\ job' = [job EXCEPT ![i] = "done"]
    /\ UNCHANGED <<sources, content, writes, len, read, outcome>>

\* The end of the file is where the file ends now.
CopyEnds(i) ==
    /\ job[i] = "copy" /\ Len(read[i]) >= Len(FileOf(i))
    /\ job' = [job EXCEPT ![i] = IF Len(read[i]) = len[i] THEN "done" ELSE "failed"]
    /\ UNCHANGED <<sources, content, writes, len, read, outcome>>

(***************************************************************************)
(* create_collection, once every job has returned.  Results come in the    *)
(* order of the sources; of two sources with the same content the later    *)
(* one's path is kept.                                                     *)
(***************************************************************************)
\* Mutant of JobsReturned: a job that failed is waited for.
JobsSucceeded == \A i \in Jobs : job[i] = "done"

JobsReturned == \A i \in Jobs : job[i] \in {"done", "failed"}

\* The sum of a sequence of numbers, and the sums of its prefixes.
Sums(f) == LET sum[n \in 0..Len(f)] == IF n = 0 THEN 0 ELSE sum[n - 1] + f[n] IN sum
SumOf(f) == Sums(f)[Len(f)]

\* Mutant of TotalSize: equal contents are counted once.
DistinctSize ==
    SumOf([i \in Jobs |-> IF \E j \in Jobs : j < i /\ read[j] = read[i] THEN 0 ELSE Len(read[i])])

TotalSize == SumOf([i \in Jobs |-> Len(read[i])])

\* Mutant of Inserted: the path is that of the first source.
InsertedFirst == [h \in {read[i] : i \in Jobs} |-> [path |-> sources[1].path, size |-> Len(h)]]

\* The entries the loop over the results leaves in the database.
Inserted ==
    [h \in {read[i] : i \in Jobs} |->
       LET last == Max({i \in Jobs : read[i] = h})
       IN [path |-> sources[last].path, size |-> Len(h)]]

\* An unnamed source is listed under its file name.
NameOf(i) == IF sources[i].name = NoName THEN FileName[sources[i].path] ELSE sources[i].name

\* The bytes postcard needs: the name "collection", the list with a name and
\* a hash of 32 bytes each, and the total.  Lengths and numbers are varints
\* of 7 bits a byte.
HASH == 32
NAME == 10
EncodedSize ==
    LET blobSize(i) == VarintLen(NameLen[NameOf(i)]) + NameLen[NameOf(i)]
                       + VarintLen(HASH) + HASH
    IN VarintLen(NAME) + NAME + VarintLen(Len(sources)) + SumOf([i \in Jobs |-> blobSize(i)])
       + VarintLen(TotalSize)

\* Mutant of BufferSize: the names are not part of the estimate.
BufferSizeNameless == SumOf([i \in Jobs |-> HASH]) + NAME + EXTRA

\* blobs_encoded_size_estimate + 1024
BufferSize == SumOf([i \in Jobs |-> NameLen[NameOf(i)] + HASH]) + NAME + EXTRA

Create ==
    /\ phase = "jobs" /\ JobsReturned
    /\ \A i \in Jobs : job[i] = "done"
    /\ EncodedSize <= BufferSize
    /\ phase' = "created"
    /\ db' = Inserted
    /\ blobs' = [i \in Jobs |-> [name |-> NameOf(i), hash |-> read[i]]]
    /\ total' = TotalSize
    /\ UNCHANGED <<sources, content, writes, job, len, read>>

CreateFails ==
    /\ phase = "jobs" /\ JobsReturned
    /\ \E i \in Jobs : job[i] = "failed"
    /\ phase' = "failed"
    /\ UNCHANGED <<sources, content, writes, job, len, read, db, blobs, total>>

\* to_slice refuses a buffer that is too small.
EncodingFails ==
    /\ phase = "jobs" /\ JobsReturned
    /\ \A i \in Jobs : job[i] = "done"
    /\ EncodedSize > BufferSize
    /\ phase' = "failed"
    /\ UNCHANGED <<sources, content, writes, job, len, read, db, blobs, total>>

(***************************************************************************)
(* Other programs write to a file in place.                                *)
(***************************************************************************)
WriteFile(p, q) ==
    /\ phase = "jobs" /\ writes < MaxWrites
    /\ content[p] \notin {NoFile, q}
    /\ content' = [content EXCEPT ![p] = q]
    /\ writes' = writes + 1
    /\ UNCHANGED <<sources, job, len, read, outcome>>

JobStep(i) == OpenSource(i) \/ OpenSourceFails(i) \/ CopySegment(i) \/ CopyEnds(i)

Next ==
    \/ \E i \in Jobs : JobStep(i)
    \/ Create \/ CreateFails \/ EncodingFails
    \/ \E p \in Path, q \in Contents : WriteFile(p, q)

Spec == Init /\ [][Next]_collVars
FairSpec == Spec /\ WF_collVars(Create \/ CreateFails \/ EncodingFails)
                 /\ \A i \in 1..Max({Len(l) : l \in SourceLists}) : WF_collVars(i \in Jobs /\ JobStep(i))

(***************************************************************************)
(* Properties.                                                             *)
(***************************************************************************)

\* The collection lists every source, in order, and everything it lists is
\* in the database with the size that total_blobs_size counts: a provider
\* never meets a blob that it does not have, and a getter's budget is exact.
CollectionServable ==
    phase = "created" =>
        /\ Len(blobs) = Len(sources)
        /\ \A i \in Jobs : /\ blobs[i].hash \in DOMAIN db
                           /\ db[blobs[i].hash].size = Len(blobs[i].hash)
        /\ total = SumOf([i \in Jobs |-> db[blobs[i].hash].size])

\* The path kept for a blob is one whose job read exactly this content; if
\* nobody wrote to the files it still has it, for equal files too.
PathHoldsBlob ==
    phase = "created" =>
        \A h \in DOMAIN db :
            /\ \E i \in Jobs : sources[i].path = db[h].path /\ read[i] = h
            /\ writes = 0 => content[db[h].path] = h

\* What is hashed has the size the file had when it was opened, so a file
\* that grew or shrank before it was read to the end is refused.
HashedSizeIsOpenedSize ==
    phase = "created" => \A i \in Jobs : Len(blobs[i].hash) = len[i]

\* Postcard's own bytes, which the buffer's extra bytes are for, are two per
\* blob, one for the name "collection", and the numbers of blobs and bytes,
\* if no blob has a name of 128 bytes or more; if one has, they are more.  So
\* it is the number of files that decides: as many as the extra bytes allow
\* for can be served, whatever their short names, and no more than that can
\* ever be, however short the names are.
OwnBytes == 2 * Len(sources) + 1 + VarintLen(Len(sources)) + VarintLen(TotalSize)
FilesThatFit ==
    /\ (OwnBytes <= EXTRA /\ \A i \in Jobs : job[i] = "done" /\ NameLen[NameOf(i)] < 128)
         => phase # "failed"
    /\ phase = "created" => OwnBytes <= EXTRA

\* A job that was stopped by no error runs to its end, and create_collection
\* returns.
CreationReturns == <>(phase \in {"created", "failed"})
=============================================================================
