-------------------------- MODULE CollectionProofs --------------------------
(***************************************************************************)
(* The safety properties of create_collection, for any list of sources,    *)
(* any contents of the files and any number of writes to them by others.   *)
(***************************************************************************)
EXTENDS Collection, NaturalsInduction, WellFoundedInduction, TLAPS

Segs == UNION {{q[k] : k \in DOMAIN q} : q \in Contents}
Files == Contents \cup {NoFile}

\* Contents are sequences of segments.
LEMMA ContentsAreSeqs == Contents \subseteq Seq(Segs)
<1> SUFFICES ASSUME NEW q \in Contents PROVE q \in Seq(Segs)
  OBVIOUS
<1> DEFINE R == {q[k] : k \in DOMAIN q}
<1>1. q \in Seq(R)
  BY CollectionAssumption
<1>2. R \subseteq Segs
  BY DEF Segs
<1> HIDE DEF R
<1> QED BY <1>1, <1>2

(***************************************************************************)
(* The jobs.                                                               *)
(***************************************************************************)

\* A job that is copying has a file; if nobody writes to the files, it has
\* read a prefix of what the file holds, and at the end all of it.  What a
\* job has hashed is as long as the file was when it was opened, whatever
\* others write: the jobs that meet another length have failed.
PrefixOf(r, q) == Len(r) <= Len(q) /\ \A k \in 1..Len(r) : r[k] = q[k]
ReadsFile(i) ==
    /\ job[i] = "start" => read[i] = <<>>
    /\ job[i] = "copy" => FileOf(i) # NoFile
    /\ job[i] = "copy" /\ writes = 0 => PrefixOf(read[i], FileOf(i))
    /\ job[i] = "done" => Len(read[i]) = len[i]
    /\ job[i] = "done" /\ writes = 0 => read[i] = FileOf(i)
JobsInv ==
    /\ sources \in SourceLists
    /\ content \in [Path -> Files]
    /\ writes \in Nat
    /\ job \in [Jobs -> {"start", "copy", "done", "failed"}]
    /\ len \in [Jobs -> Nat]
    /\ read \in [Jobs -> Seq(Segs)]
    /\ \A i \in Jobs : ReadsFile(i)

\* The sources are listed from 1 on, and their files are paths.
LEMMA SourceFacts ==
    ASSUME sources \in SourceLists
    PROVE  /\ Len(sources) \in Nat /\ Jobs = 1..Len(sources)
           /\ \A i \in Jobs : sources[i].path \in Path
           /\ \A i \in Jobs : NameLen[NameOf(i)] \in Nat
<1> DEFINE S == [path : Path, name : Name \cup {NoName}]
<1>1. sources \in Seq(S)
  BY CollectionAssumption
<1>2. \A s \in S : /\ s.path \in Path /\ s.name \in Name \cup {NoName}
  OBVIOUS
<1> HIDE DEF S
<1>3. Len(sources) \in Nat /\ DOMAIN sources = 1..Len(sources)
      /\ \A i \in 1..Len(sources) : sources[i] \in S
  BY <1>1
<1>4. \A i \in Jobs : NameOf(i) \in Name
  BY <1>2, <1>3, CollectionAssumption DEF NameOf, Jobs
<1> QED BY <1>2, <1>3, <1>4, CollectionAssumption DEF Jobs

\* Before the jobs start nothing is read.
LEMMA JobsInit == Init => JobsInv
<1> SUFFICES ASSUME Init PROVE JobsInv
  OBVIOUS
<1>1. \A i \in Jobs : job[i] = "start" /\ read[i] = <<>> /\ <<>> \in Seq(Segs)
  BY DEF Init
<1> QED BY <1>1 DEF Init, JobsInv, ReadsFile, Files

\* A step of one job.
LEMMA JobSteps ==
    ASSUME JobsInv, NEW i \in Jobs, JobStep(i)
    PROVE  JobsInv'
<1>0. /\ sources' = sources /\ content' = content /\ writes' = writes /\ Jobs' = Jobs
  BY DEF JobStep, OpenSource, OpenSourceFails, CopySegment, CopyEnds, Jobs
<1>1. sources[i].path \in Path /\ FileOf(i) \in Files
  BY SourceFacts DEF JobsInv, FileOf
<1>2. FileOf(i) # NoFile => FileOf(i) \in Seq(Segs) /\ Len(FileOf(i)) \in Nat
  BY <1>1, ContentsAreSeqs DEF Files
<1>3. \A j \in Jobs : FileOf(j)' = FileOf(j)
  BY <1>0 DEF FileOf
<1>4. read[i] \in Seq(Segs) /\ Len(read[i]) \in Nat
  BY DEF JobsInv
<1>5. ASSUME /\ job' \in [Jobs -> {"start", "copy", "done", "failed"}]
             /\ len' \in [Jobs -> Nat] /\ read' \in [Jobs -> Seq(Segs)]
             /\ \A j \in Jobs \ {i} : job'[j] = job[j] /\ len'[j] = len[j] /\ read'[j] = read[j]
             /\ ReadsFile(i)'
      PROVE  JobsInv'
  <2>1. ASSUME NEW j \in Jobs PROVE ReadsFile(j)'
    BY <1>0, <1>3, <1>5, <2>1 DEF JobsInv, ReadsFile
  <2> QED BY <1>0, <1>5, <2>1 DEF JobsInv
<1>6. CASE OpenSource(i)
  <2>1. /\ job' = [job EXCEPT ![i] = "copy"] /\ read' = read /\ FileOf(i) # NoFile
        /\ len' = [len EXCEPT ![i] = Len(FileOf(i))] /\ read[i] = <<>>
    BY <1>6 DEF OpenSource, JobsInv, ReadsFile
  <2>2. ReadsFile(i)'
    BY <1>0, <1>2, <1>3, <2>1 DEF ReadsFile, JobsInv, PrefixOf
  <2> QED BY <1>2, <1>5, <2>1, <2>2 DEF JobsInv
<1>7. CASE OpenSourceFails(i)
  BY <1>5, <1>7 DEF OpenSourceFails, JobsInv, ReadsFile
<1>8. CASE CopySegment(i)
  <2> DEFINE r == Append(read[i], FileOf(i)[Len(read[i]) + 1])
  <2>1. /\ job' = job /\ len' = len /\ job[i] = "copy" /\ FileOf(i) # NoFile
        /\ read' = [read EXCEPT ![i] = r] /\ Len(read[i]) < Len(FileOf(i))
    BY <1>8 DEF CopySegment, JobsInv, ReadsFile
  <2>2. r \in Seq(Segs)
    BY <1>2, <1>4, <2>1
  <2>3. writes = 0 => PrefixOf(r, FileOf(i))
    BY <1>2, <1>4, <2>1 DEF JobsInv, ReadsFile, PrefixOf
  <2> HIDE DEF r
  <2>4. read'[i] = r
    BY <2>1 DEF JobsInv
  <2>5. ReadsFile(i)'
    BY <1>0, <1>3, <2>1, <2>3, <2>4 DEF ReadsFile
  <2> QED BY <1>5, <2>1, <2>2, <2>5 DEF JobsInv
<1>9. CASE CopyEnds(i)
  <2>1. /\ len' = len /\ read' = read /\ job[i] = "copy" /\ FileOf(i) # NoFile
        /\ job' = [job EXCEPT ![i] = IF Len(read[i]) = len[i] THEN "done" ELSE "failed"]
        /\ Len(read[i]) >= Len(FileOf(i))
    BY <1>9 DEF CopyEnds, JobsInv, ReadsFile
  <2>2. writes = 0 => read[i] = FileOf(i)
    <3> SUFFICES ASSUME writes = 0 PROVE read[i] = FileOf(i)
      OBVIOUS
    <3>1. PrefixOf(read[i], FileOf(i))
      BY <2>1 DEF JobsInv, ReadsFile
    <3>2. Len(read[i]) = Len(FileOf(i))
      BY <1>2, <1>4, <2>1, <3>1 DEF PrefixOf
    <3> QED BY <1>2, <1>4, <2>1, <3>1, <3>2 DEF PrefixOf
  <2>3. /\ job' \in [Jobs -> {"start", "copy", "done", "failed"}]
        /\ \A j \in Jobs \ {i} : job'[j] = job[j]
        /\ job'[i] \in {"done", "failed"} /\ (job'[i] = "done" => Len(read[i]) = len[i])
    BY <2>1 DEF JobsInv
  <2>4. ReadsFile(i)'
    BY <1>0, <1>3, <2>1, <2>2, <2>3 DEF ReadsFile
  <2> QED BY <1>5, <2>1, <2>3, <2>4 DEF JobsInv
<1> QED BY <1>6, <1>7, <1>8, <1>9 DEF JobStep

\* Another program writes to a file in place.
LEMMA WriteStep ==
    ASSUME JobsInv, NEW p \in Path, NEW q \in Contents, WriteFile(p, q)
    PROVE  JobsInv'
<1>1. /\ UNCHANGED <<sources, job, len, read>> /\ writes' = writes + 1 /\ writes' # 0
      /\ content' = [content EXCEPT ![p] = q] /\ q # NoFile /\ Jobs' = Jobs
  BY CollectionAssumption DEF WriteFile, JobsInv, Jobs
<1>2. ASSUME NEW i \in Jobs PROVE ReadsFile(i)'
  <2>1. FileOf(i)' = FileOf(i) \/ FileOf(i)' = q
    BY <1>1, SourceFacts DEF JobsInv, FileOf
  <2> QED BY <1>1, <2>1 DEF JobsInv, ReadsFile
<1> QED BY <1>1, <1>2 DEF JobsInv, Files

\* What the jobs have read, whatever else happens.
LEMMA JobsInvariant == Spec => []JobsInv
<1>1. JobsInv /\ [Next]_collVars => JobsInv'
  <2> SUFFICES ASSUME JobsInv, [Next]_collVars PROVE JobsInv'
    OBVIOUS
  <2>1. CASE UNCHANGED <<sources, content, writes, job, len, read>>
    BY <2>1 DEF JobsInv, ReadsFile, FileOf, Jobs
  <2>2. CASE Create \/ CreateFails \/ EncodingFails
    BY <2>1, <2>2 DEF Create, CreateFails, EncodingFails
  <2> QED BY <2>1, <2>2, JobSteps, WriteStep DEF Next, collVars
<1> QED BY <1>1, JobsInit, PTL DEF Spec

(***************************************************************************)
(* The collection.                                                         *)
(***************************************************************************)

\* Once create_collection has returned, all jobs have: nothing it was built
\* from changes any more.
AllDone == \A i \in Jobs : job[i] = "done"
Listed == [i \in Jobs |-> [name |-> NameOf(i), hash |-> read[i]]]
CreatedInv ==
    /\ phase \in {"jobs", "created", "failed"}
    /\ phase # "jobs" => JobsReturned
    /\ phase = "created" => /\ AllDone /\ db = Inserted /\ blobs = Listed /\ total = TotalSize
                            /\ EncodedSize <= BufferSize
    /\ phase = "failed" => ~AllDone \/ EncodedSize > BufferSize

\* What is built depends on the sources and on what was read.
LEMMA BuiltFrom ==
    ASSUME UNCHANGED <<sources, job, read>>
    PROVE  /\ Jobs' = Jobs /\ JobsReturned' = JobsReturned /\ AllDone' = AllDone
           /\ Inserted' = Inserted /\ Listed' = Listed /\ TotalSize' = TotalSize
           /\ EncodedSize' = EncodedSize /\ BufferSize' = BufferSize
<1>1. Jobs' = Jobs /\ \A i : NameOf(i)' = NameOf(i)
  BY DEF Jobs, NameOf
<1>2. TotalSize' = TotalSize /\ Inserted' = Inserted
  BY <1>1 DEF TotalSize, Inserted
<1>3. EncodedSize' = EncodedSize /\ BufferSize' = BufferSize
  BY <1>1, <1>2 DEF EncodedSize, BufferSize
<1>4. JobsReturned' = JobsReturned /\ AllDone' = AllDone /\ Listed' = Listed
  BY <1>1 DEF JobsReturned, AllDone, Listed
<1> QED BY <1>1, <1>2, <1>3, <1>4

\* The outcome is built once, from what all the jobs have read.
LEMMA CreatedInvariant == Spec => []CreatedInv
<1>1. Init => CreatedInv
  BY DEF Init, CreatedInv
<1>2. CreatedInv /\ [Next]_collVars => CreatedInv'
  <2> SUFFICES ASSUME CreatedInv, [Next]_collVars PROVE CreatedInv'
    OBVIOUS
  <2>1. CASE UNCHANGED collVars
    <3>1. UNCHANGED <<sources, job, read>> /\ UNCHANGED <<phase, db, blobs, total>>
      BY <2>1 DEF collVars
    <3> QED BY <3>1, BuiltFrom DEF CreatedInv
  <2>2. ASSUME NEW i \in Jobs, JobStep(i) PROVE CreatedInv'
    <3>1. phase = "jobs" /\ phase' = phase
      BY <2>2 DEF CreatedInv, JobsReturned, JobStep, OpenSource, OpenSourceFails,
                  CopySegment, CopyEnds, outcome
    <3> QED BY <3>1 DEF CreatedInv
  <2>3. ASSUME NEW p \in Path, NEW q \in Contents, WriteFile(p, q) PROVE CreatedInv'
    BY <2>3 DEF CreatedInv, WriteFile, outcome
  <2>4. CASE Create
    <3>1. UNCHANGED <<sources, job, read>> /\ JobsReturned /\ AllDone /\ phase' = "created"
      BY <2>4 DEF Create, AllDone
    <3>2. /\ db' = Inserted /\ blobs' = Listed /\ total' = TotalSize
          /\ EncodedSize <= BufferSize
      BY <2>4 DEF Create, Listed
    <3> QED BY <3>1, <3>2, BuiltFrom DEF CreatedInv
  <2>5. CASE CreateFails
    <3>1. UNCHANGED <<sources, job, read>> /\ JobsReturned /\ ~AllDone /\ phase' = "failed"
      BY <2>5 DEF CreateFails, AllDone
    <3> QED BY <3>1, BuiltFrom DEF CreatedInv
  <2>6. CASE EncodingFails
    <3>1. /\ UNCHANGED <<sources, job, read>> /\ JobsReturned /\ phase' = "failed"
          /\ EncodedSize > BufferSize
      BY <2>6 DEF EncodingFails
    <3> QED BY <3>1, BuiltFrom DEF CreatedInv
  <2> QED BY <2>1, <2>2, <2>3, <2>4, <2>5, <2>6 DEF Next
<1> QED BY <1>1, <1>2, PTL DEF Spec

\* A file that grew or shrank between the time it was opened and the time it
\* was read to its end is in no collection.
THEOREM CollectionHashesOpenedSize == Spec => []HashedSizeIsOpenedSize
<1>1. JobsInv /\ CreatedInv => HashedSizeIsOpenedSize
  BY DEF JobsInv, ReadsFile, CreatedInv, AllDone, Listed, HashedSizeIsOpenedSize
<1> QED BY <1>1, JobsInvariant, CreatedInvariant, PTL

\* Every listed blob is in the database, with the size that the total counts:
\* for equal files too, which share an entry but are counted each.
THEOREM CollectionIsServable == Spec => []CollectionServable
<1>1. JobsInv /\ CreatedInv => CollectionServable
  <2> SUFFICES ASSUME JobsInv, CreatedInv, phase = "created" PROVE CollectionServable
    BY DEF CollectionServable
  <2>1. db = Inserted /\ blobs = Listed /\ total = TotalSize
    BY DEF CreatedInv
  <2>2. Jobs = 1..Len(sources) /\ Len(sources) \in Nat
    BY SourceFacts DEF JobsInv
  <2>3. Len(blobs) = Len(sources)
    BY <2>1, <2>2 DEF Listed
  <2>4. \A i \in Jobs : blobs[i].hash = read[i]
    BY <2>1 DEF Listed
  <2>5. \A i \in Jobs : read[i] \in DOMAIN db /\ db[read[i]].size = Len(read[i])
    BY <2>1 DEF Inserted
  <2>6. [i \in Jobs |-> Len(read[i])] = [i \in Jobs |-> db[blobs[i].hash].size]
    BY <2>4, <2>5
  <2>7. total = SumOf([i \in Jobs |-> db[blobs[i].hash].size])
    BY <2>1, <2>6, Zenon DEF TotalSize
  <2> QED BY <2>3, <2>4, <2>5, <2>7 DEF CollectionServable
<1> QED BY <1>1, JobsInvariant, CreatedInvariant, PTL

\* Every non-empty set of numbers has a least element.
LEMMA LeastNat ==
    ASSUME NEW T, T \subseteq Nat, T # {}
    PROVE  \E x \in T : \A y \in T : x <= y
<1> DEFINE R == OpToRel(<, Nat)
<1>1. IsWellFoundedOn(R, Nat)
  BY NatLessThanWellFounded, Zenon
<1>2. \A a, b \in Nat : <<a, b>> \in R <=> a < b
  BY DEF OpToRel
<1> HIDE DEF R
<1>3. PICK x \in T : \A y \in T : ~(<<y, x>> \in R)
  BY <1>1, WFMin
<1>4. \A y \in T : y \in Nat /\ x \in Nat
  OBVIOUS
<1>5. \A y \in T : ~(y < x)
  BY <1>2, <1>3, <1>4
<1> QED BY <1>3, <1>4, <1>5

\* Every non-empty set of numbers up to a bound has a greatest element.
LEMMA GreatestIs ==
    ASSUME NEW m \in Nat, NEW T \in SUBSET (1..m), T # {}
    PROVE  Max(T) \in T
<1> DEFINE B == {b \in Nat : \A x \in T : x <= b}
<1>1. B \subseteq Nat /\ m \in B
  OBVIOUS
<1>2. PICK b \in B : \A c \in B : b <= c
  BY <1>1, LeastNat
<1>3. b \in T
  <2> SUFFICES ASSUME b \notin T PROVE FALSE
    OBVIOUS
  <2>1. \A x \in T : x \in Nat /\ x <= b - 1 /\ b >= 1
    BY <1>2
  <2>2. b - 1 \in Nat
    <3>1. PICK x \in T : TRUE
      OBVIOUS
    <3> QED BY <1>2, <2>1, <3>1
  <2>3. b - 1 \in B
    BY <2>1, <2>2
  <2> QED BY <1>2, <2>3
<1>4. \A x \in T : b >= x
  BY <1>2
<1> QED BY <1>3, <1>4 DEF Max

\* The path kept for a blob is that of a job which read exactly this content,
\* and still holds it if nobody wrote to the files: a provider that is
\* asked for the blob serves what the hash promises.
THEOREM CollectionPathHoldsBlob == Spec => []PathHoldsBlob
<1>1. JobsInv /\ CreatedInv => PathHoldsBlob
  <2> SUFFICES ASSUME JobsInv, CreatedInv, phase = "created", NEW h \in DOMAIN db
               PROVE  /\ \E i \in Jobs : sources[i].path = db[h].path /\ read[i] = h
                      /\ writes = 0 => content[db[h].path] = h
    BY DEF PathHoldsBlob
  <2> DEFINE T == {i \in Jobs : read[i] = h}
             l == Max(T)
  <2>1. db = Inserted /\ AllDone
    BY DEF CreatedInv
  <2>2. T # {} /\ db[h].path = sources[l].path
    BY <2>1 DEF Inserted
  <2>3. l \in T
    <3>1. T \in SUBSET (1..Len(sources)) /\ Len(sources) \in Nat
      BY SourceFacts DEF JobsInv
    <3> HIDE DEF T
    <3> QED BY <2>2, <3>1, GreatestIs
  <2> HIDE DEF l
  <2>4. l \in Jobs /\ read[l] = h /\ job[l] = "done"
    BY <2>1, <2>3 DEF AllDone
  <2>5. writes = 0 => content[sources[l].path] = h
    BY <2>4 DEF JobsInv, ReadsFile, FileOf
  <2> QED BY <2>2, <2>4, <2>5
<1> QED BY <1>1, JobsInvariant, CreatedInvariant, PTL

(***************************************************************************)
(* The size of the encoded collection.                                     *)
(***************************************************************************)

\* A set that holds 0 and the successors of its members holds all numbers.
LEMMA SetInduction ==
    ASSUME NEW T, 0 \in T, \A n \in Nat : n \in T => n + 1 \in T
    PROVE  Nat \subseteq T
<1> DEFINE B == Nat \ T
<1> SUFFICES ASSUME B # {} PROVE FALSE
  OBVIOUS
<1>1. PICK x \in B : \A y \in B : x <= y
  BY LeastNat
<1>2. x # 0 /\ x \in Nat /\ x - 1 \in Nat
  BY <1>1
<1>3. x - 1 \in T
  BY <1>1, <1>2
<1> QED BY <1>1, <1>2, <1>3

\* Sums are added up one by one: the recursive definition has the function it
\* describes.
LEMMA SumsUnfold ==
    ASSUME NEW l \in Nat, NEW f \in [1..l -> Nat]
    PROVE  Sums(f) = [n \in 0..l |-> IF n = 0 THEN 0 ELSE Sums(f)[n - 1] + f[n]]
<1> DEFINE P(s, m) == s = [n \in 0..m |-> IF n = 0 THEN 0 ELSE s[n - 1] + f[n]]
           T == {m \in Nat : \E s : P(s, m)}
<1>1. 0 \in T
  <2>1. P([n \in 0..0 |-> 0], 0)
    OBVIOUS
  <2> QED BY <2>1
<1>2. ASSUME NEW m \in Nat, m \in T PROVE m + 1 \in T
  <2>1. PICK s : P(s, m)
    BY <1>2
  <2> DEFINE h == [n \in 0..(m + 1) |-> IF n <= m THEN s[n] ELSE s[m] + f[n]]
  <2>2. \A n \in 0..m : s[n] = IF n = 0 THEN 0 ELSE s[n - 1] + f[n]
    BY <2>1
  <2> HIDE DEF P
  <2>3. /\ \A n \in 0..m : h[n] = s[n]
        /\ h[m + 1] = s[m] + f[m + 1]
    <3>1. \A n \in 0..m : n \in 0..(m + 1) /\ n <= m
      OBVIOUS
    <3>2. m + 1 \in 0..(m + 1) /\ ~(m + 1 <= m)
      OBVIOUS
    <3> QED BY <3>1, <3>2, Zenon
  <2>4. h = [n \in 0..(m + 1) |-> h[n]]
    OBVIOUS
  <2> HIDE DEF h
  <2>5. ASSUME NEW n \in 0..(m + 1)
        PROVE  h[n] = IF n = 0 THEN 0 ELSE h[n - 1] + f[n]
    <3>1. CASE n = 0
      BY <2>2, <2>3, <3>1
    <3>2. CASE n # 0 /\ n <= m
      <4>1. n \in 0..m /\ n - 1 \in 0..m
        BY <3>2
      <4> QED BY <2>2, <2>3, <3>2, <4>1
    <3>3. CASE n = m + 1
      <4>1. n - 1 = m /\ n # 0 /\ m \in 0..m
        BY <3>3
      <4> QED BY <2>3, <3>3, <4>1
    <3> QED BY <3>1, <3>2, <3>3
  <2>6. h = [n \in 0..(m + 1) |-> IF n = 0 THEN 0 ELSE h[n - 1] + f[n]]
    BY <2>4, <2>5
  <2>7. P(h, m + 1)
    BY <2>6 DEF P
  <2>8. \E g : P(g, m + 1)
    BY <2>7, Zenon
  <2> QED BY <2>8
<1>3. l \in T
  <2> HIDE DEF T
  <2>1. Nat \subseteq T
    BY <1>1, <1>2, SetInduction
  <2> QED BY <2>1
<1>4. PICK s : P(s, l)
  BY <1>3
<1>5. Len(f) = l
  OBVIOUS
<1>6. P(Sums(f), l)
  BY <1>4, <1>5 DEF Sums
<1> QED BY <1>6

\* If every term of f exceeds that of g by at most, or at least, 2, the sum
\* exceeds it by at most, or at least, 2 for each term.
LEMMA SumsCompared ==
    ASSUME NEW l \in Nat, NEW f \in [1..l -> Nat], NEW g \in [1..l -> Nat]
    PROVE  /\ SumOf(f) \in Nat /\ SumOf(g) \in Nat
           /\ (\A i \in 1..l : f[i] <= g[i] + 2) => SumOf(f) <= SumOf(g) + (l + l)
           /\ (\A i \in 1..l : f[i] >= g[i] + 2) => SumOf(f) >= SumOf(g) + (l + l)
<1> DEFINE s == Sums(f)
           u == Sums(g)
           AtMost == \A i \in 1..l : f[i] <= g[i] + 2
           AtLeast == \A i \in 1..l : f[i] >= g[i] + 2
           T == {n \in Nat : n <= l => /\ s[n] \in Nat /\ u[n] \in Nat
                                       /\ AtMost => s[n] <= u[n] + (n + n)
                                       /\ AtLeast => s[n] >= u[n] + (n + n)}
<1>1. \A n \in 0..l : s[n] = IF n = 0 THEN 0 ELSE s[n - 1] + f[n]
  <2>1. s = [n \in 0..l |-> IF n = 0 THEN 0 ELSE s[n - 1] + f[n]]
    BY SumsUnfold
  <2> HIDE DEF s
  <2> QED BY <2>1
<1>2. \A n \in 0..l : u[n] = IF n = 0 THEN 0 ELSE u[n - 1] + g[n]
  <2>1. u = [n \in 0..l |-> IF n = 0 THEN 0 ELSE u[n - 1] + g[n]]
    BY SumsUnfold
  <2> HIDE DEF u
  <2> QED BY <2>1
<1>3. Len(f) = l /\ Len(g) = l
  OBVIOUS
<1>4. SumOf(f) = s[l] /\ SumOf(g) = u[l]
  BY <1>3 DEF SumOf
<1> HIDE DEF s, u
<1>5. 0 \in T
  <2>1. 0 \in 0..l
    OBVIOUS
  <2>2. s[0] = 0 /\ u[0] = 0
    BY <1>1, <1>2, <2>1
  <2> HIDE DEF AtMost, AtLeast
  <2>3. s[0] \in Nat /\ u[0] \in Nat /\ s[0] <= u[0] + (0 + 0) /\ s[0] >= u[0] + (0 + 0)
    BY <2>2
  <2> QED BY <2>3
<1>6. ASSUME NEW n \in Nat, n \in T PROVE n + 1 \in T
  <2> SUFFICES ASSUME n + 1 <= l
               PROVE  /\ s[n + 1] \in Nat /\ u[n + 1] \in Nat
                      /\ AtMost => s[n + 1] <= u[n + 1] + ((n + 1) + (n + 1))
                      /\ AtLeast => s[n + 1] >= u[n + 1] + ((n + 1) + (n + 1))
    OBVIOUS
  <2>1. /\ s[n] \in Nat /\ u[n] \in Nat
        /\ AtMost => s[n] <= u[n] + (n + n)
        /\ AtLeast => s[n] >= u[n] + (n + n)
    BY <1>6
  <2>2. n + 1 \in 0..l /\ n + 1 # 0 /\ (n + 1) - 1 = n
    OBVIOUS
  <2>3. s[n + 1] = s[n] + f[n + 1] /\ u[n + 1] = u[n] + g[n + 1]
    BY <1>1, <1>2, <2>2
  <2>4. /\ f[n + 1] \in Nat /\ g[n + 1] \in Nat
        /\ AtMost => f[n + 1] <= g[n + 1] + 2
        /\ AtLeast => f[n + 1] >= g[n + 1] + 2
    OBVIOUS
  <2>5. \A a, b, c, d, k \in Nat :
            /\ a + c \in Nat
            /\ a <= b + (k + k) /\ c <= d + 2 => a + c <= (b + d) + ((k + 1) + (k + 1))
            /\ a >= b + (k + k) /\ c >= d + 2 => a + c >= (b + d) + ((k + 1) + (k + 1))
    OBVIOUS
  <2> HIDE DEF AtMost, AtLeast
  <2>6. s[n + 1] \in Nat /\ u[n + 1] \in Nat
    <3>1. s[n] + f[n + 1] \in Nat /\ u[n] + g[n + 1] \in Nat
      BY <2>1, <2>4, <2>5
    <3> QED BY <2>3, <3>1, Zenon
  <2>7. /\ AtMost => s[n] + f[n + 1] <= (u[n] + g[n + 1]) + ((n + 1) + (n + 1))
        /\ AtLeast => s[n] + f[n + 1] >= (u[n] + g[n + 1]) + ((n + 1) + (n + 1))
    BY <2>1, <2>4, <2>5
  <2> QED BY <2>3, <2>6, <2>7, Zenon
<1>7. l \in T
  <2> HIDE DEF T
  <2>1. Nat \subseteq T
    BY <1>5, <1>6, SetInduction
  <2> QED BY <2>1
<1> QED BY <1>4, <1>7

\* A set of numbers from 2 to 10 that has 10 in it has a least element.
LEMMA LeastUpTo10 ==
    ASSUME NEW T, T \subseteq 2..10, 10 \in T
    PROVE  \E k \in T : \A j \in 2..(k - 1) : j \notin T
<1> SUFFICES ASSUME \A k \in T : \E j \in 2..(k - 1) : j \in T
             PROVE  FALSE
  OBVIOUS
<1>1. \A k \in 2..10 : (\A j \in 2..(k - 1) : j \notin T) => k \notin T
  OBVIOUS
<1>2. 2 \notin T /\ 3 \notin T /\ 4 \notin T
  BY <1>1
<1>3. 5 \notin T /\ 6 \notin T /\ 7 \notin T
  BY <1>1, <1>2
<1>4. 8 \notin T /\ 9 \notin T /\ 10 \notin T
  BY <1>1, <1>2, <1>3
<1> QED BY <1>4

\* A varint takes from 1 to 10 bytes: one below 128, at most two below 128^2.
LEMMA VarintLenIs ==
    ASSUME NEW n \in Nat
    PROVE  /\ VarintLen(n) \in 1..10
           /\ n < 128 => VarintLen(n) = 1
           /\ n < 16384 => VarintLen(n) <= 2
<1>1. CASE n < 128
  <2>1. VarintLen(n) = 1
    BY <1>1 DEF VarintLen
  <2> QED BY <2>1
<1>2. CASE ~(n < 128)
  <2> DEFINE E(k) == 128^k
             T == {k \in 2..10 : n < E(k) \/ k = 10}
             Q(k) == (n < E(k) \/ k = 10) /\ \A j \in 1..(k - 1) : n >= E(j)
  <2>1. /\ E(1) = 128 /\ E(2) = 16384 /\ E(2) \in Int /\ E(3) \in Int /\ E(4) \in Int /\ E(5) \in Int
        /\ E(6) \in Int /\ E(7) \in Int /\ E(8) \in Int /\ E(9) \in Int
    BY SMT
  <2>2. VarintLen(n) = CHOOSE k \in 2..10 : Q(k)
    BY <1>2 DEF VarintLen
  <2> HIDE DEF E
  <2>3. \A j \in 2..9 : ~(n < E(j)) => n >= E(j)
    <3>1. \A j \in 2..9 : E(j) \in Int
      BY <2>1
    <3> QED BY <3>1
  <2>4. PICK k \in T : \A j \in 2..(k - 1) : j \notin T
    BY LeastUpTo10
  <2>5. Q(k)
    <3>1. \A j \in 1..(k - 1) : j = 1 \/ (j \in 2..9 /\ j \in 2..(k - 1))
      OBVIOUS
    <3>2. n >= E(1)
      BY <1>2, <2>1
    <3> QED BY <2>3, <2>4, <3>1, <3>2
  <2>6. VarintLen(n) \in 2..10 /\ Q(VarintLen(n))
    <3>1. k \in 2..10
      OBVIOUS
    <3> HIDE DEF Q
    <3> QED BY <2>2, <2>5, <3>1, Zenon
  <2>7. n < 16384 => VarintLen(n) <= 2
    <3>1. n < 16384 => ~(n >= E(2))
      BY <2>1
    <3>2. \A l \in 2..10 : l <= 2 \/ 2 \in 1..(l - 1)
      OBVIOUS
    <3> QED BY <2>6, <3>1, <3>2
  <2> QED BY <1>2, <2>6, <2>7
<1> QED BY <1>1, <1>2

\* The size of a blob, and the numbers of blobs and bytes.
LEMMA SizesAreNat ==
    ASSUME JobsInv
    PROVE  /\ Len(sources) \in Nat /\ Jobs = 1..Len(sources)
           /\ \A i \in Jobs : NameLen[NameOf(i)] \in Nat
           /\ TotalSize \in Nat /\ EXTRA \in Nat
<1> DEFINE h == [i \in Jobs |-> Len(read[i])]
<1>1. /\ Len(sources) \in Nat /\ Jobs = 1..Len(sources)
      /\ \A i \in Jobs : NameLen[NameOf(i)] \in Nat
  BY SourceFacts DEF JobsInv
<1>2. h \in [1..Len(sources) -> Nat]
  BY <1>1 DEF JobsInv
<1>3. TotalSize = SumOf(h)
  BY DEF TotalSize
<1> HIDE DEF h
<1>4. SumOf(h) \in Nat
  BY <1>1, <1>2, SumsCompared
<1> QED BY <1>1, <1>3, <1>4, CollectionAssumption

\* The encoding exceeds the estimate by postcard's own bytes, or by more if
\* there is a name of 128 bytes or more.
LEMMA EncodingExceeds ==
    ASSUME JobsInv
    PROVE  /\ BufferSize \in Nat /\ EncodedSize \in Nat /\ OwnBytes \in Nat
           /\ EncodedSize + EXTRA >= BufferSize + OwnBytes
           /\ (\A i \in Jobs : NameLen[NameOf(i)] < 128)
                => EncodedSize + EXTRA = BufferSize + OwnBytes
<1> DEFINE f == [i \in Jobs |-> VarintLen(NameLen[NameOf(i)]) + NameLen[NameOf(i)]
                                + VarintLen(HASH) + HASH]
           g == [i \in Jobs |-> NameLen[NameOf(i)] + HASH]
           l == Len(sources)
           vl == VarintLen(Len(sources))
           vt == VarintLen(TotalSize)
<1>1. /\ l \in Nat /\ Jobs = 1..l /\ TotalSize \in Nat /\ EXTRA \in Nat
      /\ \A i \in Jobs : NameLen[NameOf(i)] \in Nat
  BY SizesAreNat
<1>2. /\ VarintLen(HASH) = 1 /\ VarintLen(NAME) = 1
      /\ vl \in 1..10 /\ vt \in 1..10
  BY <1>1, VarintLenIs DEF HASH, NAME
<1>3. \A i \in Jobs : /\ VarintLen(NameLen[NameOf(i)]) \in 1..10
                      /\ NameLen[NameOf(i)] < 128 => VarintLen(NameLen[NameOf(i)]) = 1
  BY <1>1, VarintLenIs
<1>4. ASSUME NEW i \in Jobs
      PROVE  /\ f[i] \in Nat /\ g[i] \in Nat /\ f[i] >= g[i] + 2
             /\ NameLen[NameOf(i)] < 128 => f[i] <= g[i] + 2
  <2> DEFINE n == NameLen[NameOf(i)]
             v == VarintLen(NameLen[NameOf(i)])
  <2>1. n \in Nat /\ v \in 1..10 /\ (n < 128 => v = 1)
    BY <1>1, <1>3
  <2>2. f[i] = v + n + 1 + 32 /\ g[i] = n + 32
    BY <1>2 DEF HASH
  <2> HIDE DEF n, v, f, g
  <2>3. /\ f[i] \in Nat /\ g[i] \in Nat /\ f[i] >= g[i] + 2
        /\ n < 128 => f[i] <= g[i] + 2
    BY <2>1, <2>2
  <2> QED BY <2>3 DEF n
<1>5. f \in [1..l -> Nat] /\ g \in [1..l -> Nat]
  BY <1>1, <1>4
<1>6. /\ EncodedSize = 1 + 10 + vl + SumOf(f) + vt
      /\ BufferSize = SumOf(g) + 10 + EXTRA /\ OwnBytes = 2 * l + 1 + vl + vt
  BY <1>2 DEF EncodedSize, BufferSize, OwnBytes, NAME
<1> HIDE DEF f, g, l, vl, vt
<1>7. /\ SumOf(f) \in Nat /\ SumOf(g) \in Nat
      /\ SumOf(f) >= SumOf(g) + (l + l)
      /\ (\A i \in Jobs : NameLen[NameOf(i)] < 128) => SumOf(f) <= SumOf(g) + (l + l)
  <2> DEFINE x == SumOf(f)
             y == SumOf(g)
  <2>1. /\ x \in Nat /\ y \in Nat
        /\ (\A i \in 1..l : f[i] <= g[i] + 2) => x <= y + (l + l)
        /\ (\A i \in 1..l : f[i] >= g[i] + 2) => x >= y + (l + l)
    BY <1>1, <1>5, SumsCompared
  <2> HIDE DEF x, y
  <2>2. \A i \in 1..l : f[i] >= g[i] + 2
    BY <1>1, <1>4
  <2>3. (\A i \in Jobs : NameLen[NameOf(i)] < 128) => \A i \in 1..l : f[i] <= g[i] + 2
    BY <1>1, <1>4
  <2>4. /\ x \in Nat /\ y \in Nat /\ x >= y + (l + l)
        /\ (\A i \in Jobs : NameLen[NameOf(i)] < 128) => x <= y + (l + l)
    BY <2>1, <2>2, <2>3
  <2> QED BY <2>4 DEF x, y
<1> DEFINE x == SumOf(f)
           y == SumOf(g)
           Short == \A i \in Jobs : NameLen[NameOf(i)] < 128
<1>8. /\ x \in Nat /\ y \in Nat /\ l \in Nat /\ EXTRA \in Nat /\ vl \in 1..10 /\ vt \in 1..10
      /\ x >= y + (l + l) /\ (Short => x <= y + (l + l))
      /\ EncodedSize = 1 + 10 + vl + x + vt
      /\ BufferSize = y + 10 + EXTRA /\ OwnBytes = 2 * l + 1 + vl + vt
  BY <1>1, <1>2, <1>6, <1>7
<1> HIDE DEF x, y, Short
<1>9. /\ BufferSize \in Nat /\ EncodedSize \in Nat /\ OwnBytes \in Nat
      /\ EncodedSize + EXTRA >= BufferSize + OwnBytes
      /\ Short => EncodedSize + EXTRA = BufferSize + OwnBytes
  BY <1>8
<1> QED BY <1>9 DEF Short

\* How many files can be served is decided by postcard's own bytes against
\* the buffer's extra ones: files with names below 128 bytes are encoded, in
\* any number whose own bytes fit, and a number whose own bytes do not fit is
\* refused, whatever the names (provider.rs, create_collection: the buffer
\* handed to postcard).
THEOREM CollectionFilesThatFit == Spec => []FilesThatFit
<1>1. JobsInv /\ CreatedInv => FilesThatFit
  <2> SUFFICES ASSUME JobsInv, CreatedInv PROVE FilesThatFit
    OBVIOUS
  <2>1. /\ BufferSize \in Nat /\ EncodedSize \in Nat /\ OwnBytes \in Nat /\ EXTRA \in Nat
        /\ EncodedSize + EXTRA >= BufferSize + OwnBytes
        /\ (\A i \in Jobs : NameLen[NameOf(i)] < 128) => EncodedSize + EXTRA = BufferSize + OwnBytes
    BY EncodingExceeds, SizesAreNat
  <2>2. ASSUME OwnBytes <= EXTRA, \A i \in Jobs : job[i] = "done" /\ NameLen[NameOf(i)] < 128
        PROVE  phase # "failed"
    <3>1. ~(EncodedSize > BufferSize)
      BY <2>1, <2>2
    <3> QED BY <2>2, <3>1 DEF CreatedInv, AllDone
  <2>3. ASSUME phase = "created" PROVE OwnBytes <= EXTRA
    BY <2>1, <2>3 DEF CreatedInv
  <2> QED BY <2>2, <2>3 DEF FilesThatFit
<1> QED BY <1>1, JobsInvariant, CreatedInvariant, PTL

\* With the 1024 extra bytes of the code: up to 505 files with names below
\* 128 bytes are always encoded, and more than 510 files never are, whatever
\* they are called (provider.rs:756).
THEOREM CollectionLimits ==
    ASSUME EXTRA = 1024
    PROVE  Spec => [](/\ (/\ Len(sources) <= 505
                          /\ \A i \in Jobs : job[i] = "done" /\ NameLen[NameOf(i)] < 128)
                           => phase # "failed"
                      /\ phase = "created" => Len(sources) <= 510)
<1> DEFINE Limits == /\ (/\ Len(sources) <= 505
                         /\ \A i \in Jobs : job[i] = "done" /\ NameLen[NameOf(i)] < 128)
                          => phase # "failed"
                     /\ phase = "created" => Len(sources) <= 510
<1>1. JobsInv /\ FilesThatFit => Limits
  <2> SUFFICES ASSUME JobsInv, FilesThatFit PROVE Limits
    OBVIOUS
  <2> DEFINE l == Len(sources)
             vl == VarintLen(Len(sources))
             vt == VarintLen(TotalSize)
  <2>1. /\ l \in Nat /\ vl \in 1..10 /\ vt \in 1..10
        /\ l < 16384 => vl <= 2
        /\ OwnBytes = 2 * l + 1 + vl + vt
    BY SizesAreNat, VarintLenIs DEF OwnBytes
  <2> HIDE DEF l, vl, vt
  <2>2. l <= 505 => OwnBytes <= EXTRA
    BY <2>1
  <2>3. OwnBytes <= EXTRA => l <= 510
    BY <2>1
  <2> QED BY <2>2, <2>3 DEF FilesThatFit, l
<1> HIDE DEF Limits
<1>2. Spec => []Limits
  BY <1>1, JobsInvariant, CollectionFilesThatFit, PTL
<1> QED BY <1>2 DEF Limits
=============================================================================
