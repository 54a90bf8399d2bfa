--------------------------- MODULE TranscodeProofs ---------------------------
(***************************************************************************)
(* Proofs about Transcode: what a run leaves on the disk and in the        *)
(* catalog, for any library, any bitrates, any number of runs and any      *)
(* failures.                                                               *)
(***************************************************************************)
EXTENDS Transcode, TLAPS

Contents == [kbps : Nat, whole : BOOLEAN]

Jobs == [at : {"ffmpeg", "encoding", "stat", "upsert", "bump", "done"},
         track : {None} \cup DOMAIN tracks, source : {None} \cup Paths, output : {None} \cup Paths,
         kbps : Nat, file : {None} \cup Contents, exit : {None, 0}]

TypeInv ==
  /\ disk \in [Paths -> {None} \cup Contents]
  /\ \A r \in DOMAIN renditions : renditions[r].path \in Paths
  /\ job \in Jobs

(* The two files of a running command are two. *)
FilesApart ==
  job.at # "done" => /\ job.source \in Paths /\ job.output \in Paths
                     /\ job.source # job.output
                     /\ job.exit = None

(* What the command has reached, step by step, up to its success. *)
Reached ==
  LET file == Encoded(job.kbps, TRUE) IN
  /\ job.at \in {"stat", "upsert", "bump"} \/ job.exit = 0 => disk[job.output] = file
  /\ job.at \in {"upsert", "bump"} => job.file = file
  /\ job.at = "bump" \/ job.exit = 0 =>
       /\ job.output \in Paths
       /\ OutputId(job) \in DOMAIN renditions
       /\ renditions[OutputId(job)] = Row(job.output, file)

JobInv == TypeInv /\ FilesApart /\ Reached /\ RowsHaveFiles

allVars == <<library, renditions, systemUpdateId, jobVars>>

-----------------------------------------------------------------------------
LEMMA OutputIsPath ==
    ASSUME NEW p \in Paths, NEW target \in Targets
    PROVE  OutputPath(p, target) \in Paths
<1>1. CASE p \in Files
  BY <1>1 DEF Paths, OutputPath
<1>2. ASSUME NEW f \in Files, NEW e \in Targets, p = [f EXCEPT !.ext = e]
      PROVE  OutputPath(p, target) \in Paths
  <2>1. f \in [artist : Nat, album : Nat, track : Nat, ext : Nat, dir : {g.dir : g \in Files}]
    BY FilesAssumption
  <2>2. [p EXCEPT !.ext = target] = [f EXCEPT !.ext = target]
    BY <1>2, <2>1
  <2>. QED BY <2>2 DEF Paths, OutputPath
<1>. QED BY <1>1, <1>2 DEF Paths

LEMMA EncodedType == ASSUME NEW k \in Nat, NEW w \in BOOLEAN
                     PROVE  Encoded(k, w) \in Contents /\ Encoded(k, w) # None
BY NoneAssumption DEF Encoded, Contents

LEMMA NoJobType == NoJob \in Jobs /\ NoJob.at = "done" /\ NoJob.exit # 0
BY NoneAssumption DEF NoJob, Jobs

LEMMA JobInit == TranscodeInit => JobInv
<1> SUFFICES ASSUME TranscodeInit PROVE JobInv
  OBVIOUS
<1>1. Original \in Contents /\ Original # None
  <2>1. Original \in Contents
    BY DEF Original, Contents
  <2>2. None \notin Contents
    BY NoneAssumption DEF Contents
  <2>. QED BY <2>1, <2>2
<1>2. disk \in [Paths -> {None} \cup Contents] /\ \A f \in Files : disk[f] # None
  <2>1. Files \subseteq Paths
    BY DEF Paths
  <2>2. disk = [p \in Paths |-> IF p \in Files THEN Original ELSE None]
    BY DEF TranscodeInit
  <2>. QED BY <1>1, <2>1, <2>2
<1>3. \A r \in DOMAIN renditions : renditions[r].path \in Files
  <2> SUFFICES ASSUME NEW r \in DOMAIN renditions PROVE renditions[r].path \in Files
    OBVIOUS
  <2> DEFINE f == CHOOSE g \in Files : RenditionId(g) = r
  <2>1. f \in Files
    BY DEF TranscodeInit
  <2>2. renditions[r] = Row(f, Original)
    BY DEF TranscodeInit
  <2>. QED BY <2>1, <2>2 DEF Row
<1>4. job = NoJob
  BY DEF TranscodeInit
<1>5. TypeInv
  BY <1>2, <1>3, <1>4, NoJobType DEF TypeInv, Paths
<1>6. FilesApart /\ Reached
  BY <1>4, NoJobType, NoneAssumption DEF FilesApart, Reached, NoJob
<1>7. RowsHaveFiles
  BY <1>2, <1>3 DEF RowsHaveFiles
<1>. QED BY <1>5, <1>6, <1>7 DEF JobInv

-----------------------------------------------------------------------------
(* Steps that end a run without success leave everything else alone, or      *)
(* nothing at all.                                                           *)
LEMMA NoJobKeeps ==
    ASSUME JobInv, job' = NoJob, UNCHANGED <<disk, renditions, library>>
    PROVE  JobInv'
<1>1. TypeInv'
  BY NoJobType DEF JobInv, TypeInv, Jobs, library
<1>2. FilesApart' /\ Reached'
  BY NoJobType, NoneAssumption DEF FilesApart, Reached, NoJob
<1>3. RowsHaveFiles'
  BY DEF JobInv, RowsHaveFiles
<1>. QED BY <1>1, <1>2, <1>3 DEF JobInv

LEMMA StartStep ==
    ASSUME JobInv, NEW t \in DOMAIN tracks, NEW target \in Targets, NEW kbps \in Bitrates,
           Start(t, target, kbps), UNCHANGED library
    PROVE  JobInv'
<1>1. PICK r \in DOMAIN renditions :
        LET new == Job(t, renditions[r].path, target, kbps) IN
        job' = IF new.source = new.output THEN NoJob ELSE new
  BY DEF Start
<1> DEFINE new == Job(t, renditions[r].path, target, kbps)
<1>2. UNCHANGED <<disk, renditions, library>>
  BY DEF Start
<1>3. CASE new.source = new.output
  BY <1>1, <1>2, <1>3, NoJobKeeps
<1>4. CASE new.source # new.output
  <2>1. job' = new
    BY <1>1, <1>4
  <2>2. renditions[r].path \in Paths
    BY DEF JobInv, TypeInv
  <2>3. OutputPath(renditions[r].path, target) \in Paths
    BY <2>2, OutputIsPath
  <2>4. new \in Jobs
    BY <2>2, <2>3, BitratesAssumption DEF Job, Jobs
  <2>5. TypeInv'
    BY <1>2, <2>1, <2>4 DEF JobInv, TypeInv, Jobs, library
  <2>6. FilesApart'
    BY <1>4, <2>1, <2>2, <2>3 DEF FilesApart, Job
  <2>7. Reached'
    BY <2>1, NoneAssumption DEF Reached, Job
  <2>. QED BY <1>2, <2>5, <2>6, <2>7 DEF JobInv, RowsHaveFiles
<1>. QED BY <1>3, <1>4

(* ffmpeg writes the output: it is not the source, and no file goes away. *)
LEMMA Writes ==
    ASSUME JobInv, job.at # "done", NEW w \in BOOLEAN,
           disk' = [disk EXCEPT ![job.output] = Encoded(job.kbps, w)],
           UNCHANGED <<renditions, library>>
    PROVE  /\ disk' \in [Paths -> {None} \cup Contents]
           /\ disk'[job.output] = Encoded(job.kbps, w)
           /\ disk'[job.source] = disk[job.source]
           /\ RowsHaveFiles'
<1>1. job.kbps \in Nat /\ job.output \in Paths /\ job.source \in Paths /\ job.source # job.output
  BY DEF JobInv, TypeInv, FilesApart, Jobs
<1>2. Encoded(job.kbps, w) \in Contents /\ Encoded(job.kbps, w) # None
  BY <1>1, EncodedType
<1>. QED BY <1>1, <1>2 DEF JobInv, TypeInv, RowsHaveFiles

(* The record of the run, moved on. *)
LEMMA MovesOn ==
    ASSUME JobInv, NEW at \in {"encoding", "stat", "upsert", "bump"}, job.at # "done",
           job' = [job EXCEPT !.at = at], UNCHANGED library
    PROVE  /\ job' \in Jobs' /\ FilesApart'
           /\ job'.at = at /\ OutputId(job') = OutputId(job)
           /\ \A field \in {"output", "kbps", "file", "exit"} : job'[field] = job[field]
<1>1. job \in Jobs
  BY DEF JobInv, TypeInv
<1>2. job' \in Jobs'
  BY <1>1 DEF Jobs, library
<1>3. \A field \in {"source", "output", "kbps", "file", "exit"} : job'[field] = job[field]
  BY <1>1 DEF Jobs
<1>4. job'.at = at
  BY <1>1 DEF Jobs
<1>. QED BY <1>2, <1>3, <1>4 DEF JobInv, FilesApart, OutputId

-----------------------------------------------------------------------------
LEMMA JobStep == JobInv /\ [TranscodeNext]_allVars => JobInv'
<1> SUFFICES ASSUME JobInv, [TranscodeNext]_allVars PROVE JobInv'
  OBVIOUS
<1>1. ASSUME NEW t \in DOMAIN tracks, NEW target \in Targets, NEW kbps \in Bitrates,
             Start(t, target, kbps), UNCHANGED library
      PROVE  JobInv'
  BY <1>1, StartStep
<1>2. ASSUME FfmpegWrites, UNCHANGED library PROVE JobInv'
  <2>1. /\ job.at = "ffmpeg" /\ job' = [job EXCEPT !.at = "encoding"]
        /\ disk' = [disk EXCEPT ![job.output] = Encoded(job.kbps, FALSE)]
        /\ UNCHANGED <<renditions, library>>
    BY <1>2 DEF FfmpegWrites, Step
  <2>2. disk' \in [Paths -> {None} \cup Contents] /\ RowsHaveFiles'
    BY <2>1, Writes
  <2>3. job' \in Jobs' /\ FilesApart' /\ job'.at = "encoding" /\ job'.exit = job.exit
    BY <2>1, MovesOn
  <2>4. job.exit # 0
    BY <2>1, NoneAssumption DEF JobInv, FilesApart
  <2>. QED BY <2>1, <2>2, <2>3, <2>4 DEF JobInv, TypeInv, Reached
<1>3. ASSUME FfmpegEnds, UNCHANGED library PROVE JobInv'
  <2>1. /\ job.at = "encoding" /\ job' = [job EXCEPT !.at = "stat"]
        /\ disk' = [disk EXCEPT ![job.output] = Encoded(job.kbps, TRUE)]
        /\ UNCHANGED <<renditions, library>>
    BY <1>3 DEF FfmpegEnds, Step
  <2>2. /\ disk' \in [Paths -> {None} \cup Contents] /\ RowsHaveFiles'
        /\ disk'[job.output] = Encoded(job.kbps, TRUE)
    BY <2>1, Writes
  <2>3. /\ job' \in Jobs' /\ FilesApart' /\ job'.at = "stat"
        /\ job'.exit = job.exit /\ job'.output = job.output /\ job'.kbps = job.kbps
    BY <2>1, MovesOn
  <2>4. job.exit # 0
    BY <2>1, NoneAssumption DEF JobInv, FilesApart
  <2>. QED BY <2>1, <2>2, <2>3, <2>4 DEF JobInv, TypeInv, Reached
<1>4. ASSUME FfmpegFails \/ StatementFails \/ Killed, UNCHANGED library PROVE JobInv'
  BY <1>4, NoJobKeeps DEF FfmpegFails, StatementFails, Killed, Fail
<1>5. ASSUME StatOutput, UNCHANGED library PROVE JobInv'
  <2>1. /\ job.at = "stat" /\ job' = [job EXCEPT !.at = "upsert", !.file = disk[job.output]]
        /\ UNCHANGED <<disk, renditions, library>>
    BY <1>5 DEF StatOutput
  <2>2. job \in Jobs /\ job.exit # 0 /\ disk[job.output] = Encoded(job.kbps, TRUE)
    BY <2>1, NoneAssumption DEF JobInv, TypeInv, FilesApart, Reached
  <2>3. Encoded(job.kbps, TRUE) \in Contents
    BY <2>2, EncodedType DEF Jobs
  <2>4. job' \in Jobs'
    BY <2>1, <2>2, <2>3 DEF Jobs, library
  <2>5. /\ job'.at = "upsert" /\ job'.file = Encoded(job.kbps, TRUE)
        /\ job'.source = job.source /\ job'.output = job.output
        /\ job'.kbps = job.kbps /\ job'.exit = job.exit
    BY <2>1, <2>2 DEF Jobs
  <2>6. FilesApart'
    BY <2>1, <2>5 DEF JobInv, FilesApart
  <2>7. Reached'
    BY <2>1, <2>2, <2>5 DEF Reached
  <2>. QED BY <2>1, <2>4, <2>6, <2>7 DEF JobInv, TypeInv, RowsHaveFiles
<1>6. ASSUME UpsertRendition, UNCHANGED library PROVE JobInv'
  <2> DEFINE row == Row(job.output, job.file)
  <2>1. /\ job.at = "upsert" /\ job' = [job EXCEPT !.at = "bump"]
        /\ renditions' = Upsert(renditions, OutputId(job), row)
        /\ UNCHANGED <<disk, library>>
    BY <1>6 DEF UpsertRendition, Step
  <2>2. /\ job' \in Jobs' /\ FilesApart' /\ job'.at = "bump" /\ OutputId(job') = OutputId(job)
        /\ job'.output = job.output /\ job'.kbps = job.kbps
        /\ job'.file = job.file /\ job'.exit = job.exit
    BY <2>1, MovesOn
  <2>3. /\ job.output \in Paths /\ job.exit # 0 /\ job.kbps \in Nat
        /\ job.file = Encoded(job.kbps, TRUE) /\ disk[job.output] = Encoded(job.kbps, TRUE)
    BY <2>1, NoneAssumption DEF JobInv, TypeInv, FilesApart, Reached, Jobs
  <2>4. row.path = job.output
    BY DEF Row
  <2>5. /\ DOMAIN renditions' = DOMAIN renditions \cup {OutputId(job)}
        /\ renditions'[OutputId(job)] = row
        /\ \A r \in DOMAIN renditions \ {OutputId(job)} : renditions'[r] = renditions[r]
    BY <2>1 DEF Upsert
  <2>6. disk[job.output] # None
    BY <2>3, EncodedType
  <2>7. TypeInv'
    BY <2>1, <2>2, <2>3, <2>4, <2>5 DEF JobInv, TypeInv
  <2>8. RowsHaveFiles'
    BY <2>1, <2>4, <2>5, <2>6 DEF JobInv, RowsHaveFiles
  <2>9. Reached'
    BY <2>1, <2>2, <2>3, <2>5 DEF Reached
  <2>. QED BY <2>2, <2>7, <2>8, <2>9 DEF JobInv
<1>7. ASSUME BumpSystemUpdateId, UNCHANGED library PROVE JobInv'
  <2>1. /\ job.at = "bump" /\ job' = [job EXCEPT !.at = "done", !.exit = 0]
        /\ UNCHANGED <<disk, renditions, library>>
    BY <1>7 DEF BumpSystemUpdateId, Succeed
  <2>2. job \in Jobs
    BY DEF JobInv, TypeInv
  <2>3. job' \in Jobs'
    BY <2>1, <2>2 DEF Jobs, library
  <2>4. job'.at = "done" /\ job'.output = job.output /\ job'.kbps = job.kbps
    BY <2>1, <2>2 DEF Jobs
  <2>5. FilesApart'
    BY <2>4 DEF FilesApart
  <2>6. OutputId(job') = OutputId(job)
    BY <2>4 DEF OutputId
  <2>7. Reached'
    BY <2>1, <2>4, <2>6 DEF JobInv, Reached
  <2>. QED BY <2>1, <2>3, <2>5, <2>7 DEF JobInv, TypeInv, RowsHaveFiles
<1>8. ASSUME UNCHANGED allVars PROVE JobInv'
  BY <1>8 DEF allVars, library, jobVars, JobInv, TypeInv, Jobs, FilesApart, Reached, RowsHaveFiles,
              OutputId
<1>. QED BY <1>1, <1>2, <1>3, <1>4, <1>5, <1>6, <1>7, <1>8 DEF TranscodeNext

LEMMA JobAlways == TranscodeSpec => []JobInv
BY JobInit, JobStep, PTL DEF TranscodeSpec, allVars

-----------------------------------------------------------------------------
(* A command that reports success has stored a row that describes its       *)
(* output, whatever failed before and whatever it wrote over.               *)
THEOREM SuccessIsAlwaysStored == TranscodeSpec => []SuccessIsStored
<1>1. JobInv => SuccessIsStored
  BY DEF JobInv, Reached, SuccessIsStored
<1>. QED BY <1>1, JobAlways, PTL

(* No row names a file that is not there, in any state of any run. *)
THEOREM RowsAlwaysHaveFiles == TranscodeSpec => []RowsHaveFiles
<1>1. JobInv => RowsHaveFiles
  BY DEF JobInv
<1>. QED BY <1>1, JobAlways, PTL

(* A run never writes to the file it reads, whether it succeeds, fails or is *)
(* killed.                                                                   *)
THEOREM SourceIsKept == TranscodeSpec => SourceKept
<1>1. ASSUME JobInv, [TranscodeNext]_allVars, job.at # "done"
      PROVE  disk'[job.source] = disk[job.source]
  <2>1. CASE FfmpegWrites /\ UNCHANGED library
    BY <1>1, <2>1, Writes DEF FfmpegWrites
  <2>2. CASE FfmpegEnds /\ UNCHANGED library
    BY <1>1, <2>2, Writes DEF FfmpegEnds
  <2>3. CASE UNCHANGED disk
    BY <2>3
  <2>. QED BY <1>1, <2>1, <2>2, <2>3
           DEF TranscodeNext, Start, FfmpegFails, StatOutput, UpsertRendition, BumpSystemUpdateId,
               StatementFails, Killed, allVars, jobVars
<1>2. JobInv /\ [TranscodeNext]_allVars =>
        [job.at # "done" => disk'[job.source] = disk[job.source]]_<<disk, job>>
  BY <1>1
<1>. QED BY <1>2, JobAlways, PTL DEF TranscodeSpec, SourceKept, allVars
=============================================================================
