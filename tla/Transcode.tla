------------------------------ MODULE Transcode ------------------------------
(***************************************************************************)
(* sonariumctl transcode: one run after the other, each of which has       *)
(* ffmpeg write a lossy file beside the source, stores a rendition row for *)
(* it and bumps the system update id.  Any step may fail, and the process  *)
(* may be killed between any two.  What is on the disk stays there.        *)
(*                                                                         *)
(* A path is a record as in Files; two paths that differ in ext only are   *)
(* one stem.  The files of a track lie beside each other under one stem.   *)
(***************************************************************************)
EXTENDS Catalog

CONSTANTS
  Targets,  \* extensions of --codec: M4a, Mp3
  Bitrates, \* of --bitrate
  Covered,  \* albums with a cover
  MaxRuns   \* bound: runs of the command

ASSUME BitratesAssumption == Bitrates \subseteq Nat
ASSUME NoneAssumption == None # 0 /\ None \notin [kbps : Nat, whole : BOOLEAN]
ASSUME MaxRunsAssumption == MaxRuns \in Nat

VARIABLES
  disk, \* path -> contents, None where there is no file
  job,  \* the running command, or the last one
  runs

jobVars == <<disk, job, runs>>

\* Extensions, in the order of their names.
Flac == 1
M4a  == 2
Mp3  == 3
Wav  == 4

\* The scanner takes files of these only; ffmpeg is asked for two of them.
ASSUME FormatsAssumption ==
  /\ Targets \subseteq {M4a, Mp3}
  /\ \A f \in Files : f.ext \in {Flac, M4a, Mp3, Wav}

CodecOf(ext) ==
  CASE ext = Flac -> "flac" [] ext = M4a -> "aac" [] ext = Mp3 -> "mp3" [] ext = Wav -> "wav"

Paths == Files \cup {[f EXCEPT !.ext = e] : f \in Files, e \in Targets}

\* A file as it was imported; one that ffmpeg writes, whole or so far; a row.
Original        == [kbps |-> 0, whole |-> TRUE]
Encoded(k, w)   == [kbps |-> k, whole |-> w]
Row(path, file) == [path |-> path, codec |-> CodecOf(path.ext), file |-> file]

OutputPath(path, target) == [path EXCEPT !.ext = target]

\* track_id:ext:kbps.
OutputId(j) == TrackId(j.output) \o <<j.output.ext, j.kbps>>

RowsOf(t) == {r \in DOMAIN renditions : TrackOf(r) = t}

\* list_renditions_for_track orders by id.
IsFirstRow(r, t) == r \in RowsOf(t) /\ \A x \in RowsOf(t) \ {r} : IdBefore(r, x)

NoJob == [at |-> "done", track |-> None, source |-> None, output |-> None,
          kbps |-> 0, file |-> None, exit |-> None]

Job(t, source, target, kbps) ==
  [at |-> "ffmpeg", track |-> t, source |-> source, output |-> OutputPath(source, target),
   kbps |-> kbps, file |-> None, exit |-> None]

\* The library as a clean pass of the scanner leaves it.
TranscodeInit ==
  /\ artists = [a \in {ArtistId(f) : f \in Files} |-> None]
  /\ albums = [a \in {AlbumId(f) : f \in Files} |->
                 [title |-> None, cover |-> IF a \in Covered THEN a ELSE None]]
  /\ tracks = [t \in {TrackId(f) : f \in Files} |-> None]
  /\ renditions = [r \in {RenditionId(f) : f \in Files} |->
                     LET f == CHOOSE f \in Files : RenditionId(f) = r IN Row(f, Original)]
  /\ assets = [a \in Covered |-> (CHOOSE f \in Files : AlbumId(f) = a).dir]
  /\ systemUpdateId = 1
  /\ disk = [p \in Paths |-> IF p \in Files THEN Original ELSE None]
  /\ job = NoJob
  /\ runs = 0

library == <<artists, albums, tracks, assets>>

-----------------------------------------------------------------------------

Step(from, to) ==
  /\ job.at = from
  /\ job' = [job EXCEPT !.at = to]
  /\ UNCHANGED runs

Succeed ==
  /\ job.at = "bump"
  /\ job' = [job EXCEPT !.at = "done", !.exit = 0]
  /\ UNCHANGED runs

\* The command ends before it is done, in a message or a signal.
Fail ==
  /\ job' = NoJob
  /\ UNCHANGED runs

StartInPlace(t, target, kbps) == \* mutant: an output that is its input is accepted
  /\ job.at = "done" /\ runs < MaxRuns
  /\ runs' = runs + 1
  /\ \E r \in DOMAIN renditions :
       /\ IsFirstRow(r, t)
       /\ job' = Job(t, renditions[r].path, target, kbps)
  /\ UNCHANGED <<disk, renditions, systemUpdateId>>

\* cmd_transcode up to run_ffmpeg.  The track has to exist and to have a
\* rendition (a row can only belong to a track that exists), and the output may not be the input: else nothing happens.
Start(t, target, kbps) ==
  /\ job.at = "done" /\ runs < MaxRuns
  /\ runs' = runs + 1
  /\ \E r \in DOMAIN renditions :
       /\ IsFirstRow(r, t)
       /\ LET new == Job(t, renditions[r].path, target, kbps) IN
          job' = IF new.source = new.output THEN NoJob ELSE new
  /\ UNCHANGED <<disk, renditions, systemUpdateId>>

\* ffmpeg -y: the output is truncated and grows.
FfmpegWrites ==
  /\ Step("ffmpeg", "encoding")
  /\ disk' = [disk EXCEPT ![job.output] = Encoded(job.kbps, FALSE)]
  /\ UNCHANGED <<renditions, systemUpdateId>>

FfmpegEnds ==
  /\ Step("encoding", "stat")
  /\ disk' = [disk EXCEPT ![job.output] = Encoded(job.kbps, TRUE)]
  /\ UNCHANGED <<renditions, systemUpdateId>>

FfmpegIgnored == \* mutant: the exit code is not looked at
  /\ job.at = "encoding"
  /\ job' = [job EXCEPT !.at = "stat"]
  /\ UNCHANGED <<runs, disk, renditions, systemUpdateId>>

\* No ffmpeg, no pipe, no process, an unreadable input, a full disk: exit_code
\* is not 0 or there is no result; what is written stays.
FfmpegFails ==
  /\ job.at \in {"ffmpeg", "encoding"}
  /\ Fail
  /\ UNCHANGED <<disk, renditions, systemUpdateId>>

StatOutput ==
  /\ job.at = "stat"
  /\ job' = [job EXCEPT !.at = "upsert", !.file = disk[job.output]]
  /\ UNCHANGED <<runs, disk, renditions, systemUpdateId>>

UpsertRendition ==
  /\ Step("upsert", "bump")
  /\ renditions' = Upsert(renditions, OutputId(job), Row(job.output, job.file))
  /\ UNCHANGED <<disk, systemUpdateId>>

UpsertThenDone == \* mutant: the update id is not bumped
  /\ Succeed
  /\ UNCHANGED <<disk, renditions, systemUpdateId>>

BumpSystemUpdateId ==
  /\ Succeed
  /\ systemUpdateId' = systemUpdateId + 1
  /\ UNCHANGED <<disk, renditions>>

\* A statement fails, or the stat.
StatementFails ==
  /\ job.at \in {"stat", "upsert", "bump"}
  /\ Fail
  /\ UNCHANGED <<disk, renditions, systemUpdateId>>

\* The command is interrupted, and ffmpeg with it.
Killed ==
  /\ job.at # "done"
  /\ Fail
  /\ UNCHANGED <<disk, renditions, systemUpdateId>>

TranscodeNext ==
  /\ \/ \E t \in DOMAIN tracks, target \in Targets, kbps \in Bitrates : Start(t, target, kbps)
     \/ FfmpegWrites \/ FfmpegEnds \/ FfmpegFails \/ StatOutput \/ UpsertRendition
     \/ BumpSystemUpdateId \/ StatementFails \/ Killed
  /\ UNCHANGED library

TranscodeSpec ==
  TranscodeInit /\ [][TranscodeNext]_<<library, renditions, systemUpdateId, jobVars>>

-----------------------------------------------------------------------------
\* The imported files stay as they are.  (cli/main.cpp: "refusing to transcode
\* in place".)  They do not: the source is the rendition that comes first by id,
\* which after a run can be the file that run wrote.
OriginalsKept == \A f \in Files : disk[f] = Original

\* What was there when the run began and is read by it is not written by it: a
\* run that fails or is killed leaves its source as it was.
SourceKept ==
  [][job.at # "done" => disk'[job.source] = disk[job.source]]_<<disk, job>>

\* No row names a file that is not there, whatever failed and was killed.
RowsHaveFiles == \A r \in DOMAIN renditions : disk[renditions[r].path] # None

\* A command that reports success has stored a row that describes the file as
\* it is, whole and in the bitrate that was asked for.
SuccessIsStored ==
  job.exit = 0 =>
    /\ OutputId(job) \in DOMAIN renditions
    /\ renditions[OutputId(job)] = Row(job.output, Encoded(job.kbps, TRUE))
    /\ disk[job.output] = Encoded(job.kbps, TRUE)
=============================================================================
