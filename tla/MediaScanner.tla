---------------------------- MODULE MediaScanner ----------------------------
(***************************************************************************)
(* scanner::scan, as sonarium-worker runs it pass after pass over a media  *)
(* root that people edit meanwhile.  A pass walks the tree and, for each   *)
(* audio file, writes the cover, artist, album, track and rendition rows   *)
(* in that order, each as a statement of its own that may fail; a failure  *)
(* is recorded in the report and the walk goes on.  It ends by bumping the *)
(* system update id.  The process may be killed anywhere in between.       *)
(*                                                                         *)
(* A file's metadata (tags, duration, bitrate, size) is a version number;  *)
(* 0 is what is stored when ffprobe cannot read the file.                  *)
(***************************************************************************)
EXTENDS Catalog

CONSTANTS
  Versions,   \* metadata a file can have: numbers from 1, which is what a
              \* file that is there at the start has
  MaxChanges, \* bound: edits of the media tree
  MaxPasses,  \* bound: passes the worker starts
  Faults      \* what may fail: "asset", "artist", "album", "track",
              \* "rendition", "bump", "probe", "root", "walk", "access", "crash"

ASSUME VersionsAssumption == Versions \subseteq Nat \ {0} /\ 1 \in Versions
ASSUME BoundsAssumption   == MaxChanges \in Nat /\ MaxPasses \in Nat

VARIABLES
  library,     \* metadata of each file on disk, 0 where there is no file
  covers,      \* directories that hold a cover image
  pc,          \* where the scanner is: "idle" between passes
  todo,        \* files the directory iterator has yet to yield
  file,        \* the file being imported
  audio,       \* its metadata as read_audio_metadata returned it
  cover,       \* cover_asset_id
  seenArtists,
  seenAlbums,
  seenCovers,
  errors,      \* report.errors is not empty
  report,      \* outcome of the last pass: "none", "ok", "errors", "crashed"
  passes,
  changes,
  excused,     \* history: files edited since the pass began, or which it could
               \* not read; what it stores of them is open
  unannounced  \* history: rows changed since the last successful bump

tree     == <<library, covers, changes>>
seen     == <<seenArtists, seenAlbums, seenCovers>>
import   == <<file, audio, cover>>
outcome  == <<report, passes>>
scanVars == <<tree, pc, todo, import, seen, errors, outcome, excused, unannounced>>

Dirs == {f.dir : f \in Files}

\* The loop's locals end with an iteration, scan's own with the pass.
EndImport == file' = None /\ audio' = 0 /\ cover' = None

EndPass(how) ==
  /\ pc' = "idle"
  /\ report' = how
  /\ todo' = {} /\ EndImport
  /\ seenArtists' = {} /\ seenAlbums' = {} /\ seenCovers' = {}
  /\ errors' = FALSE /\ excused' = {}

ScannerInit ==
  /\ library \in [Files -> {0, 1}]
  /\ covers \in SUBSET Dirs
  /\ pc = "idle"
  /\ todo = {}
  /\ file = None /\ audio = 0 /\ cover = None
  /\ seenArtists = {} /\ seenAlbums = {} /\ seenCovers = {}
  /\ errors = FALSE
  /\ report = "none" /\ passes = 0
  /\ changes = 0
  /\ excused = {}
  /\ unannounced = FALSE

-----------------------------------------------------------------------------
(* The media tree.                                                         *)

\* A file is added, rewritten or removed.  The iterator may or may not yield
\* a file that appears during a pass.
EditFile(f, v) ==
  /\ changes < MaxChanges
  /\ library[f] # v
  /\ library' = [library EXCEPT ![f] = v]
  /\ todo' \in {todo} \cup (IF library[f] = 0 /\ pc # "idle" THEN {todo \cup {f}} ELSE {})
  /\ excused' = IF pc = "idle" THEN {} ELSE excused \cup {f}
  /\ changes' = changes + 1
  /\ UNCHANGED <<covers, pc, import, seen, errors, outcome, unannounced, rows, systemUpdateId>>

\* A cover image is added to or removed from a directory.
EditCover(d) ==
  /\ changes < MaxChanges
  /\ covers' = IF d \in covers THEN covers \ {d} ELSE covers \cup {d}
  /\ excused' = IF pc = "idle" THEN {} ELSE excused \cup {f \in Files : f.dir = d}
  /\ changes' = changes + 1
  /\ UNCHANGED <<library, pc, todo, import, seen, errors, outcome, unannounced, rows, systemUpdateId>>

-----------------------------------------------------------------------------
(* One pass.                                                               *)

\* run_pass: the root exists and the iterator opens.
StartPass ==
  /\ pc = "idle" /\ passes < MaxPasses
  /\ pc' = "walk"
  /\ todo' = {f \in Files : library[f] # 0}
  /\ passes' = passes + 1
  /\ UNCHANGED <<tree, import, seen, errors, report, excused, unannounced, rows, systemUpdateId>>

\* The root is missing, is no directory or cannot be opened: scan returns its
\* error at once, without a bump.
RootUnreadable ==
  /\ pc = "idle" /\ passes < MaxPasses /\ "root" \in Faults
  /\ passes' = passes + 1
  /\ report' = "errors"
  /\ UNCHANGED <<tree, pc, todo, import, seen, errors, excused, unannounced, rows, systemUpdateId>>

\* What is left to write for f, in order.
FirstStep(f) ==
  IF ArtistId(f) \notin seenArtists THEN "artist"
  ELSE IF AlbumId(f) \notin seenAlbums THEN "album" ELSE "track"

\* The iterator yields f: it is a file with an audio extension, its cover (if
\* its album needs one) is settled and ffprobe has been asked.
Import(f, asset) ==
  /\ file' = f
  /\ audio' \in {library[f]} \cup (IF "probe" \in Faults THEN {0} ELSE {})
  /\ cover' = asset
  /\ pc' = FirstStep(f)
  /\ todo' = todo \ {f}
  /\ UNCHANGED <<tree, seenArtists, seenAlbums, outcome, artists,
                 albums, tracks, renditions, systemUpdateId>>

NeedsCover(f) == AlbumId(f) \notin seenAlbums /\ f.dir \in covers

\* The entry went away before it was visited.
Skip(f) ==
  /\ pc = "walk" /\ f \in todo
  /\ library[f] = 0
  /\ todo' = todo \ {f}
  /\ UNCHANGED <<tree, pc, import, seen, errors, outcome, excused, unannounced, rows, systemUpdateId>>

\* is_regular_file or fs::relative fails for a file that is there, or the
\* iterator may not open its directory (skip_permission_denied): the file is
\* passed over, and no error is recorded.
SkipUnreadable(f) ==
  /\ pc = "walk" /\ f \in todo /\ library[f] # 0
  /\ "access" \in Faults
  /\ todo' = todo \ {f}
  /\ excused' = excused \cup {f}
  /\ UNCHANGED <<tree, pc, import, seen, errors, outcome, unannounced, rows, systemUpdateId>>

\* The album has been written in this pass, or its directory has no cover.
VisitWithoutCover(f) ==
  /\ pc = "walk" /\ f \in todo /\ library[f] # 0
  /\ ~ NeedsCover(f)
  /\ Import(f, None)
  /\ UNCHANGED <<seenCovers, errors, excused, unannounced, assets>>

\* find_cover_art cannot look at the cover (exists fails): no cover for it.
CoverUnreadable(f) ==
  /\ pc = "walk" /\ f \in todo /\ library[f] # 0
  /\ "access" \in Faults
  /\ NeedsCover(f)
  /\ Import(f, None)
  /\ excused' = excused \cup {f}
  /\ UNCHANGED <<seenCovers, errors, unannounced, assets>>

\* An earlier file stored the cover, but its album could not be written.
VisitKnownCover(f) ==
  /\ pc = "walk" /\ f \in todo /\ library[f] # 0
  /\ NeedsCover(f) /\ AlbumId(f) \in seenCovers
  /\ Import(f, AlbumId(f))
  /\ UNCHANGED <<seenCovers, errors, excused, unannounced, assets>>

\* upsert_asset succeeds.
VisitNewCover(f) ==
  /\ pc = "walk" /\ f \in todo /\ library[f] # 0
  /\ NeedsCover(f) /\ AlbumId(f) \notin seenCovers
  /\ Import(f, AlbumId(f))
  /\ assets' = Upsert(assets, AlbumId(f), f.dir)
  /\ seenCovers' = seenCovers \cup {AlbumId(f)}
  /\ unannounced' = (unannounced \/ assets' # assets)
  /\ UNCHANGED <<errors, excused>>

\* upsert_asset fails: the file is imported all the same, without a cover.
CoverFails(f) ==
  /\ pc = "walk" /\ f \in todo /\ library[f] # 0
  /\ "asset" \in Faults
  /\ NeedsCover(f) /\ AlbumId(f) \notin seenCovers
  /\ Import(f, None)
  /\ errors' = TRUE
  /\ UNCHANGED <<seenCovers, excused, unannounced, assets>>

UpsertArtist ==
  /\ pc = "artist"
  /\ artists' = Upsert(artists, ArtistId(file), audio)
  /\ seenArtists' = seenArtists \cup {ArtistId(file)}
  /\ pc' = IF AlbumId(file) \in seenAlbums THEN "track" ELSE "album"
  /\ unannounced' = (unannounced \/ artists' # artists)
  /\ UNCHANGED <<tree, todo, import, seenAlbums, seenCovers, errors, outcome,
                 excused, albums, tracks, renditions, assets, systemUpdateId>>

UpsertAlbumKeepingCover == \* mutant: COALESCE(excluded.cover, album.cover)
  /\ pc = "album"
  /\ albums' = Upsert(albums, AlbumId(file),
       [title |-> audio,
        cover |-> IF cover = None /\ AlbumId(file) \in DOMAIN albums
                  THEN albums[AlbumId(file)].cover ELSE cover])
  /\ seenAlbums' = seenAlbums \cup {AlbumId(file)}
  /\ pc' = "track"
  /\ unannounced' = (unannounced \/ albums' # albums)
  /\ UNCHANGED <<tree, todo, import, seenArtists, seenCovers, errors, outcome,
                 excused, artists, tracks, renditions, assets, systemUpdateId>>

UpsertAlbum ==
  /\ pc = "album"
  /\ albums' = Upsert(albums, AlbumId(file), [title |-> audio, cover |-> cover])
  /\ seenAlbums' = seenAlbums \cup {AlbumId(file)}
  /\ pc' = "track"
  /\ unannounced' = (unannounced \/ albums' # albums)
  /\ UNCHANGED <<tree, todo, import, seenArtists, seenCovers, errors, outcome,
                 excused, artists, tracks, renditions, assets, systemUpdateId>>

UpsertTrack ==
  /\ pc = "track"
  /\ tracks' = Upsert(tracks, TrackId(file), audio)
  /\ pc' = "rendition"
  /\ unannounced' = (unannounced \/ tracks' # tracks)
  /\ UNCHANGED <<tree, todo, import, seen, errors, outcome, excused, artists,
                 albums, renditions, assets, systemUpdateId>>

UpsertRendition ==
  /\ pc = "rendition"
  /\ renditions' = Upsert(renditions, RenditionId(file), [file |-> file, audio |-> audio])
  /\ pc' = "walk"
  /\ EndImport
  /\ unannounced' = (unannounced \/ renditions' # renditions)
  /\ UNCHANGED <<tree, todo, seen, errors, outcome, excused, artists,
                 albums, tracks, assets, systemUpdateId>>

UpsertFailsWithoutContinue == \* mutant: the next row is written all the same
  /\ pc \in {"artist", "album", "track", "rendition"}
  /\ pc \in Faults
  /\ pc' = CASE pc = "artist" -> "album" [] pc = "album" -> "track"
              [] pc = "track" -> "rendition" [] OTHER -> "walk"
  /\ IF pc = "rendition" THEN EndImport ELSE UNCHANGED import
  /\ errors' = TRUE
  /\ UNCHANGED <<tree, todo, seen, outcome, excused, unannounced, rows, systemUpdateId>>

\* A row is refused: the error is recorded and the walk goes on to the next
\* file, leaving the rest of this one unwritten.
UpsertFails ==
  /\ pc \in {"artist", "album", "track", "rendition"}
  /\ pc \in Faults
  /\ pc' = "walk"
  /\ EndImport
  /\ errors' = TRUE
  /\ UNCHANGED <<tree, todo, seen, outcome, excused, unannounced, rows, systemUpdateId>>

\* increment(ec) fails (an entry vanished, an I/O error): ec is set and the
\* iterator becomes the end iterator, so the loop is left before ec is read.
WalkFails ==
  /\ pc = "walk" /\ todo # {} /\ "walk" \in Faults
  /\ todo' = {}
  /\ UNCHANGED <<tree, pc, import, seen, errors, outcome, excused, unannounced, rows, systemUpdateId>>

\* The loop ends.
EndWalk ==
  /\ pc = "walk" /\ todo = {}
  /\ pc' = "bump"
  /\ UNCHANGED <<tree, todo, import, seen, errors, outcome, excused, unannounced, rows, systemUpdateId>>

BumpTwice == \* mutant: the statement is sent again after it took effect
  /\ pc = "bump"
  /\ systemUpdateId' = systemUpdateId + 2
  /\ unannounced' = FALSE
  /\ EndPass(IF errors THEN "errors" ELSE "ok")
  /\ UNCHANGED <<tree, passes, rows>>

Bump ==
  /\ pc = "bump"
  /\ systemUpdateId' = systemUpdateId + 1
  /\ unannounced' = FALSE
  /\ EndPass(IF errors THEN "errors" ELSE "ok")
  /\ UNCHANGED <<tree, passes, rows>>

BumpForgotten == \* mutant: the result of the bump is dropped
  /\ pc = "bump" /\ "bump" \in Faults
  /\ EndPass(IF errors THEN "errors" ELSE "ok")
  /\ UNCHANGED <<tree, passes, unannounced, rows, systemUpdateId>>

\* bump_system_update_id fails: that is an error of the report too.
BumpFails ==
  /\ pc = "bump" /\ "bump" \in Faults
  /\ EndPass("errors")
  /\ UNCHANGED <<tree, passes, unannounced, rows, systemUpdateId>>

\* The worker is killed and started again: what a pass keeps in memory is gone.
Crash ==
  /\ pc # "idle" /\ "crash" \in Faults
  /\ EndPass("crashed")
  /\ UNCHANGED <<tree, passes, unannounced, rows, systemUpdateId>>

Scan ==
  \/ StartPass \/ RootUnreadable
  \/ \E f \in Files : \/ Skip(f) \/ SkipUnreadable(f)
                      \/ VisitWithoutCover(f) \/ CoverUnreadable(f) \/ VisitKnownCover(f)
                      \/ VisitNewCover(f) \/ CoverFails(f)
  \/ UpsertArtist \/ UpsertAlbum \/ UpsertTrack \/ UpsertRendition \/ UpsertFails
  \/ WalkFails \/ EndWalk \/ Bump \/ BumpFails \/ Crash

EditTree ==
  \/ \E f \in Files, v \in {0} \cup Versions : EditFile(f, v)
  \/ \E d \in Dirs : EditCover(d)

-----------------------------------------------------------------------------
(* Properties.                                                             *)

\* A row that f is stored in: its own, or that of a file with the same ids.
Stored(f) ==
  /\ RenditionId(f) \in DOMAIN renditions
  /\ LET row == renditions[RenditionId(f)] IN
     row.file = f => row.audio \in {library[f], 0}

\* A pass that reports no error has stored every file that lay in the tree
\* throughout and could be read, with the metadata it has now (or none, if
\* ffprobe failed).  A file whose status, path or directory could not be read
\* is passed over without a word in report.errors: the report promises nothing
\* of it, so neither does this.
CleanPassStoresAll ==
  pc = "bump" /\ ~ errors =>
    \A f \in Files \ excused : library[f] # 0 => Stored(f)

\* A pass that reports no error has settled the cover of an album whose files
\* and covers nobody edited and it could read: the row names the album's asset
\* and the asset is the image in a directory of the album, or it names none and
\* a directory of the album has none, whatever an earlier pass that failed
\* half-way had left.  Where directories of one album differ, the one visited
\* first decides.
CleanPassSettlesCovers ==
  pc = "bump" /\ ~ errors =>
    \A a \in {AlbumId(f) : f \in Files} :
      LET dirs == {f.dir : f \in {g \in Files : AlbumId(g) = a /\ library[g] # 0}} IN
      (dirs # {} /\ \A f \in Files : AlbumId(f) = a => f \notin excused) =>
        \/ albums[a].cover = a /\ assets[a] \in dirs \cap covers
        \/ albums[a].cover = None /\ dirs \ covers # {}

\* Between passes, rows that changed without a bump are owned up to: the last
\* pass reported an error or never came to its end.
UnannouncedIsReported ==
  pc = "idle" /\ unannounced => report \in {"errors", "crashed"}
=============================================================================
