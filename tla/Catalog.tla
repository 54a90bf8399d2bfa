------------------------------- MODULE Catalog -------------------------------
(***************************************************************************)
(* The catalog that sonarium-worker writes and the DLNA and HLS servers    *)
(* read: the tables of the SQLite and Postgres repositories and the        *)
(* counter renderers know as SystemUpdateID.  Writer and readers are       *)
(* different processes, so each operator here is one SQL statement.        *)
(*                                                                         *)
(* A table is a function from the ids of its rows to their contents.  Ids  *)
(* are the scanner's slugs: an album's id extends its artist's, a track's  *)
(* extends its album's and a rendition's its track's.  A file stands for   *)
(* its path, as the numbers of its slugs and the directory it lies in; two *)
(* directories whose names have one slug share ids.                        *)
(***************************************************************************)
EXTENDS Integers, FiniteSets, SequencesExt

CONSTANTS
  Files,  \* audio files that may exist under the media root: records
          \* [artist, album, track, ext : Nat, dir : any value]
  None

ASSUME FilesAssumption ==
  /\ IsFiniteSet(Files)
  /\ Files \subseteq [artist : Nat, album : Nat, track : Nat, ext : Nat, dir : {f.dir : f \in Files}]

VARIABLES
  artists,        \* id -> display name
  albums,         \* id -> [title, cover]: cover is an asset's id or None
  tracks,         \* id -> title
  renditions,     \* id -> the file and the metadata it was stored with
  assets,         \* id -> directory of the cover image
  systemUpdateId  \* system_state.update_counter

rows == <<artists, albums, tracks, renditions, assets>>

ArtistId(f)    == <<f.artist>>
AlbumId(f)     == <<f.artist, f.album>>
TrackId(f)     == <<f.artist, f.album, f.track>>
RenditionId(f) == <<f.artist, f.album, f.track, f.ext>>

ArtistOf(id) == SubSeq(id, 1, 1)
AlbumOf(id)  == SubSeq(id, 1, 2)
TrackOf(id)  == SubSeq(id, 1, 3)

Empty == [x \in {} |-> None]

CatalogInit ==
  /\ artists = Empty
  /\ albums = Empty
  /\ tracks = Empty
  /\ renditions = Empty
  /\ assets = Empty
  /\ systemUpdateId = 1

InsertOnly(table, id, row) == \* mutant: ON CONFLICT (id) DO NOTHING
  [x \in DOMAIN table \cup {id} |-> IF x \in DOMAIN table THEN table[x] ELSE row]

\* INSERT ... ON CONFLICT (id) DO UPDATE.
Upsert(table, id, row) ==
  [x \in DOMAIN table \cup {id} |-> IF x = id THEN row ELSE table[x]]

\* The rows a listing counts and pages through.
AlbumsOfArtist(a) == {x \in DOMAIN albums : ArtistOf(x) = a}
TracksOfAlbum(a)  == {t \in DOMAIN tracks : AlbumOf(t) = a}
RenditionsOf(t)   == {<<r, renditions[r]>> : r \in {x \in DOMAIN renditions : TrackOf(x) = t}}

IdBefore(a, b) ==
  \/ IsStrictPrefix(a, b)
  \/ \E i \in (DOMAIN a) \cap (DOMAIN b) :
       a[i] < b[i] /\ \A j \in 1..(i - 1) : a[j] = b[j]

\* The row of an id in ORDER BY id.
RowNumber(id, ids) == Cardinality({x \in ids : x = id \/ IdBefore(x, id)})

\* ORDER BY id.
Sorted(ids) == [n \in 1..Cardinality(ids) |-> CHOOSE id \in ids : RowNumber(id, ids) = n]

\* ORDER BY id LIMIT count OFFSET start.
PageOf(ids, start, count) ==
  LET sorted == Sorted(ids) IN
  SubSeq(sorted, start + 1,
         IF start + count < Len(sorted) THEN start + count ELSE Len(sorted))

-----------------------------------------------------------------------------
\* Whatever failed, crashed or was skipped, no stored row points at a row that
\* is not there.  The schema enforces this for artists, albums and tracks with
\* REFERENCES; cover_art_asset_id has no such clause, so for covers only the
\* order in which the scanner writes keeps art URLs from dangling.
RowsLinked ==
  /\ \A a \in DOMAIN albums : /\ ArtistOf(a) \in DOMAIN artists
                              /\ albums[a].cover \in {None} \cup DOMAIN assets
  /\ \A t \in DOMAIN tracks : AlbumOf(t) \in DOMAIN albums
  /\ \A r \in DOMAIN renditions : TrackOf(r) \in DOMAIN tracks
=============================================================================
