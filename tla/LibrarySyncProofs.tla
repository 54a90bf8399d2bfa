-------------------------- MODULE LibrarySyncProofs --------------------------
(***************************************************************************)
(* Proofs about the worker's passes and the renderers' pages, for every    *)
(* media tree, every number of passes, edits and renderers, and every      *)
(* combination of failing statements.                                      *)
(***************************************************************************)
EXTENDS LibrarySync, CatalogProofs, FiniteSetTheorems, SequenceTheorems, TLAPS

Upserts == {"artist", "album", "track", "rendition"}

-----------------------------------------------------------------------------
(* Types, and what the scanner knows to be stored.                         *)

Places == {"idle", "exists", "id", "count", "select", "detail", "resources"}

\* The worker's part of TypeOK.  A pass bumps the update id at most once.
ScanTypes ==
  /\ library \in [Files -> {0} \cup Versions]
  /\ covers \subseteq Dirs
  /\ DOMAIN artists \subseteq {ArtistId(f) : f \in Files}
  /\ DOMAIN albums \subseteq {AlbumId(f) : f \in Files}
  /\ DOMAIN tracks \subseteq {TrackId(f) : f \in Files}
  /\ DOMAIN renditions \subseteq {RenditionId(f) : f \in Files}
  /\ todo \subseteq Files
  /\ pc \in {"idle", "walk", "bump"} \cup Upserts
  /\ passes \in 0..MaxPasses
  /\ systemUpdateId \in 1..(passes + (IF pc = "idle" THEN 1 ELSE 0))

\* The server's.
BrowseTypes ==
  /\ at \in [Renderers -> Places]
  /\ updateId \in [Renderers -> Nat]
  /\ \A c \in Renderers : updateId[c] <= systemUpdateId

\* The rows that the one written next points at are there; so is every row of
\* the seen sets, and the cover of the import is a stored asset.
Prepared ==
  /\ pc \in Upserts => file \in Files
  /\ pc \in {"album", "track", "rendition"} => ArtistId(file) \in DOMAIN artists
  /\ pc \in {"track", "rendition"} => AlbumId(file) \in DOMAIN albums
  /\ pc = "rendition" => TrackId(file) \in DOMAIN tracks
  /\ cover \in {None} \cup DOMAIN assets
  /\ seenArtists \subseteq DOMAIN artists
  /\ seenAlbums \subseteq DOMAIN albums
  /\ seenCovers \subseteq DOMAIN assets

LinkedInv == ScanTypes /\ BrowseTypes /\ Prepared /\ RowsLinked

LEMMA LinkedInit == Init => LinkedInv
<1> SUFFICES ASSUME Init PROVE LinkedInv
  OBVIOUS
<1> USE DEF Init, CatalogInit, ScannerInit, BrowseInit, Empty
<1>1. ScanTypes
  BY VersionsAssumption, BoundsAssumption DEF ScanTypes
<1>2. BrowseTypes
  BY DEF BrowseTypes, Places
<1>3. Prepared
  BY DEF Prepared, Upserts
<1>4. RowsLinked
  BY DEF RowsLinked
<1> QED BY <1>1, <1>2, <1>3, <1>4 DEF LinkedInv

\* Every step but a renderer's is one of the worker or of the tree's editors.
LEMMA StepCases ==
  ASSUME [Next]_vars
  PROVE  \/ StartPass \/ RootUnreadable
         \/ \E f \in Files : Skip(f)
         \/ \E f \in Files : SkipUnreadable(f)
         \/ \E f \in Files : VisitWithoutCover(f)
         \/ \E f \in Files : CoverUnreadable(f)
         \/ \E f \in Files : VisitKnownCover(f)
         \/ \E f \in Files : VisitNewCover(f)
         \/ \E f \in Files : CoverFails(f)
         \/ UpsertArtist \/ UpsertAlbum \/ UpsertTrack \/ UpsertRendition \/ UpsertFails
         \/ WalkFails \/ EndWalk \/ Bump \/ BumpFails \/ Crash
         \/ \E f \in Files, v \in {0} \cup Versions : EditFile(f, v)
         \/ \E d \in Dirs : EditCover(d)
         \/ Serve /\ UNCHANGED <<rows, systemUpdateId, scanVars>>
         \/ UNCHANGED vars
  BY DEF Next, Scan, EditTree

\* The update id only grows.
LEMMA UpdateIdGrows ==
  ASSUME ScanTypes, [Next]_vars
  PROVE  systemUpdateId \in Nat /\ systemUpdateId' \in {systemUpdateId, systemUpdateId + 1}
<1> USE DEF rows
<1>1. CASE Bump
  BY <1>1, BoundsAssumption DEF Bump, ScanTypes
<1>2. CASE StartPass \/ RootUnreadable \/ \E f \in Files : Skip(f) \/ SkipUnreadable(f)
  BY <1>2, BoundsAssumption DEF StartPass, RootUnreadable, Skip, SkipUnreadable, ScanTypes
<1>3. CASE \E f \in Files : VisitWithoutCover(f) \/ VisitKnownCover(f) \/ VisitNewCover(f) \/ CoverFails(f) \/ CoverUnreadable(f)
  BY <1>3, BoundsAssumption DEF VisitWithoutCover, VisitKnownCover, VisitNewCover, CoverFails, CoverUnreadable, Import, ScanTypes
<1>4. CASE UpsertArtist \/ UpsertAlbum \/ UpsertTrack \/ UpsertRendition \/ UpsertFails
  BY <1>4, BoundsAssumption DEF UpsertArtist, UpsertAlbum, UpsertTrack, UpsertRendition, UpsertFails, ScanTypes
<1>5. CASE WalkFails \/ EndWalk \/ BumpFails \/ Crash
  BY <1>5, BoundsAssumption DEF WalkFails, EndWalk, BumpFails, Crash, ScanTypes
<1>6. CASE \/ \E f \in Files, v \in {0} \cup Versions : EditFile(f, v)
           \/ \E d \in Dirs : EditCover(d)
  BY <1>6, BoundsAssumption DEF EditFile, EditCover, ScanTypes
<1>7. CASE (Serve /\ UNCHANGED <<rows, systemUpdateId, scanVars>>) \/ UNCHANGED vars
  BY <1>7, BoundsAssumption DEF vars, ScanTypes
<1> QED BY StepCases, <1>1, <1>2, <1>3, <1>4, <1>5, <1>6, <1>7

\* A step of a renderer, or one that leaves them alone.
LEMMA ServeCases ==
  ASSUME [Next]_vars
  PROVE  \/ UNCHANGED browseVars
         \/ \E c \in Renderers :
              \/ \E o \in Containers : Browse(c, o)
              \/ BrowseOn(c) \/ NoSuchObject(c) \/ Found(c) \/ ReadUpdateId(c)
              \/ CountRows(c) \/ SelectPage(c) \/ CountChildren(c) \/ ReadAlbumArt(c)
              \/ ReadRenditions(c) \/ QueryFails(c) \/ AcceptPage(c) \/ DropPages(c)
  BY DEF Next, Serve, vars

LEMMA BrowseTypesNext ==
  ASSUME ScanTypes, BrowseTypes, [Next]_vars
  PROVE  BrowseTypes'
<1> USE DEF BrowseTypes, Places, Step, result
<1>0. systemUpdateId \in Nat /\ systemUpdateId' \in Nat /\ systemUpdateId <= systemUpdateId'
  BY UpdateIdGrows
<1>1. ASSUME UNCHANGED updateId, NEW c \in Renderers,
             \E to \in Places : at' = [at EXCEPT ![c] = to]
      PROVE  BrowseTypes'
  BY <1>0, <1>1
<1>2. CASE UNCHANGED browseVars
  BY <1>0, <1>2 DEF browseVars
<1>3. ASSUME NEW c \in Renderers, \E o \in Containers : Browse(c, o)
      PROVE  BrowseTypes'
  BY <1>1, <1>3 DEF Browse
<1>4. ASSUME NEW c \in Renderers, BrowseOn(c) \/ NoSuchObject(c) \/ Found(c)
      PROVE  BrowseTypes'
  BY <1>1, <1>4 DEF BrowseOn, NoSuchObject, Found
<1>5. ASSUME NEW c \in Renderers, ReadUpdateId(c)
      PROVE  BrowseTypes'
  BY <1>0, <1>5 DEF ReadUpdateId
<1>6. ASSUME NEW c \in Renderers, CountRows(c) \/ SelectPage(c)
      PROVE  BrowseTypes'
  BY <1>1, <1>6 DEF CountRows, SelectPage
<1>7. ASSUME NEW c \in Renderers, CountChildren(c) \/ ReadAlbumArt(c) \/ ReadRenditions(c)
      PROVE  BrowseTypes'
  BY <1>1, <1>7 DEF CountChildren, ReadAlbumArt, ReadRenditions
<1>8. ASSUME NEW c \in Renderers, QueryFails(c) \/ AcceptPage(c) \/ DropPages(c)
      PROVE  BrowseTypes'
  BY <1>1, <1>8 DEF QueryFails, AcceptPage, DropPages
<1> QED BY ServeCases, <1>2, <1>3, <1>4, <1>5, <1>6, <1>7, <1>8

LEMMA ScanTypesNext ==
  ASSUME ScanTypes, Prepared, [Next]_vars
  PROVE  ScanTypes'
<1> USE VersionsAssumption, BoundsAssumption DEF ScanTypes, Upserts
<1>1. CASE StartPass
  BY <1>1 DEF StartPass, tree, import, seen, rows
<1>2. CASE RootUnreadable
  BY <1>2 DEF RootUnreadable, tree, import, seen, rows
<1>3. CASE \E f \in Files : Skip(f) \/ SkipUnreadable(f)
  BY <1>3 DEF Skip, SkipUnreadable, tree, import, seen, outcome, rows
<1>4. CASE \E f \in Files : VisitWithoutCover(f)
  BY <1>4 DEF VisitWithoutCover, Import, FirstStep, tree, outcome
<1>5. CASE \E f \in Files : VisitKnownCover(f)
  BY <1>5 DEF VisitKnownCover, Import, FirstStep, tree, outcome
<1>6. CASE \E f \in Files : VisitNewCover(f)
  BY <1>6 DEF VisitNewCover, Import, FirstStep, tree, outcome
<1>7. CASE \E f \in Files : CoverFails(f) \/ CoverUnreadable(f)
  BY <1>7 DEF CoverFails, CoverUnreadable, Import, FirstStep, tree, outcome
<1>8. CASE UpsertArtist
  <2>0. file \in Files /\ DOMAIN artists' = DOMAIN artists \cup {ArtistId(file)}
    BY <1>8 DEF UpsertArtist, Prepared, Upsert
  <2>1. DOMAIN artists' \subseteq {ArtistId(f) : f \in Files}
    BY <2>0
  <2> QED BY <1>8, <2>1 DEF UpsertArtist, tree, outcome
<1>9. CASE UpsertAlbum
  <2>0. file \in Files /\ DOMAIN albums' = DOMAIN albums \cup {AlbumId(file)}
    BY <1>9 DEF UpsertAlbum, Prepared, Upsert
  <2>1. DOMAIN albums' \subseteq {AlbumId(f) : f \in Files}
    BY <2>0
  <2> QED BY <1>9, <2>1 DEF UpsertAlbum, tree, outcome
<1>10. CASE UpsertTrack
  <2>0. file \in Files /\ DOMAIN tracks' = DOMAIN tracks \cup {TrackId(file)}
    BY <1>10 DEF UpsertTrack, Prepared, Upsert
  <2>1. DOMAIN tracks' \subseteq {TrackId(f) : f \in Files}
    BY <2>0
  <2> QED BY <1>10, <2>1 DEF UpsertTrack, tree, outcome
<1>11. CASE UpsertRendition
  <2>0. file \in Files /\ DOMAIN renditions' = DOMAIN renditions \cup {RenditionId(file)}
    BY <1>11 DEF UpsertRendition, Prepared, Upsert
  <2>1. DOMAIN renditions' \subseteq {RenditionId(f) : f \in Files}
    BY <2>0
  <2> QED BY <1>11, <2>1 DEF UpsertRendition, tree, outcome
<1>12. CASE UpsertFails
  BY <1>12 DEF UpsertFails, tree, outcome, rows
<1>13. CASE WalkFails \/ EndWalk
  BY <1>13 DEF WalkFails, EndWalk, tree, outcome, rows
<1>14. CASE Bump
  BY <1>14 DEF Bump, EndPass, tree, rows
<1>15. CASE BumpFails \/ Crash
  BY <1>15 DEF BumpFails, Crash, EndPass, tree, rows
<1>16. CASE \E f \in Files, v \in {0} \cup Versions : EditFile(f, v)
  BY <1>16 DEF EditFile, outcome, rows
<1>17. CASE \E d \in Dirs : EditCover(d)
  BY <1>17 DEF EditCover, outcome, rows
<1>18. CASE Serve /\ UNCHANGED <<rows, systemUpdateId, scanVars>>
  BY <1>18 DEF rows, scanVars, tree, outcome
<1>19. CASE UNCHANGED vars
  BY <1>19 DEF vars, rows, scanVars, tree, outcome
<1> QED BY StepCases, <1>1, <1>2, <1>3, <1>4, <1>5, <1>6, <1>7, <1>8, <1>9, <1>10,
           <1>11, <1>12, <1>13, <1>14, <1>15, <1>16, <1>17, <1>18, <1>19

\* What a visit or an upsert relies on is there when it happens.
LEMMA PreparedNext ==
  ASSUME Prepared, [Next]_vars
  PROVE  Prepared'
<1> USE DEF Prepared, Upserts
<1>1. CASE StartPass
  BY <1>1 DEF StartPass, import, seen, rows
<1>2. CASE RootUnreadable
  BY <1>2 DEF RootUnreadable, import, seen, rows
<1>3. CASE \E f \in Files : Skip(f) \/ SkipUnreadable(f)
  BY <1>3 DEF Skip, SkipUnreadable, import, seen, rows
<1>4. ASSUME NEW f \in Files, NEW asset, Import(f, asset),
             asset \in {None} \cup DOMAIN assets', DOMAIN assets \subseteq DOMAIN assets',
             seenCovers' \subseteq DOMAIN assets'
      PROVE  Prepared'
  <2>1. /\ ArtistId(f) \notin seenArtists => FirstStep(f) = "artist"
        /\ ArtistId(f) \in seenArtists /\ AlbumId(f) \notin seenAlbums => FirstStep(f) = "album"
        /\ ArtistId(f) \in seenArtists /\ AlbumId(f) \in seenAlbums => FirstStep(f) = "track"
    BY DEF FirstStep
  <2> QED BY <1>4, <2>1 DEF Import
<1>5. CASE \E f \in Files : VisitWithoutCover(f)
  <2> PICK f \in Files : VisitWithoutCover(f)
    BY <1>5
  <2>1. Import(f, None) /\ UNCHANGED <<seenCovers, assets>>
    BY DEF VisitWithoutCover
  <2> QED BY <1>4, <2>1
<1>6. CASE \E f \in Files : VisitKnownCover(f)
  <2> PICK f \in Files : VisitKnownCover(f)
    BY <1>6
  <2>1. Import(f, AlbumId(f)) /\ UNCHANGED <<seenCovers, assets>> /\ AlbumId(f) \in seenCovers
    BY DEF VisitKnownCover
  <2> QED BY <1>4, <2>1
<1>7. CASE \E f \in Files : VisitNewCover(f)
  <2> PICK f \in Files : VisitNewCover(f)
    BY <1>7
  <2>1. /\ Import(f, AlbumId(f))
        /\ seenCovers' = seenCovers \cup {AlbumId(f)}
        /\ DOMAIN assets' = DOMAIN assets \cup {AlbumId(f)}
    BY DEF VisitNewCover, Upsert
  <2> QED BY <1>4, <2>1
<1>8. CASE \E f \in Files : CoverFails(f) \/ CoverUnreadable(f)
  <2> PICK f \in Files : CoverFails(f) \/ CoverUnreadable(f)
    BY <1>8
  <2>1. Import(f, None) /\ UNCHANGED <<seenCovers, assets>>
    BY DEF CoverFails, CoverUnreadable
  <2> QED BY <1>4, <2>1
<1>9. CASE UpsertArtist
  <2>1. DOMAIN artists' = DOMAIN artists \cup {ArtistId(file)}
    BY <1>9 DEF UpsertArtist, Upsert
  <2> QED BY <1>9, <2>1 DEF UpsertArtist, import
<1>10. CASE UpsertAlbum
  <2>1. DOMAIN albums' = DOMAIN albums \cup {AlbumId(file)}
    BY <1>10 DEF UpsertAlbum, Upsert
  <2> QED BY <1>10, <2>1 DEF UpsertAlbum, import
<1>11. CASE UpsertTrack
  <2>1. DOMAIN tracks' = DOMAIN tracks \cup {TrackId(file)}
    BY <1>11 DEF UpsertTrack, Upsert
  <2> QED BY <1>11, <2>1 DEF UpsertTrack, import, seen
<1>12. CASE UpsertRendition
  BY <1>12 DEF UpsertRendition, EndImport, seen
<1>13. CASE UpsertFails
  BY <1>13 DEF UpsertFails, EndImport, seen, rows
<1>14. CASE WalkFails \/ EndWalk
  BY <1>14 DEF WalkFails, EndWalk, import, seen, rows
<1>15. CASE Bump \/ BumpFails \/ Crash
  BY <1>15 DEF Bump, BumpFails, Crash, EndPass, EndImport, rows
<1>16. CASE \E f \in Files, v \in {0} \cup Versions : EditFile(f, v)
  BY <1>16 DEF EditFile, import, seen, rows
<1>17. CASE \E d \in Dirs : EditCover(d)
  BY <1>17 DEF EditCover, import, seen, rows
<1>18. CASE (Serve /\ UNCHANGED <<rows, systemUpdateId, scanVars>>) \/ UNCHANGED vars
  BY <1>18 DEF vars, rows, scanVars, import, seen
<1> QED BY StepCases, <1>1, <1>2, <1>3, <1>5, <1>6, <1>7, <1>8, <1>9, <1>10, <1>11,
           <1>12, <1>13, <1>14, <1>15, <1>16, <1>17, <1>18

\* Each upsert adds a row whose own references are there, and removes none.
LEMMA RowsLinkedNext ==
  ASSUME RowsLinked, Prepared, [Next]_vars
  PROVE  RowsLinked'
<1>1. ASSUME UNCHANGED rows PROVE RowsLinked'
  BY <1>1 DEF RowsLinked, rows
<1>2. CASE \E f \in Files : VisitNewCover(f)
  <2> PICK f \in Files : VisitNewCover(f)
    BY <1>2
  <2>1. /\ DOMAIN assets' = DOMAIN assets \cup {AlbumId(f)}
        /\ UNCHANGED <<artists, albums, tracks, renditions>>
    BY DEF VisitNewCover, Import, Upsert
  <2> QED BY <2>1 DEF RowsLinked
<1>3. CASE UpsertArtist
  <2>1. /\ DOMAIN artists' = DOMAIN artists \cup {ArtistId(file)}
        /\ UNCHANGED <<albums, tracks, renditions, assets>>
    BY <1>3 DEF UpsertArtist, Upsert
  <2> QED BY <2>1 DEF RowsLinked
<1>4. CASE UpsertAlbum
  <2>0. /\ albums' = Upsert(albums, AlbumId(file), [title |-> audio, cover |-> cover])
        /\ UNCHANGED <<artists, tracks, renditions, assets>>
    BY <1>4 DEF UpsertAlbum
  <2>1. /\ DOMAIN albums' = DOMAIN albums \cup {AlbumId(file)}
        /\ albums'[AlbumId(file)].cover = cover
        /\ \A a \in DOMAIN albums : a # AlbumId(file) => albums'[a] = albums[a]
        /\ UNCHANGED <<artists, tracks, renditions, assets>>
    BY <2>0 DEF Upsert
  <2>2. ArtistOf(AlbumId(file)) \in DOMAIN artists /\ cover \in {None} \cup DOMAIN assets
    BY <1>4, IdsNest DEF UpsertAlbum, Prepared, Upserts
  <2>3. \A a \in DOMAIN albums' : /\ ArtistOf(a) \in DOMAIN artists'
                                  /\ albums'[a].cover \in {None} \cup DOMAIN assets'
    BY <2>1, <2>2 DEF RowsLinked
  <2> QED BY <2>1, <2>3 DEF RowsLinked
<1>5. CASE UpsertTrack
  <2>1. /\ DOMAIN tracks' = DOMAIN tracks \cup {TrackId(file)}
        /\ UNCHANGED <<artists, albums, renditions, assets>>
    BY <1>5 DEF UpsertTrack, Upsert
  <2>2. AlbumOf(TrackId(file)) \in DOMAIN albums
    BY <1>5, IdsNest DEF UpsertTrack, Prepared, Upserts
  <2> QED BY <2>1, <2>2 DEF RowsLinked
<1>6. CASE UpsertRendition
  <2>1. /\ DOMAIN renditions' = DOMAIN renditions \cup {RenditionId(file)}
        /\ UNCHANGED <<artists, albums, tracks, assets>>
    BY <1>6 DEF UpsertRendition, Upsert
  <2>2. TrackOf(RenditionId(file)) \in DOMAIN tracks
    BY <1>6, IdsNest DEF UpsertRendition, Prepared, Upserts
  <2> QED BY <2>1, <2>2 DEF RowsLinked
<1>7. CASE StartPass \/ RootUnreadable \/ \E f \in Files : Skip(f) \/ SkipUnreadable(f)
  BY <1>1, <1>7 DEF StartPass, RootUnreadable, Skip, SkipUnreadable
<1>8. CASE \E f \in Files : \/ VisitWithoutCover(f) \/ CoverUnreadable(f)
                         \/ VisitKnownCover(f) \/ CoverFails(f)
  BY <1>1, <1>8 DEF VisitWithoutCover, CoverUnreadable, VisitKnownCover, CoverFails, Import, rows
<1>9. CASE UpsertFails \/ WalkFails \/ EndWalk \/ Bump \/ BumpFails \/ Crash
  BY <1>1, <1>9 DEF UpsertFails, WalkFails, EndWalk, Bump, BumpFails, Crash
<1>10. CASE \/ \E f \in Files, v \in {0} \cup Versions : EditFile(f, v)
            \/ \E d \in Dirs : EditCover(d)
  BY <1>1, <1>10 DEF EditFile, EditCover
<1>11. CASE (Serve /\ UNCHANGED <<rows, systemUpdateId, scanVars>>) \/ UNCHANGED vars
  BY <1>1, <1>11 DEF vars, rows
<1> QED BY StepCases, <1>2, <1>3, <1>4, <1>5, <1>6, <1>7, <1>8, <1>9, <1>10, <1>11

LEMMA LinkedAlways == Spec => []LinkedInv
<1>1. ASSUME LinkedInv, [Next]_vars PROVE LinkedInv'
  BY <1>1, ScanTypesNext, BrowseTypesNext, PreparedNext, RowsLinkedNext DEF LinkedInv
<1> QED BY LinkedInit, <1>1, PTL DEF Spec

\* What is stored, counted and waited for is of its type, whatever fails.
THEOREM SyncTypes == Spec => []TypeOK
<1>1. LinkedInv => TypeOK
  BY VersionsAssumption, BoundsAssumption
     DEF LinkedInv, ScanTypes, BrowseTypes, TypeOK, Upserts, Places
<1> QED BY LinkedAlways, <1>1, PTL

\* No stored row ever points at a row that is not there: the worker writes a
\* row after what it refers to, also when statements fail or it is killed.
THEOREM RowsStayLinked == Spec => []RowsLinked
<1>1. LinkedInv => RowsLinked
  BY DEF LinkedInv
<1> QED BY LinkedAlways, <1>1, PTL

-----------------------------------------------------------------------------
(* Rows that no bump has announced.                                        *)

\* Rows change only inside a pass, and a pass ends in a bump or in a report
\* that says it did not.
THEOREM SilenceIsReported == Spec => []UnannouncedIsReported
<1> USE DEF UnannouncedIsReported
<1>1. Init => UnannouncedIsReported
  BY DEF Init, ScannerInit
<1>2. ASSUME UnannouncedIsReported, [Next]_vars PROVE UnannouncedIsReported'
  <2>1. ASSUME UNCHANGED <<pc, report, unannounced>> PROVE UnannouncedIsReported'
    BY <1>2, <2>1
  <2>2. CASE RootUnreadable
    BY <2>2 DEF RootUnreadable
  <2>3. CASE StartPass
    BY <2>3 DEF StartPass
  <2>4. CASE \E f \in Files : Skip(f) \/ SkipUnreadable(f)
    BY <2>1, <2>4 DEF Skip, SkipUnreadable, outcome
  <2>5. CASE \E f \in Files : VisitWithoutCover(f) \/ VisitKnownCover(f) \/ VisitNewCover(f) \/ CoverFails(f) \/ CoverUnreadable(f)
    <3>1. pc' \in {"artist", "album", "track"}
      BY <2>5 DEF VisitWithoutCover, VisitKnownCover, VisitNewCover, CoverFails, CoverUnreadable, Import, FirstStep
    <3> QED BY <3>1
  <2>6. CASE UpsertArtist \/ UpsertAlbum \/ UpsertTrack \/ UpsertRendition \/ UpsertFails
    <3>1. pc' # "idle"
      BY <2>6 DEF UpsertArtist, UpsertAlbum, UpsertTrack, UpsertRendition, UpsertFails
    <3> QED BY <3>1
  <2>7. CASE WalkFails
    BY <2>1, <2>7 DEF WalkFails, outcome
  <2>8. CASE EndWalk
    BY <2>8 DEF EndWalk
  <2>9. CASE Bump
    BY <2>9 DEF Bump
  <2>10. CASE BumpFails \/ Crash
    <3>1. report' \in {"errors", "crashed"}
      BY <2>10 DEF BumpFails, Crash, EndPass
    <3> QED BY <3>1
  <2>11. CASE \E f \in Files, v \in {0} \cup Versions : EditFile(f, v)
    BY <2>1, <2>11 DEF EditFile, outcome
  <2>12. CASE \E d \in Dirs : EditCover(d)
    BY <2>1, <2>12 DEF EditCover, outcome
  <2>13. CASE (Serve /\ UNCHANGED <<rows, systemUpdateId, scanVars>>) \/ UNCHANGED vars
    BY <2>1, <2>13 DEF vars, scanVars, outcome
  <2> QED BY <1>2, StepCases, <2>2, <2>3, <2>4, <2>5, <2>6, <2>7, <2>8, <2>9, <2>10, <2>11,
             <2>12, <2>13
<1> QED BY <1>1, <1>2, PTL DEF Spec

-----------------------------------------------------------------------------
(* Passes that report no error, as long as the directory iterator does not *)
(* fail: its failure goes unreported, and the run media_scan_walk shows    *)
(* what a pass can miss then.                                              *)

Handled(f) ==
  \/ f \in todo /\ pc # "bump"
  \/ f = file /\ pc \in Upserts
  \/ Stored(f)

\* In a pass without an error so far, a file that is not excused is yet to
\* come, being imported, or stored; and what is about to be stored is what the
\* file holds.
StoresInv ==
  /\ pc # "idle" /\ ~ errors =>
       \A f \in Files \ excused : library[f] # 0 => Handled(f)
  /\ pc \in Upserts /\ file \notin excused => audio \in {library[file], 0}

\* The stored row of a file stays while neither the file nor the table changes.
LEMMA StoredKeeps ==
  ASSUME NEW f, Stored(f), library'[f] = library[f], UNCHANGED renditions
  PROVE  Stored(f)'
  BY DEF Stored

LEMMA HandledNext ==
  ASSUME "walk" \notin Faults, ScanTypes, Prepared, StoresInv, [Next]_vars,
         NEW f \in Files, pc' # "idle", ~ errors', f \notin excused', library'[f] # 0
  PROVE  Handled(f)'
<1> USE DEF Handled, Upserts
<1>0. ASSUME pc # "idle", ~ errors, f \notin excused, library[f] # 0
      PROVE  Handled(f)
  BY <1>0 DEF StoresInv
<1>1. CASE StartPass
  BY <1>1 DEF StartPass, tree
<1>2. CASE RootUnreadable
  BY <1>2 DEF RootUnreadable
<1>3. CASE \E g \in Files : Skip(g) \/ SkipUnreadable(g)
  <2>1. /\ pc = "walk" /\ pc' = "walk" /\ UNCHANGED <<library, errors, renditions>>
        /\ f \notin excused /\ (f \in todo => f \in todo')
    BY <1>3 DEF Skip, SkipUnreadable, tree, rows
  <2> QED BY <1>0, <2>1, StoredKeeps
<1>4. ASSUME NEW g \in Files, NEW asset, Import(g, asset), pc = "walk", ~ errors,
             f \notin excused
      PROVE  Handled(f)'
  <2>1. /\ UNCHANGED <<library, renditions>>
        /\ todo' = todo \ {g} /\ file' = g /\ pc' \in {"artist", "album", "track"}
    BY <1>4 DEF Import, FirstStep, tree
  <2> QED BY <1>0, <1>4, <2>1, StoredKeeps
<1>5. CASE \E g \in Files : VisitWithoutCover(g)
  BY <1>4, <1>5 DEF VisitWithoutCover
<1>6. CASE \E g \in Files : VisitKnownCover(g)
  BY <1>4, <1>6 DEF VisitKnownCover
<1>7. CASE \E g \in Files : VisitNewCover(g)
  BY <1>4, <1>7 DEF VisitNewCover
<1>8. CASE \E g \in Files : CoverFails(g) \/ CoverUnreadable(g)
  BY <1>4, <1>8 DEF CoverFails, CoverUnreadable
<1>9. CASE UpsertArtist \/ UpsertAlbum \/ UpsertTrack
  <2>1. /\ UNCHANGED <<library, errors, excused, todo, file, renditions>>
        /\ pc \in {"artist", "album", "track"} /\ pc' \in Upserts
    BY <1>9 DEF UpsertArtist, UpsertAlbum, UpsertTrack, tree, import
  <2> QED BY <1>0, <2>1, StoredKeeps
<1>10. CASE UpsertRendition
  <2>1. /\ UNCHANGED <<library, errors, excused, todo>>
        /\ pc = "rendition" /\ pc' = "walk"
        /\ renditions' = Upsert(renditions, RenditionId(file), [file |-> file, audio |-> audio])
    BY <1>10 DEF UpsertRendition, tree
  <2>2. /\ RenditionId(file) \in DOMAIN renditions'
        /\ renditions'[RenditionId(file)] = [file |-> file, audio |-> audio]
        /\ \A x \in DOMAIN renditions :
             /\ x \in DOMAIN renditions'
             /\ x # RenditionId(file) => renditions'[x] = renditions[x]
    BY <2>1 DEF Upsert
  <2>3. CASE f \in todo
    BY <2>1, <2>3
  <2>4. CASE f = file
    <3>1. audio \in {library[f], 0}
      BY <2>1, <2>4 DEF StoresInv
    <3>2. Stored(f)'
      BY <2>1, <2>2, <2>4, <3>1 DEF Stored
    <3> QED BY <3>2
  <2>5. CASE f # file /\ Stored(f)
    <3>1. CASE RenditionId(f) = RenditionId(file)
      <4>1. renditions'[RenditionId(f)].file # f
        BY <2>2, <2>5, <3>1
      <4>2. Stored(f)'
        BY <2>2, <3>1, <4>1 DEF Stored
      <4> QED BY <4>2
    <3>2. CASE RenditionId(f) # RenditionId(file)
      <4>1. Stored(f)'
        BY <2>1, <2>2, <2>5, <3>2 DEF Stored
      <4> QED BY <4>1
    <3> QED BY <3>1, <3>2
  <2> QED BY <1>0, <2>1, <2>3, <2>4, <2>5
<1>11. CASE UpsertFails
  BY <1>11 DEF UpsertFails
<1>12. CASE WalkFails
  BY <1>12 DEF WalkFails
<1>13. CASE EndWalk
  <2>1. UNCHANGED <<library, errors, excused, renditions>> /\ pc = "walk" /\ todo = {}
    BY <1>13 DEF EndWalk, tree, rows
  <2> QED BY <1>0, <2>1, StoredKeeps
<1>14. CASE Bump \/ BumpFails \/ Crash
  BY <1>14 DEF Bump, BumpFails, Crash, EndPass
<1>15. CASE \E g \in Files, v \in {0} \cup Versions : EditFile(g, v)
  <2> PICK g \in Files, v \in {0} \cup Versions : EditFile(g, v)
    BY <1>15
  <2>1. /\ UNCHANGED <<pc, file, errors, renditions>>
        /\ todo \subseteq todo' /\ excused' = excused \cup {g} /\ f # g
        /\ library' = [library EXCEPT ![g] = v]
    BY DEF EditFile, import, rows
  <2>2. library'[f] = library[f]
    BY <2>1 DEF ScanTypes
  <2> QED BY <1>0, <2>1, <2>2, StoredKeeps
<1>16. CASE \E d \in Dirs : EditCover(d)
  <2>1. UNCHANGED <<library, pc, file, todo, errors, renditions>> /\ excused \subseteq excused'
    BY <1>16 DEF EditCover, import, rows
  <2> QED BY <1>0, <2>1, StoredKeeps
<1>17. CASE (Serve /\ UNCHANGED <<rows, systemUpdateId, scanVars>>) \/ UNCHANGED vars
  <2>1. UNCHANGED <<library, pc, file, todo, errors, excused, renditions>>
    BY <1>17 DEF vars, scanVars, tree, import, rows
  <2> QED BY <1>0, <2>1, StoredKeeps
<1> QED BY StepCases, <1>1, <1>2, <1>3, <1>5, <1>6, <1>7, <1>8, <1>9, <1>10, <1>11,
           <1>12, <1>13, <1>14, <1>15, <1>16, <1>17

LEMMA AudioNext ==
  ASSUME ScanTypes, Prepared, StoresInv, [Next]_vars, pc' \in Upserts, file' \notin excused'
  PROVE  audio' \in {library'[file'], 0}
<1> USE DEF Upserts
<1>0. ASSUME pc \in Upserts, file \notin excused PROVE audio \in {library[file], 0}
  BY <1>0 DEF StoresInv
<1>1. ASSUME pc \in Upserts, UNCHANGED <<library, file, audio, excused>>
      PROVE  audio' \in {library'[file'], 0}
  BY <1>0, <1>1
<1>2. ASSUME NEW g \in Files, NEW asset, Import(g, asset)
      PROVE  audio' \in {library'[file'], 0}
  BY <1>2 DEF Import, tree
<1>3. CASE StartPass \/ RootUnreadable \/ \E g \in Files : Skip(g) \/ SkipUnreadable(g)
  BY <1>3 DEF StartPass, RootUnreadable, Skip, SkipUnreadable
<1>4. CASE \E g \in Files : VisitWithoutCover(g) \/ VisitKnownCover(g) \/ VisitNewCover(g) \/ CoverFails(g) \/ CoverUnreadable(g)
  BY <1>2, <1>4 DEF VisitWithoutCover, VisitKnownCover, VisitNewCover, CoverFails, CoverUnreadable
<1>5. CASE UpsertArtist \/ UpsertAlbum \/ UpsertTrack
  BY <1>1, <1>5 DEF UpsertArtist, UpsertAlbum, UpsertTrack, tree, import
<1>6. CASE UpsertRendition \/ UpsertFails \/ WalkFails \/ EndWalk \/ Bump \/ BumpFails \/ Crash
  BY <1>6 DEF UpsertRendition, UpsertFails, WalkFails, EndWalk, Bump, BumpFails, Crash, EndPass
<1>7. CASE \E g \in Files, v \in {0} \cup Versions : EditFile(g, v)
  <2> PICK g \in Files, v \in {0} \cup Versions : EditFile(g, v)
    BY <1>7
  <2>1. /\ UNCHANGED <<pc, file, audio>> /\ pc # "idle"
        /\ excused' = excused \cup {g} /\ file # g
        /\ library' = [library EXCEPT ![g] = v]
    BY DEF EditFile, import
  <2>2. library'[file] = library[file]
    BY <2>1 DEF ScanTypes, Prepared
  <2> QED BY <1>0, <2>1, <2>2
<1>8. CASE \E d \in Dirs : EditCover(d)
  <2>1. UNCHANGED <<library, pc, file, audio>> /\ excused \subseteq excused'
    BY <1>8 DEF EditCover, import
  <2> QED BY <1>0, <2>1
<1>9. CASE (Serve /\ UNCHANGED <<rows, systemUpdateId, scanVars>>) \/ UNCHANGED vars
  BY <1>1, <1>9 DEF vars, scanVars, tree, import
<1> QED BY StepCases, <1>3, <1>4, <1>5, <1>6, <1>7, <1>8, <1>9

\* Unless the iterator fails, a pass that reports no error has stored every file
\* that lay in the tree throughout and that it could read, under whatever other
\* faults, as often as passes were killed, and whichever files share ids.
THEOREM CleanPassStores ==
  ASSUME "walk" \notin Faults
  PROVE  Spec => []CleanPassStoresAll
<1>1. Init => StoresInv
  BY DEF Init, ScannerInit, StoresInv, Upserts
<1>2. ASSUME LinkedInv, StoresInv, [Next]_vars PROVE StoresInv'
  <2>1. ASSUME pc' # "idle", ~ errors'
        PROVE  \A f \in Files \ excused' : library'[f] # 0 => Handled(f)'
    BY <1>2, <2>1, HandledNext DEF LinkedInv
  <2>2. pc' \in Upserts /\ file' \notin excused' => audio' \in {library'[file'], 0}
    BY <1>2, AudioNext DEF LinkedInv
  <2> QED BY <2>1, <2>2 DEF StoresInv
<1>3. StoresInv => CleanPassStoresAll
  BY DEF StoresInv, Handled, Upserts, CleanPassStoresAll
<1> QED BY LinkedAlways, <1>1, <1>2, <1>3, PTL DEF Spec

FilesOf(a)   == {f \in Files : AlbumId(f) = a /\ library[f] # 0}
Certain(a) == \A f \in Files : AlbumId(f) = a => f \notin excused

DirsOf(a) == {f.dir : f \in FilesOf(a)}
Covered(a) == DirsOf(a) \cap covers
Bare(a)    == DirsOf(a) \ covers

Settled(a, c) ==
  \/ c = a /\ a \in DOMAIN assets /\ assets[a] \in Covered(a)
  \/ c = None /\ Bare(a) # {}

\* In such a pass the row of an album that has been written has the right
\* cover, so has the row about to be written, and of an album that has not,
\* every file is yet to come.
CoversOf(a) ==
  /\ a \in seenAlbums => Settled(a, albums[a].cover)
  /\ a \notin seenAlbums =>
       \A f \in FilesOf(a) : \/ f \in todo /\ pc # "bump"
                             \/ f = file /\ pc \in {"artist", "album"}
  /\ pc \in {"artist", "album"} /\ AlbumId(file) = a /\ a \notin seenAlbums => Settled(a, cover)

SeenAlbumsInv ==
  /\ pc = "album" => AlbumId(file) \notin seenAlbums
  /\ pc \in {"track", "rendition"} => AlbumId(file) \in seenAlbums
  /\ pc = "idle" => seenAlbums = {}

\* In a pass without an error so far, an asset is stored for the album that is
\* written next.
SeenCoversInv ==
  ~ errors => seenCovers \subseteq
                seenAlbums \cup (IF pc \in {"artist", "album"} THEN {AlbumId(file)} ELSE {})

CoversInv ==
  /\ pc # "idle" /\ ~ errors =>
       \A a \in {AlbumId(f) : f \in Files} : Certain(a) /\ FilesOf(a) # {} => CoversOf(a)
  /\ SeenAlbumsInv
  /\ SeenCoversInv

LEMMA TreeKeeps ==
  ASSUME NEW a, UNCHANGED <<library, covers>>
  PROVE  /\ FilesOf(a)' = FilesOf(a)
         /\ Covered(a)' = Covered(a)
         /\ Bare(a)' = Bare(a)
  BY DEF FilesOf, DirsOf, Covered, Bare

\* An edit that leaves an album untouched changes neither its files nor
\* whether their directories hold a cover.
LEMMA EditKeeps ==
  ASSUME NEW a, ScanTypes, pc # "idle", Certain(a)',
         \/ \E g \in Files, v \in {0} \cup Versions : EditFile(g, v)
         \/ \E d \in Dirs : EditCover(d)
  PROVE  /\ Certain(a)
         /\ FilesOf(a)' = FilesOf(a)
         /\ Covered(a)' = Covered(a)
         /\ Bare(a)' = Bare(a)
<1>1. CASE \E g \in Files, v \in {0} \cup Versions : EditFile(g, v)
  <2> PICK g \in Files, v \in {0} \cup Versions : EditFile(g, v)
    BY <1>1
  <2>1. /\ excused' = excused \cup {g} /\ covers' = covers
        /\ library' = [library EXCEPT ![g] = v]
    BY DEF EditFile
  <2>2. \A f \in Files : AlbumId(f) = a => library'[f] = library[f]
    BY <2>1 DEF Certain, ScanTypes
  <2>3. FilesOf(a)' = FilesOf(a)
    BY <2>2 DEF FilesOf
  <2> QED BY <2>1, <2>3 DEF Certain, DirsOf, Covered, Bare
<1>2. CASE \E d \in Dirs : EditCover(d)
  <2> PICK d \in Dirs : EditCover(d)
    BY <1>2
  <2>1. /\ excused' = excused \cup {f \in Files : f.dir = d} /\ library' = library
        /\ covers' = IF d \in covers THEN covers \ {d} ELSE covers \cup {d}
    BY DEF EditCover
  <2>2. FilesOf(a)' = FilesOf(a)
    BY <2>1 DEF FilesOf
  <2>3. \A f \in FilesOf(a) : f.dir # d
    BY <2>1 DEF Certain, FilesOf
  <2>4. \A f \in FilesOf(a) : f.dir \in covers' <=> f.dir \in covers
    BY <2>1, <2>3
  <2> QED BY <2>1, <2>2, <2>4 DEF Certain, DirsOf, Covered, Bare
<1> QED BY <1>1, <1>2

\* Visiting a file settles the cover its album's row will get.
LEMMA ImportCovers ==
  ASSUME "walk" \notin Faults, ScanTypes, NEW g \in Files, NEW asset, Import(g, asset),
         pc = "walk", library[g] # 0, NEW a, CoversOf(a), Certain(a),
         assets' \in {assets, Upsert(assets, AlbumId(g), g.dir)},
         a = AlbumId(g) /\ a \in seenAlbums => assets' = assets,
         a = AlbumId(g) /\ a \notin seenAlbums =>
           \/ g.dir \in covers /\ asset = a /\ assets' = Upsert(assets, AlbumId(g), g.dir)
           \/ g.dir \notin covers /\ asset = None
  PROVE  CoversOf(a)'
<1>1. /\ UNCHANGED <<library, covers, seenAlbums, albums>>
      /\ file' = g /\ cover' = asset /\ todo' = todo \ {g} /\ pc' = FirstStep(g)
  BY DEF Import, tree
<1>2. AlbumId(g) \notin seenAlbums => pc' \in {"artist", "album"}
  BY <1>1 DEF FirstStep
<1>3. pc' \in {"artist", "album", "track"}
  BY <1>1 DEF FirstStep
<1>4. /\ FilesOf(a)' = FilesOf(a)
      /\ Covered(a)' = Covered(a)
      /\ Bare(a)' = Bare(a)
  BY <1>1, TreeKeeps
<1>5. (a \in seenAlbums => Settled(a, albums[a].cover))'
  <2>1. a \in DOMAIN assets /\ a \in seenAlbums => a \in DOMAIN assets' /\ assets'[a] = assets[a]
    BY DEF Upsert
  <2> QED BY <1>1, <1>4, <2>1 DEF CoversOf, Settled
<1>6. (a \notin seenAlbums =>
         \A f \in FilesOf(a) : \/ f \in todo /\ pc # "bump"
                               \/ f = file /\ pc \in {"artist", "album"})'
  <2>1. \A f \in FilesOf(a) : a \notin seenAlbums => f \in todo
    BY DEF CoversOf
  <2>2. \A f \in FilesOf(a) : AlbumId(f) = a
    BY DEF FilesOf
  <2> QED BY <1>1, <1>2, <1>3, <1>4, <2>1, <2>2
<1>7. ASSUME AlbumId(g) = a, a \notin seenAlbums PROVE Settled(a, cover)'
  <2>1. g \in FilesOf(a)
    BY <1>7 DEF FilesOf
  <2>2. g.dir \in DirsOf(a)
    BY <2>1 DEF DirsOf
  <2>3. CASE g.dir \in covers /\ asset = a /\ assets' = Upsert(assets, AlbumId(g), g.dir)
    <3>1. a \in DOMAIN assets' /\ assets'[a] = g.dir
      BY <1>7, <2>3 DEF Upsert
    <3> QED BY <1>1, <1>4, <2>2, <2>3, <3>1 DEF Settled, Covered
  <2>4. CASE g.dir \notin covers /\ asset = None
    BY <1>1, <1>4, <2>2, <2>4 DEF Settled, Bare
  <2> QED BY <1>7, <2>3, <2>4
<1> QED BY <1>1, <1>5, <1>6, <1>7 DEF CoversOf

LEMMA CoversOfNext ==
  ASSUME "walk" \notin Faults, ScanTypes, Prepared, CoversInv, [Next]_vars,
         NEW a \in {AlbumId(f) : f \in Files},
         pc' # "idle", ~ errors', Certain(a)', FilesOf(a)' # {}
  PROVE  CoversOf(a)'
<1>0. ASSUME pc # "idle", ~ errors, Certain(a), FilesOf(a) # {}
      PROVE  CoversOf(a)
  BY <1>0 DEF CoversInv
<1>a. ASSUME UNCHANGED <<tree, excused>>
      PROVE  /\ Certain(a) /\ FilesOf(a) # {}
             /\ FilesOf(a)' = FilesOf(a)
             /\ Covered(a)' = Covered(a)
             /\ Bare(a)' = Bare(a)
  BY <1>a, TreeKeeps DEF tree, Certain
<1>1. CASE StartPass
  <2>1. /\ UNCHANGED <<tree, excused, seenAlbums>> /\ seenAlbums = {} /\ pc' = "walk"
        /\ todo' = {f \in Files : library[f] # 0}
    BY <1>1 DEF StartPass, seen, CoversInv, SeenAlbumsInv
  <2> QED BY <1>a, <2>1 DEF CoversOf, FilesOf
<1>2. CASE RootUnreadable
  BY <1>2 DEF RootUnreadable
<1>3. CASE \E g \in Files : Skip(g) \/ SkipUnreadable(g)
  <2> PICK g \in Files : Skip(g) \/ SkipUnreadable(g)
    BY <1>3
  <2>1. /\ UNCHANGED <<tree, pc, seenAlbums, errors, albums, assets, file, cover>>
        /\ pc = "walk" /\ todo' = todo \ {g}
        /\ (excused' = excused /\ library[g] = 0) \/ excused' = excused \cup {g}
    BY DEF Skip, SkipUnreadable, seen, rows, import
  <2>2. /\ Certain(a)
        /\ FilesOf(a)' = FilesOf(a)
        /\ Covered(a)' = Covered(a)
        /\ Bare(a)' = Bare(a)
    BY <2>1, TreeKeeps DEF tree, Certain
  <2>3. CoversOf(a) /\ g \notin FilesOf(a)
    BY <1>0, <2>1, <2>2 DEF FilesOf, Certain
  <2> QED BY <2>1, <2>2, <2>3 DEF CoversOf, Settled
<1>4. ASSUME NEW g \in Files, NEW asset, Import(g, asset), ~ errors, excused \subseteq excused',
             pc = "walk", library[g] # 0,
             assets' \in {assets, Upsert(assets, AlbumId(g), g.dir)},
             AlbumId(g) \in seenAlbums => assets' = assets,
             a = AlbumId(g) /\ a \notin seenAlbums =>
               \/ g.dir \in covers /\ asset = a /\ assets' = Upsert(assets, AlbumId(g), g.dir)
               \/ g.dir \notin covers /\ asset = None
      PROVE  CoversOf(a)'
  <2>1. /\ UNCHANGED tree /\ pc # "idle"
        /\ Certain(a)
    BY <1>4 DEF Import, Certain
  <2>2. FilesOf(a) # {}
    BY <2>1, TreeKeeps DEF tree
  <2>3. CoversOf(a)
    BY <1>0, <1>4, <2>1, <2>2
  <2> QED BY <1>4, <2>1, <2>3, ImportCovers
<1>5. CASE \E g \in Files : VisitWithoutCover(g)
  BY <1>4, <1>5 DEF VisitWithoutCover, NeedsCover
<1>6. CASE \E g \in Files : VisitKnownCover(g)
  BY <1>6 DEF VisitKnownCover, NeedsCover, CoversInv, SeenCoversInv
<1>7. CASE \E g \in Files : VisitNewCover(g)
  BY <1>4, <1>7 DEF VisitNewCover, NeedsCover
<1>8. CASE \E g \in Files : CoverFails(g) \/ CoverUnreadable(g)
  <2> PICK g \in Files : CoverFails(g) \/ CoverUnreadable(g)
    BY <1>8
  <2>1. CoverUnreadable(g)
    BY DEF CoverFails
  <2>2. a # AlbumId(g)
    BY <2>1 DEF CoverUnreadable, Certain
  <2> QED BY <1>4, <2>1, <2>2 DEF CoverUnreadable
<1>9. CASE UpsertArtist
  <2>1. /\ UNCHANGED <<tree, excused, seenAlbums, errors, albums, assets, todo, file, cover>>
        /\ pc = "artist" /\ pc' = IF AlbumId(file) \in seenAlbums THEN "track" ELSE "album"
    BY <1>9 DEF UpsertArtist, import
  <2>2. CoversOf(a) /\ \A f \in FilesOf(a) : AlbumId(f) = a
    BY <1>0, <1>a, <2>1 DEF FilesOf
  <2> QED BY <1>a, <2>1, <2>2 DEF CoversOf, Settled
<1>10. CASE UpsertAlbum
  <2>1. /\ UNCHANGED <<tree, excused, errors, assets, todo, file, cover>>
        /\ pc = "album" /\ pc' = "track"
        /\ seenAlbums' = seenAlbums \cup {AlbumId(file)}
        /\ albums' = Upsert(albums, AlbumId(file), [title |-> audio, cover |-> cover])
    BY <1>10 DEF UpsertAlbum, import
  <2>2. /\ albums'[AlbumId(file)].cover = cover
        /\ \A x \in DOMAIN albums : x # AlbumId(file) => albums'[x] = albums[x]
    BY <2>1 DEF Upsert
  <2>3. /\ CoversOf(a) /\ AlbumId(file) \notin seenAlbums /\ seenAlbums \subseteq DOMAIN albums
        /\ \A f \in FilesOf(a) : AlbumId(f) = a
    BY <1>0, <1>a, <2>1 DEF CoversInv, SeenAlbumsInv, Prepared, FilesOf
  <2>4. CASE a = AlbumId(file)
    <3>1. Settled(a, cover)
      BY <2>1, <2>3, <2>4 DEF CoversOf
    <3>2. Settled(a, albums[a].cover)'
      BY <1>a, <2>1, <2>2, <2>4, <3>1 DEF Settled
    <3> QED BY <2>1, <2>4, <3>2 DEF CoversOf
  <2>5. CASE a # AlbumId(file)
    <3>1. a \in seenAlbums => Settled(a, albums[a].cover)'
      BY <1>a, <2>1, <2>2, <2>3, <2>5 DEF Settled, CoversOf
    <3>2. a \notin seenAlbums => \A f \in FilesOf(a)' : f \in todo'
      BY <1>a, <2>1, <2>3, <2>5 DEF CoversOf
    <3> QED BY <2>1, <2>5, <3>1, <3>2 DEF CoversOf
  <2> QED BY <2>4, <2>5
<1>11. CASE UpsertTrack \/ UpsertRendition
  <2>1. /\ UNCHANGED <<tree, excused, seenAlbums, errors, albums, assets, todo>>
        /\ pc \in {"track", "rendition"} /\ pc' \in {"rendition", "walk"}
    BY <1>11 DEF UpsertTrack, UpsertRendition, seen
  <2>2. CoversOf(a)
    BY <1>0, <1>a, <2>1
  <2> QED BY <1>a, <2>1, <2>2 DEF CoversOf, Settled
<1>12. CASE UpsertFails
  BY <1>12 DEF UpsertFails
<1>13. CASE WalkFails
  BY <1>13 DEF WalkFails
<1>14. CASE EndWalk
  <2>1. /\ UNCHANGED <<tree, excused, seenAlbums, errors, albums, assets>>
        /\ pc = "walk" /\ todo = {} /\ pc' = "bump"
    BY <1>14 DEF EndWalk, seen, rows
  <2>2. CoversOf(a)
    BY <1>0, <1>a, <2>1
  <2> QED BY <1>a, <2>1, <2>2 DEF CoversOf, Settled
<1>15. CASE Bump \/ BumpFails \/ Crash
  BY <1>15 DEF Bump, BumpFails, Crash, EndPass
<1>16. CASE \/ \E g \in Files, v \in {0} \cup Versions : EditFile(g, v)
            \/ \E d \in Dirs : EditCover(d)
  <2>1. /\ UNCHANGED <<pc, seenAlbums, errors, albums, assets, file, cover>> /\ todo \subseteq todo'
    BY <1>16 DEF EditFile, EditCover, seen, rows, import
  <2>2. /\ Certain(a)
        /\ FilesOf(a)' = FilesOf(a)
        /\ Covered(a)' = Covered(a)
        /\ Bare(a)' = Bare(a)
    BY <1>16, <2>1, EditKeeps
  <2>3. CoversOf(a)
    BY <1>0, <2>1, <2>2
  <2> QED BY <2>1, <2>2, <2>3 DEF CoversOf, Settled
<1>17. CASE (Serve /\ UNCHANGED <<rows, systemUpdateId, scanVars>>) \/ UNCHANGED vars
  <2>1. UNCHANGED <<tree, excused, pc, seenAlbums, errors, albums, assets, todo, file, cover>>
    BY <1>17 DEF vars, scanVars, seen, import, rows
  <2>2. CoversOf(a)
    BY <1>0, <1>a, <2>1
  <2> QED BY <1>a, <2>1, <2>2 DEF CoversOf, Settled
<1> QED BY StepCases, <1>1, <1>2, <1>3, <1>5, <1>6, <1>7, <1>8, <1>9, <1>10, <1>11,
           <1>12, <1>13, <1>14, <1>15, <1>16, <1>17

LEMMA SeenAlbumsNext ==
  ASSUME SeenAlbumsInv, [Next]_vars
  PROVE  SeenAlbumsInv'
<1> USE DEF SeenAlbumsInv
<1>1. CASE StartPass \/ RootUnreadable \/ \E g \in Files : Skip(g) \/ SkipUnreadable(g)
  BY <1>1 DEF StartPass, RootUnreadable, Skip, SkipUnreadable, seen, import
<1>2. CASE \E g \in Files : VisitWithoutCover(g) \/ VisitKnownCover(g) \/ VisitNewCover(g) \/ CoverFails(g) \/ CoverUnreadable(g)
  <2> PICK g \in Files : Import(g, None) \/ Import(g, AlbumId(g))
    BY <1>2 DEF VisitWithoutCover, VisitKnownCover, VisitNewCover, CoverFails, CoverUnreadable
  <2> QED BY DEF Import, FirstStep
<1>3. CASE UpsertArtist
  BY <1>3 DEF UpsertArtist, import
<1>4. CASE UpsertAlbum
  BY <1>4 DEF UpsertAlbum, import
<1>5. CASE UpsertTrack \/ UpsertRendition \/ UpsertFails
  BY <1>5 DEF UpsertTrack, UpsertRendition, UpsertFails, import, seen
<1>6. CASE WalkFails \/ EndWalk \/ Bump \/ BumpFails \/ Crash
  BY <1>6 DEF WalkFails, EndWalk, Bump, BumpFails, Crash, EndPass, import, seen
<1>7. CASE \/ \E g \in Files, v \in {0} \cup Versions : EditFile(g, v)
           \/ \E d \in Dirs : EditCover(d)
  BY <1>7 DEF EditFile, EditCover, import, seen
<1>8. CASE (Serve /\ UNCHANGED <<rows, systemUpdateId, scanVars>>) \/ UNCHANGED vars
  BY <1>8 DEF vars, scanVars, import, seen
<1> QED BY StepCases, <1>1, <1>2, <1>3, <1>4, <1>5, <1>6, <1>7, <1>8

LEMMA SeenCoversNext ==
  ASSUME SeenCoversInv, SeenAlbumsInv, [Next]_vars
  PROVE  SeenCoversInv'
<1> USE DEF SeenCoversInv
<1>1. CASE StartPass \/ RootUnreadable \/ \E g \in Files : Skip(g) \/ SkipUnreadable(g)
  BY <1>1 DEF StartPass, RootUnreadable, Skip, SkipUnreadable, seen, import
<1>2. ASSUME NEW g \in Files, pc = "walk", NEW asset, Import(g, asset),
             errors' = errors,
             \/ seenCovers' = seenCovers
             \/ seenCovers' = seenCovers \cup {AlbumId(g)}
      PROVE  SeenCoversInv'
  <2>1. /\ seenAlbums' = seenAlbums /\ file' = g /\ pc' = FirstStep(g)
    BY <1>2 DEF Import
  <2>2. AlbumId(g) \notin seenAlbums => pc' \in {"artist", "album"}
    BY <2>1 DEF FirstStep
  <2> QED BY <1>2, <2>1, <2>2
<1>3. CASE \E g \in Files : VisitWithoutCover(g) \/ VisitKnownCover(g) \/ VisitNewCover(g) \/ CoverUnreadable(g)
  BY <1>2, <1>3 DEF VisitWithoutCover, VisitKnownCover, VisitNewCover, CoverUnreadable
<1>4. CASE \E g \in Files : CoverFails(g)
  BY <1>4 DEF CoverFails
<1>5. CASE UpsertArtist
  BY <1>5 DEF UpsertArtist, import
<1>6. CASE UpsertAlbum
  BY <1>6 DEF UpsertAlbum, import
<1>7. CASE UpsertTrack \/ UpsertRendition \/ UpsertFails
  BY <1>7 DEF UpsertTrack, UpsertRendition, UpsertFails, seen
<1>8. CASE WalkFails \/ EndWalk \/ Bump \/ BumpFails \/ Crash
  BY <1>8 DEF WalkFails, EndWalk, Bump, BumpFails, Crash, EndPass, seen
<1>9. CASE \/ \E g \in Files, v \in {0} \cup Versions : EditFile(g, v)
           \/ \E d \in Dirs : EditCover(d)
  BY <1>9 DEF EditFile, EditCover, import, seen
<1>10. CASE (Serve /\ UNCHANGED <<rows, systemUpdateId, scanVars>>) \/ UNCHANGED vars
  BY <1>10 DEF vars, scanVars, import, seen
<1> QED BY StepCases, <1>1, <1>3, <1>4, <1>5, <1>6, <1>7, <1>8, <1>9, <1>10

\* Unless the iterator fails, a pass that reports no error has settled the
\* cover of each album that nobody edited meanwhile and that it could read:
\* the image of one of the album's directories, or none because one has none,
\* whatever failed passes had left in its row and among the assets.
THEOREM CleanPassCovers ==
  ASSUME "walk" \notin Faults
  PROVE  Spec => []CleanPassSettlesCovers
<1>1. Init => CoversInv
  BY DEF Init, ScannerInit, CoversInv, SeenAlbumsInv, SeenCoversInv
<1>2. ASSUME LinkedInv, CoversInv, [Next]_vars PROVE CoversInv'
  <2>1. ASSUME pc' # "idle", ~ errors'
        PROVE  \A a \in {AlbumId(f) : f \in Files} :
                 Certain(a)' /\ FilesOf(a)' # {} => CoversOf(a)'
    BY <1>2, <2>1, CoversOfNext DEF LinkedInv
  <2>2. SeenAlbumsInv' /\ SeenCoversInv'
    BY <1>2, SeenAlbumsNext, SeenCoversNext DEF CoversInv
  <2> QED BY <2>1, <2>2 DEF CoversInv
<1>3. CoversInv => CleanPassSettlesCovers
  <2> SUFFICES ASSUME CoversInv, pc = "bump", ~ errors,
                      NEW a \in {AlbumId(f) : f \in Files}, DirsOf(a) # {}, Certain(a)
               PROVE  \/ albums[a].cover = a /\ assets[a] \in Covered(a)
                      \/ albums[a].cover = None /\ Bare(a) # {}
    BY DEF CleanPassSettlesCovers, FilesOf, DirsOf, Certain, Covered, Bare
  <2>1. FilesOf(a) # {}
    BY DEF DirsOf
  <2>2. CoversOf(a)
    BY <2>1 DEF CoversInv
  <2>3. a \in seenAlbums
    BY <2>1, <2>2 DEF CoversOf
  <2> QED BY <2>2, <2>3 DEF CoversOf, Settled
<1> QED BY LinkedAlways, <1>1, <1>2, <1>3, PTL DEF Spec

-----------------------------------------------------------------------------
(* The renderers' copies.                                                  *)

Listing(c) == Children(object[c])
Row(c, k)  == Sorted(Listing(c))[k]
RowsIn(c)  == Cardinality(Listing(c))

\* The DIDL objects of rows i to j of the listing, as the catalog is now.
Shown(c, i, j) == {Entry(Row(c, k)) : k \in i..j}

\* The row at which the page that starts at start[c] ends.
PageEnd(c) == IF start[c] + PageSize < RowsIn(c) THEN start[c] + PageSize ELSE RowsIn(c)

PageRow(c, k) == [id |-> Row(c, k), title |-> Title(Row(c, k))]
RowsFrom(c, m) == [i \in 1..(PageEnd(c) - m) |-> PageRow(c, m + i)]

\* The page holds rows m + 1 to its end, with the titles they have now.
PageFrom(c, m) == page[c] = RowsFrom(c, m)

\* No row changed since the UpdateID of the request was read, and the page
\* will go with what the renderer has.
Fresh(c) ==
  /\ ~ unannounced /\ updateId[c] = systemUpdateId
  /\ start[c] = 0 \/ copyId[c] = systemUpdateId

HeldPart(c) ==
  copyId[c] = systemUpdateId /\ ~ unannounced =>
    /\ start[c] <= RowsIn(c)
    /\ copy[c] = Shown(c, 1, start[c])
    /\ complete[c] => start[c] = RowsIn(c)

PagePart(c) ==
  Fresh(c) =>
    /\ at[c] \in {"select", "detail", "resources"} => total[c] = RowsIn(c)
    /\ at[c] = "detail" =>
         \E m \in start[c]..PageEnd(c) :
           PageFrom(c, m) /\ items[c] = Shown(c, start[c] + 1, m)
    /\ at[c] = "resources" =>
         \E m \in start[c]..(PageEnd(c) - 1) :
           /\ PageFrom(c, m) /\ Len(Row(c, m + 1)) = 3
           /\ items[c] = Shown(c, start[c] + 1, m) \cup
                {[id |-> Row(c, m + 1), title |-> Title(Row(c, m + 1)),
                  art |-> HasArt(Row(c, m + 1)), resources |-> None]}

RendererTypes ==
  /\ object \in [Renderers -> Containers \cup {None}]
  /\ total \in [Renderers -> Nat]
  /\ start \in [Renderers -> Nat]
  /\ copyId \in [Renderers -> Nat]
  /\ DOMAIN page = Renderers /\ DOMAIN items = Renderers
  /\ DOMAIN copy = Renderers /\ DOMAIN complete = Renderers

BookKept(c) ==
  /\ copyId[c] <= systemUpdateId
  /\ at[c] # "idle" \/ start[c] # 0 \/ copyId[c] # 0 => object[c] \in Containers
  /\ at[c] \in {"count", "select"} => items[c] = {}
  /\ IsFiniteSet(items[c])
  /\ start[c] = 0 => copy[c] = {}

CopyInv == RendererTypes /\ \A c \in Renderers : BookKept(c) /\ HeldPart(c) /\ PagePart(c)

\* A listing is a finite set of ids.
LEMMA ListingIds ==
  ASSUME ScanTypes, NEW o \in Containers
  PROVE  Children(o) \in SUBSET Seq(Nat) /\ IsFiniteSet(Children(o))
<1>1. /\ IsFiniteSet(DOMAIN artists) /\ DOMAIN artists \subseteq Seq(Nat)
      /\ IsFiniteSet(DOMAIN albums) /\ DOMAIN albums \subseteq Seq(Nat)
      /\ IsFiniteSet(DOMAIN tracks) /\ DOMAIN tracks \subseteq Seq(Nat)
  <2>1. /\ DOMAIN artists \subseteq {ArtistId(f) : f \in Files}
        /\ DOMAIN albums \subseteq {AlbumId(f) : f \in Files}
        /\ DOMAIN tracks \subseteq {TrackId(f) : f \in Files}
    BY DEF ScanTypes
  <2> QED BY <2>1, IdsAreFew, FS_Subset
<1>2. CASE o[1] = "tracks"
  BY <1>1, <1>2 DEF Children
<1>3. CASE o[1] = "artists"
  BY <1>1, <1>3 DEF Children
<1>4. CASE o[1] = "artist_albums"
  <2>1. Children(o) \subseteq DOMAIN albums
    BY <1>4 DEF Children, AlbumsOfArtist
  <2> QED BY <1>1, <2>1, FS_Subset
<1>5. CASE o[1] = "album"
  <2>1. Children(o) \subseteq DOMAIN tracks
    BY <1>5 DEF Children, TracksOfAlbum
  <2> QED BY <1>1, <2>1, FS_Subset
<1> QED BY <1>2, <1>3, <1>4, <1>5, ContainersAssumption

\* The rows of a listing are numbered once each.
LEMMA RowsOf ==
  ASSUME ScanTypes, NEW c, object[c] \in Containers
  PROVE  /\ RowsIn(c) \in Nat
         /\ \A i \in 1..RowsIn(c) : Row(c, i) \in Listing(c)
         /\ \A i, j \in 1..RowsIn(c) : Row(c, i) = Row(c, j) => i = j
         /\ \A a \in Listing(c) : \E i \in 1..RowsIn(c) : Row(c, i) = a
         /\ Sorted(Listing(c)) \in [1..RowsIn(c) -> Listing(c)]
<1> Listing(c) \in SUBSET Seq(Nat) /\ IsFiniteSet(Listing(c))
  BY ListingIds DEF Listing
<1> QED BY SortedLists DEF RowsIn, Row

\* An entry shows the id it is of.
LEMMA EntryId == \A id : Entry(id).id = id
  BY DEF Entry

\* All rows, shown, are the container's contents.
LEMMA ShownAll ==
  ASSUME ScanTypes, NEW c, object[c] \in Containers
  PROVE  Shown(c, 1, RowsIn(c)) = Contents(object[c])
<1> USE DEF Shown, Contents, Listing
<1>1. /\ \A i \in 1..RowsIn(c) : Row(c, i) \in Children(object[c])
      /\ \A a \in Children(object[c]) : \E i \in 1..RowsIn(c) : Row(c, i) = a
  BY RowsOf
<1> HIDE DEF Listing
<1> QED BY <1>1

\* As many objects are shown as there are rows from i to j.
LEMMA ShownCount ==
  ASSUME ScanTypes, NEW c, object[c] \in Containers,
         NEW i \in Nat, NEW j \in Nat, i <= j, j <= RowsIn(c)
  PROVE  IsFiniteSet(Shown(c, i + 1, j)) /\ Cardinality(Shown(c, i + 1, j)) = j - i
<1> DEFINE f == [k \in (i + 1)..j |-> Entry(Row(c, k))]
<1>1. IsFiniteSet((i + 1)..j) /\ Cardinality((i + 1)..j) = j - i
  <2>1. i + 1 \in Int /\ j \in Int
    OBVIOUS
  <2>2. /\ IsFiniteSet((i + 1)..j)
        /\ Cardinality((i + 1)..j) = IF i + 1 > j THEN 0 ELSE j - (i + 1) + 1
    BY <2>1, FS_Interval
  <2> QED BY <2>2
<1>2. f \in Surjection((i + 1)..j, Shown(c, i + 1, j))
  BY DEF Surjection, Shown
<1>3. \A k, l \in (i + 1)..j : f[k] = f[l] => k = l
  <2> SUFFICES ASSUME NEW k \in (i + 1)..j, NEW l \in (i + 1)..j, f[k] = f[l] PROVE k = l
    OBVIOUS
  <2>1. Entry(Row(c, k)) = Entry(Row(c, l))
    OBVIOUS
  <2>2. Row(c, k) = Row(c, l)
    BY <2>1, EntryId
  <2>3. k \in 1..RowsIn(c) /\ l \in 1..RowsIn(c)
    BY RowsOf
  <2> QED BY <2>2, <2>3, RowsOf
<1>4. f \in Injection((i + 1)..j, Shown(c, i + 1, j))
  BY <1>2, <1>3 DEF Injection, Surjection, IsInjective
<1> HIDE DEF f
<1> QED BY <1>1, <1>2, <1>4, FS_Surjection

-----------------------------------------------------------------------------
(* What a step leaves alone.                                               *)

\* A step after which every change is announced, under the same update id,
\* changed no row; nor had any step before it since the last bump.
LEMMA QuietStep ==
  ASSUME ScanTypes, [Next]_vars, ~ unannounced', systemUpdateId' = systemUpdateId
  PROVE  ~ unannounced /\ UNCHANGED rows
<1>0. systemUpdateId \in Nat
  BY UpdateIdGrows
<1>1. CASE StartPass \/ RootUnreadable
  BY <1>1 DEF StartPass, RootUnreadable
<1>2. CASE \E f \in Files : Skip(f) \/ SkipUnreadable(f)
  BY <1>2 DEF Skip, SkipUnreadable
<1>3. CASE \E f \in Files : VisitWithoutCover(f)
  BY <1>3 DEF VisitWithoutCover, Import, rows
<1>4. CASE \E f \in Files : VisitKnownCover(f)
  BY <1>4 DEF VisitKnownCover, Import, rows
<1>5. CASE \E f \in Files : VisitNewCover(f)
  <2> PICK f \in Files : VisitNewCover(f)
    BY <1>5
  <2>1. /\ UNCHANGED <<artists, albums, tracks, renditions>>
        /\ unannounced' = (unannounced \/ assets' # assets)
    BY DEF VisitNewCover, Import
  <2>2. ~ unannounced /\ assets' = assets
    BY <2>1
  <2> QED BY <2>1, <2>2 DEF rows
<1>6. CASE \E f \in Files : CoverFails(f) \/ CoverUnreadable(f)
  BY <1>6 DEF CoverFails, CoverUnreadable, Import, rows
<1>7. CASE UpsertArtist
  <2>1. /\ UNCHANGED <<albums, tracks, renditions, assets>>
        /\ unannounced' = (unannounced \/ artists' # artists)
    BY <1>7 DEF UpsertArtist
  <2>2. ~ unannounced /\ artists' = artists
    BY <2>1
  <2> QED BY <2>1, <2>2 DEF rows
<1>8. CASE UpsertAlbum
  <2>1. /\ UNCHANGED <<artists, tracks, renditions, assets>>
        /\ unannounced' = (unannounced \/ albums' # albums)
    BY <1>8 DEF UpsertAlbum
  <2>2. ~ unannounced /\ albums' = albums
    BY <2>1
  <2> QED BY <2>1, <2>2 DEF rows
<1>9. CASE UpsertTrack
  <2>1. /\ UNCHANGED <<artists, albums, renditions, assets>>
        /\ unannounced' = (unannounced \/ tracks' # tracks)
    BY <1>9 DEF UpsertTrack
  <2>2. ~ unannounced /\ tracks' = tracks
    BY <2>1
  <2> QED BY <2>1, <2>2 DEF rows
<1>10. CASE UpsertRendition
  <2>1. /\ UNCHANGED <<artists, albums, tracks, assets>>
        /\ unannounced' = (unannounced \/ renditions' # renditions)
    BY <1>10 DEF UpsertRendition
  <2>2. ~ unannounced /\ renditions' = renditions
    BY <2>1
  <2> QED BY <2>1, <2>2 DEF rows
<1>11. CASE UpsertFails \/ WalkFails \/ EndWalk
  BY <1>11 DEF UpsertFails, WalkFails, EndWalk
<1>12. CASE Bump
  BY <1>0, <1>12 DEF Bump
<1>13. CASE BumpFails \/ Crash
  BY <1>13 DEF BumpFails, Crash
<1>14. CASE \E f \in Files, v \in {0} \cup Versions : EditFile(f, v)
  BY <1>14 DEF EditFile
<1>15. CASE \E d \in Dirs : EditCover(d)
  BY <1>15 DEF EditCover
<1>16. CASE (Serve /\ UNCHANGED <<rows, systemUpdateId, scanVars>>) \/ UNCHANGED vars
  BY <1>16 DEF vars, scanVars
<1> QED BY StepCases, <1>1, <1>2, <1>3, <1>4, <1>5, <1>6, <1>7, <1>8, <1>9, <1>10, <1>11,
           <1>12, <1>13, <1>14, <1>15, <1>16

\* While the rows stay, so does what they show.
LEMMA ShownKeeps ==
  ASSUME NEW c, UNCHANGED rows, object'[c] = object[c]
  PROVE  /\ Listing(c)' = Listing(c)
         /\ RowsIn(c)' = RowsIn(c)
         /\ \A k : Row(c, k)' = Row(c, k)
         /\ \A id : Title(id)' = Title(id)
         /\ \A id : HasArt(id)' = HasArt(id)
         /\ \A i, j : Shown(c, i, j)' = Shown(c, i, j)
<1>1. Listing(c)' = Listing(c)
  BY DEF Listing, Children, AlbumsOfArtist, TracksOfAlbum, rows
<1>2. RowsIn(c)' = RowsIn(c) /\ \A k : Row(c, k)' = Row(c, k)
  BY <1>1 DEF RowsIn, Row
<1>3. \A id : Title(id)' = Title(id)
  BY DEF Title, rows
<1>4. \A id : HasArt(id)' = HasArt(id)
  BY DEF HasArt, rows
<1>5. \A id : ChildCount(id)' = ChildCount(id)
  BY DEF ChildCount, AlbumsOfArtist, TracksOfAlbum, rows
<1>6. \A id : RenditionsOf(id)' = RenditionsOf(id)
  BY DEF RenditionsOf, rows
<1>7. \A id : Entry(id)' = Entry(id)
  BY <1>3, <1>4, <1>5, <1>6 DEF Entry
<1>8. \A i, j : Shown(c, i, j)' = Shown(c, i, j)
  BY <1>2, <1>7 DEF Shown
<1> QED BY <1>1, <1>2, <1>3, <1>4, <1>8

-----------------------------------------------------------------------------
(* A renderer's copy, step by step.                                        *)

SameHold(c) ==
  /\ object'[c] = object[c] /\ start'[c] = start[c]
  /\ copy'[c] = copy[c] /\ copyId'[c] = copyId[c] /\ complete'[c] = complete[c]

SameResult(c) ==
  /\ updateId'[c] = updateId[c] /\ total'[c] = total[c]
  /\ page'[c] = page[c] /\ items'[c] = items[c]

SameCatalog == UNCHANGED <<rows, systemUpdateId>> /\ (~ unannounced' => ~ unannounced)

ServeStep(c) ==
  \/ \E o \in Containers : Browse(c, o)
  \/ BrowseOn(c) \/ NoSuchObject(c) \/ Found(c) \/ ReadUpdateId(c)
  \/ CountRows(c) \/ SelectPage(c) \/ CountChildren(c) \/ ReadAlbumArt(c)
  \/ ReadRenditions(c) \/ QueryFails(c) \/ AcceptPage(c) \/ DropPages(c)

\* A step of one renderer's thread concerns no other renderer.
LEMMA OthersStay ==
  ASSUME RendererTypes, BrowseTypes, NEW c \in Renderers, ServeStep(c),
         NEW d \in Renderers, d # c
  PROVE  at'[d] = at[d] /\ SameHold(d) /\ SameResult(d)
<1> USE DEF SameHold, SameResult, RendererTypes, BrowseTypes, Step, result, renderer
<1>1. CASE \E o \in Containers : Browse(c, o)
  BY <1>1 DEF Browse
<1>2. CASE BrowseOn(c) \/ NoSuchObject(c) \/ Found(c)
  BY <1>2 DEF BrowseOn, NoSuchObject, Found
<1>3. CASE ReadUpdateId(c)
  BY <1>3 DEF ReadUpdateId
<1>4. CASE CountRows(c)
  BY <1>4 DEF CountRows
<1>5. CASE SelectPage(c)
  BY <1>5 DEF SelectPage
<1>6. CASE CountChildren(c)
  BY <1>6 DEF CountChildren
<1>7. CASE ReadAlbumArt(c)
  BY <1>7 DEF ReadAlbumArt
<1>8. CASE ReadRenditions(c)
  BY <1>8 DEF ReadRenditions
<1>9. CASE QueryFails(c)
  BY <1>9 DEF QueryFails
<1>10. CASE AcceptPage(c)
  BY <1>10 DEF AcceptPage
<1>11. CASE DropPages(c)
  BY <1>11 DEF DropPages
<1> QED BY <1>1, <1>2, <1>3, <1>4, <1>5, <1>6, <1>7, <1>8, <1>9, <1>10, <1>11 DEF ServeStep

\* What the renderer holds stays right while the catalog stays.
LEMMA HoldKeeps ==
  ASSUME NEW c, HeldPart(c), SameHold(c), SameCatalog
  PROVE  HeldPart(c)'
<1>1. /\ RowsIn(c)' = RowsIn(c)
      /\ \A i, j : Shown(c, i, j)' = Shown(c, i, j)
  BY ShownKeeps DEF SameHold, SameCatalog
<1> QED BY <1>1 DEF HeldPart, SameHold, SameCatalog

LEMMA PageEndKeeps ==
  ASSUME NEW c, UNCHANGED rows, object'[c] = object[c], start'[c] = start[c]
  PROVE  PageEnd(c)' = PageEnd(c)
<1>1. RowsIn(c)' = RowsIn(c)
  BY ShownKeeps
<1> QED BY <1>1 DEF PageEnd

\* So does the page that is being built.
LEMMA PageKeeps ==
  ASSUME NEW c, PagePart(c), at'[c] = at[c], SameHold(c), SameResult(c), SameCatalog
  PROVE  PagePart(c)'
<1>1. /\ RowsIn(c)' = RowsIn(c) /\ PageEnd(c)' = PageEnd(c)
      /\ \A k : Row(c, k)' = Row(c, k)
      /\ \A id : Title(id)' = Title(id)
      /\ \A id : HasArt(id)' = HasArt(id)
      /\ \A i, j : Shown(c, i, j)' = Shown(c, i, j)
  BY ShownKeeps, PageEndKeeps DEF SameHold, SameCatalog
<1>2. Fresh(c)' => Fresh(c)
  BY DEF Fresh, SameHold, SameResult, SameCatalog
<1>3. \A m : PageFrom(c, m)' <=> PageFrom(c, m)
  BY <1>1 DEF PageFrom, RowsFrom, PageRow, SameResult
<1>4. at[c] \in {"select", "detail", "resources"} /\ Fresh(c)' => total'[c] = RowsIn(c)'
  BY <1>1, <1>2 DEF PagePart, SameResult
<1>5. ASSUME at[c] = "detail", Fresh(c)'
      PROVE  (\E m \in start[c]..PageEnd(c) :
                PageFrom(c, m) /\ items[c] = Shown(c, start[c] + 1, m))'
  <2>1. PICK m \in start[c]..PageEnd(c) :
               PageFrom(c, m) /\ items[c] = Shown(c, start[c] + 1, m)
    BY <1>2, <1>5 DEF PagePart
  <2> QED BY <1>1, <1>3, <2>1 DEF SameHold, SameResult
<1>6. ASSUME at[c] = "resources", Fresh(c)'
      PROVE  (\E m \in start[c]..(PageEnd(c) - 1) :
                /\ PageFrom(c, m) /\ Len(Row(c, m + 1)) = 3
                /\ items[c] = Shown(c, start[c] + 1, m) \cup
                     {[id |-> Row(c, m + 1), title |-> Title(Row(c, m + 1)),
                       art |-> HasArt(Row(c, m + 1)), resources |-> None]})'
  <2>1. PICK m \in start[c]..(PageEnd(c) - 1) :
               /\ PageFrom(c, m) /\ Len(Row(c, m + 1)) = 3
               /\ items[c] = Shown(c, start[c] + 1, m) \cup
                    {[id |-> Row(c, m + 1), title |-> Title(Row(c, m + 1)),
                      art |-> HasArt(Row(c, m + 1)), resources |-> None]}
    BY <1>2, <1>6 DEF PagePart
  <2> QED BY <1>1, <1>3, <2>1 DEF SameHold, SameResult
<1> QED BY <1>4, <1>5, <1>6 DEF PagePart

\* A renderer that takes no step keeps what it has: if the worker changes a
\* row, or announces that it did, nothing is promised any more.
LEMMA Bystander ==
  ASSUME ScanTypes, BrowseTypes, [Next]_vars, NEW c \in Renderers,
         BookKept(c), HeldPart(c), PagePart(c),
         at'[c] = at[c], SameHold(c), SameResult(c), copyId[c] \in Nat
  PROVE  BookKept(c)' /\ HeldPart(c)' /\ PagePart(c)'
<1>0. /\ systemUpdateId \in Nat /\ systemUpdateId' \in {systemUpdateId, systemUpdateId + 1}
      /\ updateId[c] \in Nat /\ updateId[c] <= systemUpdateId /\ copyId[c] <= systemUpdateId
  BY UpdateIdGrows DEF BrowseTypes, BookKept
<1>1. BookKept(c)'
  BY <1>0 DEF BookKept, SameHold, SameResult
<1>2. CASE ~ unannounced' /\ systemUpdateId' = systemUpdateId
  <2>1. SameCatalog
    BY <1>2, QuietStep DEF SameCatalog
  <2> QED BY <1>1, <2>1, HoldKeeps, PageKeeps
<1>3. CASE unannounced'
  BY <1>1, <1>3 DEF HeldPart, PagePart, Fresh
<1>4. CASE systemUpdateId' = systemUpdateId + 1
  <2>1. copyId'[c] # systemUpdateId' /\ updateId'[c] # systemUpdateId'
    BY <1>0, <1>4 DEF SameHold, SameResult
  <2> QED BY <1>1, <2>1 DEF HeldPart, PagePart, Fresh
<1> QED BY <1>0, <1>2, <1>3, <1>4

\* Its own steps: what they leave alone, and where they lead.
LEMMA ServeKeepsCatalog ==
  ASSUME [Next]_vars, NEW c \in Renderers, ServeStep(c), UNCHANGED <<rows, systemUpdateId, scanVars>>
  PROVE  SameCatalog
  BY DEF SameCatalog, scanVars

LEMMA RendererTypesNext ==
  ASSUME ScanTypes, BrowseTypes, RendererTypes, NEW c \in Renderers, BookKept(c), ServeStep(c)
  PROVE  RendererTypes'
<1> USE DEF RendererTypes, result, renderer
<1>1. CASE \E o \in Containers : Browse(c, o)
  BY <1>1 DEF Browse
<1>2. CASE BrowseOn(c) \/ NoSuchObject(c) \/ Found(c) \/ QueryFails(c)
  BY <1>2 DEF BrowseOn, NoSuchObject, Found, QueryFails
<1>3. CASE ReadUpdateId(c)
  BY <1>3 DEF ReadUpdateId
<1>4. CASE CountRows(c)
  <2>1. object[c] \in Containers
    BY <1>4 DEF CountRows, Step, BookKept
  <2>2. Cardinality(Children(object[c])) \in Nat
    BY <2>1, RowsOf DEF RowsIn, Listing
  <2> QED BY <1>4, <2>2 DEF CountRows
<1>5. CASE SelectPage(c)
  BY <1>5 DEF SelectPage
<1>6. CASE CountChildren(c)
  BY <1>6 DEF CountChildren
<1>7. CASE ReadAlbumArt(c)
  BY <1>7 DEF ReadAlbumArt
<1>8. CASE ReadRenditions(c)
  BY <1>8 DEF ReadRenditions
<1>9. CASE AcceptPage(c)
  <2>1. Returned(c) \in Nat
    BY FS_CardinalityType DEF Returned, BookKept
  <2>2. updateId[c] \in Nat
    BY DEF BrowseTypes
  <2> QED BY <1>9, <2>1, <2>2 DEF AcceptPage
<1>10. CASE DropPages(c)
  BY <1>10 DEF DropPages
<1> QED BY <1>1, <1>2, <1>3, <1>4, <1>5, <1>6, <1>7, <1>8, <1>9, <1>10 DEF ServeStep

\* A listing starts with an empty page and ends at its last row.
LEMMA PageEndBounds ==
  ASSUME ScanTypes, RendererTypes, NEW c \in Renderers, object[c] \in Containers,
         start[c] <= RowsIn(c)
  PROVE  PageEnd(c) \in start[c]..RowsIn(c)
<1>1. RowsIn(c) \in Nat /\ start[c] \in Nat
  BY RowsOf DEF RendererTypes
<1> QED BY <1>1, PageAssumption DEF PageEnd

LEMMA FreshStart ==
  ASSUME ScanTypes, RendererTypes, NEW c \in Renderers, object[c] \in Containers,
         HeldPart(c), Fresh(c)
  PROVE  start[c] <= RowsIn(c)
<1>1. RowsIn(c) \in Nat
  BY RowsOf
<1> QED BY <1>1 DEF HeldPart, Fresh

\* The SELECT of the page answers rows start + 1 to the page's end.
LEMMA PageOfIs ==
  ASSUME ScanTypes, RendererTypes, NEW c \in Renderers, object[c] \in Containers,
         start[c] <= RowsIn(c)
  PROVE  /\ Len(PageOf(Children(object[c]), start[c], PageSize)) = PageEnd(c) - start[c]
         /\ \A i \in 1..(PageEnd(c) - start[c]) :
              PageOf(Children(object[c]), start[c], PageSize)[i] = Row(c, start[c] + i)
<1> DEFINE S == Children(object[c])
           L == Sorted(S)
           n == RowsIn(c)
           s == start[c]
           e == PageEnd(c)
<1>1. n \in Nat /\ s \in Nat /\ L \in [1..n -> S] /\ e \in s..n
  BY RowsOf, PageEndBounds DEF Listing, RendererTypes
<1>2. L \in Seq(S) /\ Len(L) = n
  BY <1>1
<1>3. PageOf(S, s, PageSize) = SubSeq(L, s + 1, e)
  BY <1>2 DEF PageOf, PageEnd
<1>4. \A i \in (s + 1)..e : L[i] \in S
  BY <1>1
<1>5. /\ Len(SubSeq(L, s + 1, e)) = IF s + 1 <= e THEN e - (s + 1) + 1 ELSE 0
      /\ \A i \in 1..(e - (s + 1) + 1) : SubSeq(L, s + 1, e)[i] = L[s + 1 + i - 1]
  <2>1. s + 1 \in Int /\ e \in Int
    BY <1>1
  <2> HIDE DEF S, L, s, e, n
  <2> QED BY <1>4, <2>1, SubSeqProperties
<1>6. Len(SubSeq(L, s + 1, e)) = e - s
  <2> HIDE DEF S, L, s, e, n
  <2> QED BY <1>1, <1>5
<1>7. \A i \in 1..(e - s) : SubSeq(L, s + 1, e)[i] = L[s + i]
  <2> HIDE DEF S, L, s, e, n
  <2> QED BY <1>1, <1>5
<1> QED BY <1>3, <1>6, <1>7 DEF Row, Listing

\* The head of the page is its next row; its tail is the page from there on.
LEMMA PageStep ==
  ASSUME NEW c, NEW m \in Nat, PageEnd(c) \in Nat, m <= PageEnd(c), PageFrom(c, m)
  PROVE  /\ page[c] = <<>> <=> m = PageEnd(c)
         /\ m < PageEnd(c) =>
              Head(page[c]) = PageRow(c, m + 1) /\ Tail(page[c]) = RowsFrom(c, m + 1)
<1> DEFINE n == PageEnd(c) - m
           S == {PageRow(c, m + i) : i \in 1..n}
<1>1. n \in Nat
  OBVIOUS
<1>2. page[c] \in [1..n -> S] /\ \A i \in 1..n : page[c][i] = PageRow(c, m + i)
  BY DEF PageFrom, RowsFrom
<1>3. page[c] \in Seq(S) /\ Len(page[c]) = n
  <2> HIDE DEF n, S
  <2> QED BY <1>1, <1>2
<1>4. page[c] = <<>> <=> n = 0
  <2> HIDE DEF n, S
  <2> QED BY <1>3, EmptySeq
<1>5. ASSUME n # 0
      PROVE  /\ Head(page[c]) = page[c][1]
             /\ Tail(page[c]) = [i \in 1..(n - 1) |-> page[c][i + 1]]
  <2> HIDE DEF n, S
  <2>1. page[c] # <<>>
    BY <1>4, <1>5
  <2>2. /\ Tail(page[c]) \in Seq(S) /\ Len(Tail(page[c])) = n - 1
        /\ \A i \in 1..(n - 1) : Tail(page[c])[i] = page[c][i + 1]
    BY <1>3, <2>1, HeadTailProperties
  <2>3. Tail(page[c]) \in [1..(n - 1) -> S]
    BY <2>2, LenProperties
  <2> QED BY <1>1, <1>3, <2>2, <2>3
<1>6. n # 0 => \A i \in 1..(n - 1) : page[c][i + 1] = PageRow(c, (m + 1) + i)
  <2> SUFFICES ASSUME n # 0, NEW i \in 1..(n - 1)
               PROVE  page[c][i + 1] = PageRow(c, (m + 1) + i)
    OBVIOUS
  <2>1. i + 1 \in 1..n /\ m + (i + 1) = (m + 1) + i
    BY <1>1
  <2> QED BY <1>2, <2>1
<1>7. n # 0 => page[c][1] = PageRow(c, m + 1)
  <2>1. n # 0 => 1 \in 1..n
    BY <1>1
  <2> QED BY <1>2, <2>1
<1>8. n - 1 = PageEnd(c) - (m + 1) /\ (m < PageEnd(c) <=> n # 0) /\ (m = PageEnd(c) <=> n = 0)
  OBVIOUS
<1>9. n # 0 => Tail(page[c]) = RowsFrom(c, m + 1)
  <2> HIDE DEF n, S
  <2> QED BY <1>5, <1>6, <1>8 DEF RowsFrom
<1> QED BY <1>4, <1>5, <1>7, <1>8, <1>9

\* One more row shown.
LEMMA ShownGrows ==
  ASSUME NEW c, NEW i \in Nat, NEW m \in Nat, i <= m
  PROVE  Shown(c, i + 1, m + 1) = Shown(c, i + 1, m) \cup {Entry(Row(c, m + 1))}
<1>1. (i + 1)..(m + 1) = ((i + 1)..m) \cup {m + 1}
  OBVIOUS
<1> QED BY <1>1 DEF Shown

LEMMA ShownJoins ==
  ASSUME NEW c, NEW i \in Nat, NEW m \in Nat, i <= m
  PROVE  Shown(c, 1, i) \cup Shown(c, i + 1, m) = Shown(c, 1, m)
<1>1. 1..m = (1..i) \cup ((i + 1)..m)
  OBVIOUS
<1> QED BY <1>1 DEF Shown

LEMMA ShownNone ==
  ASSUME NEW c, NEW i \in Nat
  PROVE  Shown(c, i + 1, i) = {}
<1>1. (i + 1)..i = {}
  OBVIOUS
<1> QED BY <1>1 DEF Shown

LEMMA PageFromNext ==
  ASSUME NEW c, NEW m, UNCHANGED rows, object'[c] = object[c], start'[c] = start[c],
         page'[c] = RowsFrom(c, m)
  PROVE  PageFrom(c, m)'
<1>1. /\ PageEnd(c)' = PageEnd(c)
      /\ \A k : Row(c, k)' = Row(c, k)
      /\ \A id : Title(id)' = Title(id)
  BY ShownKeeps, PageEndKeeps
<1>2. \A k : PageRow(c, k)' = PageRow(c, k)
  BY <1>1 DEF PageRow
<1>3. RowsFrom(c, m)' = RowsFrom(c, m)
  BY <1>1, <1>2 DEF RowsFrom
<1> QED BY <1>3 DEF PageFrom

\* The query per artist or album: its entry is complete.
LEMMA CountChildrenPage ==
  ASSUME ScanTypes, RendererTypes, NEW c \in Renderers, object[c] \in Containers,
         HeldPart(c), PagePart(c), SameCatalog, CountChildren(c), at'[c] = "detail"
  PROVE  PagePart(c)'
<1>1. /\ at[c] = "detail"
      /\ page[c] # <<>> /\ Len(Head(page[c]).id) < 3
      /\ page'[c] = Tail(page[c])
      /\ items'[c] = items[c] \cup
           {[id |-> Head(page[c]).id, title |-> Head(page[c]).title,
             childCount |-> ChildCount(Head(page[c]).id)]}
      /\ object' = object /\ start' = start /\ copyId' = copyId
      /\ updateId' = updateId /\ total' = total
  BY DEF CountChildren, Step, RendererTypes, renderer
<1>2. /\ RowsIn(c)' = RowsIn(c) /\ PageEnd(c)' = PageEnd(c)
      /\ \A k : Row(c, k)' = Row(c, k)
      /\ \A id : Title(id)' = Title(id)
      /\ \A i, j : Shown(c, i, j)' = Shown(c, i, j)
  BY <1>1, ShownKeeps, PageEndKeeps DEF SameCatalog
<1>3. Fresh(c)' => Fresh(c)
  BY <1>1 DEF Fresh, SameCatalog
<1>4. ASSUME Fresh(c)
      PROVE  /\ total[c] = RowsIn(c)
             /\ \E m \in start[c]..PageEnd(c) :
                  PageFrom(c, m)' /\ items'[c] = Shown(c, start[c] + 1, m)
  <2>1. PICK m \in start[c]..PageEnd(c) :
               PageFrom(c, m) /\ items[c] = Shown(c, start[c] + 1, m)
    BY <1>1, <1>4 DEF PagePart
  <2>2. start[c] \in Nat /\ PageEnd(c) \in start[c]..RowsIn(c) /\ RowsIn(c) \in Nat
    BY <1>4, FreshStart, PageEndBounds, RowsOf DEF RendererTypes
  <2>3. m \in Nat /\ m < PageEnd(c) /\ PageEnd(c) \in Nat /\ m + 1 \in start[c]..PageEnd(c)
    <3>1. m \in Nat /\ PageEnd(c) \in Nat /\ m <= PageEnd(c) /\ start[c] <= m
      BY <2>1, <2>2
    <3>2. m # PageEnd(c)
      BY <1>1, <2>1, <3>1, PageStep
    <3> QED BY <2>2, <3>1, <3>2
  <2>4. Head(page[c]) = PageRow(c, m + 1) /\ Tail(page[c]) = RowsFrom(c, m + 1)
    BY <2>1, <2>3, PageStep
  <2>5. PageFrom(c, m + 1)'
    BY <1>1, <2>4, PageFromNext DEF SameCatalog
  <2>6. Len(Row(c, m + 1)) < 3
    BY <1>1, <2>4 DEF PageRow
  <2>7. items'[c] = items[c] \cup {Entry(Row(c, m + 1))}
    BY <1>1, <2>4, <2>6 DEF Entry, PageRow
  <2>8. items'[c] = Shown(c, start[c] + 1, m + 1)
    BY <2>1, <2>2, <2>3, <2>7, ShownGrows
  <2>9. total[c] = RowsIn(c)
    BY <1>1, <1>4 DEF PagePart
  <2> QED BY <2>3, <2>5, <2>8, <2>9
<1> QED BY <1>1, <1>2, <1>3, <1>4 DEF PagePart

\* The first query for a track: its resources are still to come.
LEMMA ReadAlbumArtPage ==
  ASSUME ScanTypes, RendererTypes, NEW c \in Renderers, object[c] \in Containers,
         HeldPart(c), PagePart(c), SameCatalog, ReadAlbumArt(c), at'[c] = "resources"
  PROVE  PagePart(c)'
<1>1. /\ at[c] = "detail"
      /\ page[c] # <<>> /\ Len(Head(page[c]).id) = 3
      /\ page'[c] = page[c]
      /\ items'[c] = items[c] \cup
           {[id |-> Head(page[c]).id, title |-> Head(page[c]).title,
             art |-> HasArt(Head(page[c]).id), resources |-> None]}
      /\ object' = object /\ start' = start /\ copyId' = copyId
      /\ updateId' = updateId /\ total' = total
  BY DEF ReadAlbumArt, Step, RendererTypes, renderer
<1>2. /\ RowsIn(c)' = RowsIn(c) /\ PageEnd(c)' = PageEnd(c)
      /\ \A k : Row(c, k)' = Row(c, k)
      /\ \A id : Title(id)' = Title(id)
      /\ \A id : HasArt(id)' = HasArt(id)
      /\ \A i, j : Shown(c, i, j)' = Shown(c, i, j)
  BY <1>1, ShownKeeps, PageEndKeeps DEF SameCatalog
<1>3. Fresh(c)' => Fresh(c)
  BY <1>1 DEF Fresh, SameCatalog
<1>4. ASSUME Fresh(c)
      PROVE  /\ total[c] = RowsIn(c)
             /\ \E m \in start[c]..(PageEnd(c) - 1) :
                  /\ PageFrom(c, m)' /\ Len(Row(c, m + 1)) = 3
                  /\ items'[c] = Shown(c, start[c] + 1, m) \cup
                       {[id |-> Row(c, m + 1), title |-> Title(Row(c, m + 1)),
                         art |-> HasArt(Row(c, m + 1)), resources |-> None]}
  <2>1. PICK m \in start[c]..PageEnd(c) :
               PageFrom(c, m) /\ items[c] = Shown(c, start[c] + 1, m)
    BY <1>1, <1>4 DEF PagePart
  <2>2. start[c] \in Nat /\ PageEnd(c) \in start[c]..RowsIn(c) /\ RowsIn(c) \in Nat
    BY <1>4, FreshStart, PageEndBounds, RowsOf DEF RendererTypes
  <2>3. m \in Nat /\ m < PageEnd(c) /\ PageEnd(c) \in Nat /\ m \in start[c]..(PageEnd(c) - 1)
    <3>1. m \in Nat /\ PageEnd(c) \in Nat /\ m <= PageEnd(c) /\ start[c] <= m
      BY <2>1, <2>2
    <3>2. m # PageEnd(c)
      BY <1>1, <2>1, <3>1, PageStep
    <3> QED BY <2>2, <3>1, <3>2
  <2>4. Head(page[c]) = PageRow(c, m + 1)
    BY <2>1, <2>3, PageStep
  <2>5. PageFrom(c, m)'
    <3>1. page'[c] = RowsFrom(c, m)
      BY <1>1, <2>1 DEF PageFrom
    <3> QED BY <1>1, <3>1, PageFromNext DEF SameCatalog
  <2>6. Len(Row(c, m + 1)) = 3
    BY <1>1, <2>4 DEF PageRow
  <2>7. items'[c] = Shown(c, start[c] + 1, m) \cup
          {[id |-> Row(c, m + 1), title |-> Title(Row(c, m + 1)),
            art |-> HasArt(Row(c, m + 1)), resources |-> None]}
    BY <1>1, <2>1, <2>4 DEF PageRow
  <2>8. total[c] = RowsIn(c)
    BY <1>1, <1>4 DEF PagePart
  <2> QED BY <2>3, <2>5, <2>6, <2>7, <2>8
<1> QED BY <1>1, <1>2, <1>3, <1>4 DEF PagePart

\* The second query completes the track's entry, and no other: no other entry
\* of the page has its id.
LEMMA ReadRenditionsPage ==
  ASSUME ScanTypes, RendererTypes, NEW c \in Renderers, object[c] \in Containers,
         HeldPart(c), PagePart(c), SameCatalog, ReadRenditions(c), at'[c] = "detail"
  PROVE  PagePart(c)'
<1>1. /\ at[c] = "resources"
      /\ page'[c] = Tail(page[c])
      /\ items'[c] = {IF i.id = Head(page[c]).id
                      THEN [i EXCEPT !.resources = RenditionsOf(i.id)] ELSE i : i \in items[c]}
      /\ object' = object /\ start' = start /\ copyId' = copyId
      /\ updateId' = updateId /\ total' = total
  BY DEF ReadRenditions, Step, RendererTypes, renderer
<1>2. /\ RowsIn(c)' = RowsIn(c) /\ PageEnd(c)' = PageEnd(c)
      /\ \A k : Row(c, k)' = Row(c, k)
      /\ \A id : Title(id)' = Title(id)
      /\ \A i, j : Shown(c, i, j)' = Shown(c, i, j)
  BY <1>1, ShownKeeps, PageEndKeeps DEF SameCatalog
<1>3. Fresh(c)' => Fresh(c)
  BY <1>1 DEF Fresh, SameCatalog
<1>4. ASSUME Fresh(c)
      PROVE  /\ total[c] = RowsIn(c)
             /\ \E m \in start[c]..PageEnd(c) :
                  PageFrom(c, m)' /\ items'[c] = Shown(c, start[c] + 1, m)
  <2> DEFINE bare(m) == [id |-> Row(c, m + 1), title |-> Title(Row(c, m + 1)),
                         art |-> HasArt(Row(c, m + 1)), resources |-> None]
  <2>1. PICK m \in start[c]..(PageEnd(c) - 1) :
               /\ PageFrom(c, m) /\ Len(Row(c, m + 1)) = 3
               /\ items[c] = Shown(c, start[c] + 1, m) \cup {bare(m)}
    BY <1>1, <1>4 DEF PagePart
  <2>2. start[c] \in Nat /\ PageEnd(c) \in start[c]..RowsIn(c) /\ RowsIn(c) \in Nat
    BY <1>4, FreshStart, PageEndBounds, RowsOf DEF RendererTypes
  <2>3. /\ m \in Nat /\ m < PageEnd(c) /\ PageEnd(c) \in Nat
        /\ m + 1 \in start[c]..PageEnd(c) /\ m + 1 \in 1..RowsIn(c) /\ start[c] <= m
    BY <2>1, <2>2
  <2>4. Head(page[c]) = PageRow(c, m + 1) /\ Tail(page[c]) = RowsFrom(c, m + 1)
    BY <2>1, <2>3, PageStep
  <2>5. PageFrom(c, m + 1)'
    BY <1>1, <2>4, PageFromNext DEF SameCatalog
  <2>6. \A i \in Shown(c, start[c] + 1, m) : i.id # Row(c, m + 1)
    <3> SUFFICES ASSUME NEW k \in (start[c] + 1)..m PROVE Entry(Row(c, k)).id # Row(c, m + 1)
      BY DEF Shown
    <3>1. k \in 1..RowsIn(c) /\ k # m + 1
      BY <2>2, <2>3
    <3>2. Row(c, k) # Row(c, m + 1)
      BY <2>3, <3>1, RowsOf
    <3> QED BY <3>2, EntryId
  <2>7. /\ bare(m).id = Row(c, m + 1)
        /\ [bare(m) EXCEPT !.resources = RenditionsOf(bare(m).id)] = Entry(Row(c, m + 1))
    BY <2>1 DEF Entry
  <2>8. Head(page[c]).id = Row(c, m + 1)
    BY <2>4 DEF PageRow
  <2>9. items'[c] = Shown(c, start[c] + 1, m) \cup {Entry(Row(c, m + 1))}
    <3> HIDE DEF bare
    <3> QED BY <1>1, <2>1, <2>6, <2>7, <2>8
  <2>10. items'[c] = Shown(c, start[c] + 1, m + 1)
    BY <2>2, <2>3, <2>9, ShownGrows
  <2>11. total[c] = RowsIn(c)
    BY <1>1, <1>4 DEF PagePart
  <2> QED BY <2>3, <2>5, <2>10, <2>11
<1> QED BY <1>1, <1>2, <1>3, <1>4 DEF PagePart

\* The page is selected: none of its rows is turned into an object yet.
LEMMA SelectPagePage ==
  ASSUME ScanTypes, RendererTypes, NEW c \in Renderers, object[c] \in Containers,
         BookKept(c), HeldPart(c), PagePart(c), SameCatalog, SelectPage(c), at'[c] = "detail"
  PROVE  PagePart(c)'
<1>1. /\ at[c] = "select"
      /\ page'[c] = [i \in 1..Len(PageOf(Children(object[c]), start[c], PageSize)) |->
           [id |-> PageOf(Children(object[c]), start[c], PageSize)[i],
            title |-> Title(PageOf(Children(object[c]), start[c], PageSize)[i])]]
      /\ items' = items
      /\ object' = object /\ start' = start /\ copyId' = copyId
      /\ updateId' = updateId /\ total' = total
  BY DEF SelectPage, Step, RendererTypes, renderer
<1>2. /\ RowsIn(c)' = RowsIn(c) /\ PageEnd(c)' = PageEnd(c)
      /\ \A k : Row(c, k)' = Row(c, k)
      /\ \A id : Title(id)' = Title(id)
      /\ \A i, j : Shown(c, i, j)' = Shown(c, i, j)
  BY <1>1, ShownKeeps, PageEndKeeps DEF SameCatalog
<1>3. Fresh(c)' => Fresh(c)
  BY <1>1 DEF Fresh, SameCatalog
<1>4. ASSUME Fresh(c)
      PROVE  /\ total[c] = RowsIn(c)
             /\ start[c] \in start[c]..PageEnd(c)
             /\ PageFrom(c, start[c])'
             /\ items[c] = Shown(c, start[c] + 1, start[c])
  <2>1. start[c] <= RowsIn(c)
    BY <1>4, FreshStart
  <2>2. start[c] \in Nat /\ PageEnd(c) \in start[c]..RowsIn(c) /\ RowsIn(c) \in Nat
    BY <2>1, PageEndBounds, RowsOf DEF RendererTypes
  <2>3. page'[c] = RowsFrom(c, start[c])
    BY <1>1, <2>1, PageOfIs DEF RowsFrom, PageRow
  <2>4. PageFrom(c, start[c])'
    BY <1>1, <2>3, PageFromNext DEF SameCatalog
  <2>5. items[c] = {}
    BY <1>1 DEF BookKept
  <2>6. total[c] = RowsIn(c)
    BY <1>1, <1>4 DEF PagePart
  <2> QED BY <2>2, <2>4, <2>5, <2>6, ShownNone
<1> QED BY <1>1, <1>2, <1>3, <1>4 DEF PagePart

\* The renderer takes the page: it now has the container up to the page's end.
LEMMA AcceptPageHeld ==
  ASSUME ScanTypes, BrowseTypes, RendererTypes, NEW c \in Renderers, object[c] \in Containers,
         BookKept(c), HeldPart(c), PagePart(c), SameCatalog, AcceptPage(c)
  PROVE  HeldPart(c)'
<1>1. /\ at[c] = "detail" /\ page[c] = <<>>
      /\ start[c] = 0 \/ updateId[c] = copyId[c]
      /\ start'[c] = start[c] + Returned(c)
      /\ copy'[c] = copy[c] \cup items[c]
      /\ copyId'[c] = updateId[c]
      /\ complete'[c] = (start[c] + Returned(c) >= total[c])
      /\ object' = object
  BY DEF AcceptPage, Step, RendererTypes
<1>2. /\ RowsIn(c)' = RowsIn(c)
      /\ \A i, j : Shown(c, i, j)' = Shown(c, i, j)
  BY <1>1, ShownKeeps DEF SameCatalog
<1> SUFFICES ASSUME updateId[c] = systemUpdateId, ~ unannounced
             PROVE  /\ start'[c] <= RowsIn(c)
                    /\ copy'[c] = Shown(c, 1, start'[c])
                    /\ complete'[c] => start'[c] = RowsIn(c)
  BY <1>1, <1>2 DEF HeldPart, SameCatalog
<1>3. Fresh(c)
  BY <1>1 DEF Fresh
<1>4. /\ start[c] \in Nat /\ PageEnd(c) \in start[c]..RowsIn(c) /\ RowsIn(c) \in Nat
      /\ total[c] = RowsIn(c)
  BY <1>1, <1>3, FreshStart, PageEndBounds, RowsOf DEF RendererTypes, PagePart
<1>5. PICK m \in start[c]..PageEnd(c) :
             PageFrom(c, m) /\ items[c] = Shown(c, start[c] + 1, m)
  BY <1>1, <1>3 DEF PagePart
<1>6. m = PageEnd(c)
  <2>1. m \in Nat /\ PageEnd(c) \in Nat /\ m <= PageEnd(c)
    BY <1>4, <1>5
  <2> QED BY <1>1, <1>5, <2>1, PageStep
<1>7. Returned(c) = PageEnd(c) - start[c]
  BY <1>4, <1>5, <1>6, ShownCount DEF Returned
<1>8. start'[c] = PageEnd(c)
  BY <1>1, <1>4, <1>7
<1>9. copy[c] = Shown(c, 1, start[c])
  <2>1. CASE start[c] = 0
    <3>1. copy[c] = {}
      BY <2>1 DEF BookKept
    <3>2. Shown(c, 0 + 1, 0) = {}
      BY ShownNone
    <3> QED BY <2>1, <3>1, <3>2
  <2>2. CASE updateId[c] = copyId[c]
    BY <2>2 DEF HeldPart
  <2> QED BY <1>1, <2>1, <2>2
<1>10. copy'[c] = Shown(c, 1, PageEnd(c))
  <2>1. PageEnd(c) \in Nat /\ start[c] <= PageEnd(c)
    BY <1>4
  <2> QED BY <1>1, <1>4, <1>5, <1>6, <1>9, <2>1, ShownJoins
<1>11. complete'[c] => PageEnd(c) = RowsIn(c)
  <2> SUFFICES ASSUME complete'[c] PROVE PageEnd(c) = RowsIn(c)
    OBVIOUS
  <2>1. start[c] + Returned(c) >= total[c]
    BY <1>1, Zenon
  <2> QED BY <1>4, <1>7, <2>1
<1> QED BY <1>4, <1>8, <1>10, <1>11

LEMMA ActorNext ==
  ASSUME ScanTypes, BrowseTypes, RendererTypes, NEW c \in Renderers, ServeStep(c), SameCatalog,
         BookKept(c), HeldPart(c), PagePart(c)
  PROVE  BookKept(c)' /\ HeldPart(c)' /\ PagePart(c)'
<1>0. /\ systemUpdateId \in Nat \ {0} /\ systemUpdateId' = systemUpdateId
      /\ updateId[c] \in Nat /\ updateId[c] <= systemUpdateId
      /\ copyId[c] \in Nat /\ copyId[c] <= systemUpdateId /\ start[c] \in Nat
  BY BoundsAssumption DEF ScanTypes, BrowseTypes, RendererTypes, BookKept, SameCatalog
<1>a. ASSUME at'[c] \notin {"select", "detail", "resources"} PROVE PagePart(c)'
  BY <1>a DEF PagePart
<1>1. CASE \E o \in Containers : Browse(c, o)
  <2> PICK o \in Containers : Browse(c, o)
    BY <1>1
  <2>1. /\ at'[c] = "exists" /\ object'[c] = o /\ start'[c] = 0 /\ copy'[c] = {}
        /\ copyId'[c] = 0 /\ items' = items
    BY DEF Browse, Step, result, RendererTypes, BrowseTypes
  <2>2. BookKept(c)'
    BY <1>0, <2>1 DEF BookKept
  <2>3. HeldPart(c)'
    BY <1>0, <2>1 DEF HeldPart
  <2> QED BY <1>a, <2>1, <2>2, <2>3
<1>2. CASE BrowseOn(c) \/ NoSuchObject(c) \/ Found(c) \/ QueryFails(c)
  <2>1. /\ at'[c] \in {"exists", "idle", "id"}
        /\ at[c] # "idle" \/ start[c] # 0
        /\ SameHold(c) /\ items'[c] = items[c]
    <3>1. CASE BrowseOn(c)
      BY <1>0, <3>1 DEF BrowseOn, Step, result, renderer, BrowseTypes, SameHold
    <3>2. CASE NoSuchObject(c) \/ Found(c) \/ QueryFails(c)
      BY <3>2 DEF NoSuchObject, Found, QueryFails, Step, result, renderer, BrowseTypes, SameHold
    <3> QED BY <1>2, <3>1, <3>2
  <2>2. BookKept(c)'
    BY <1>0, <2>1 DEF BookKept, SameHold
  <2>3. HeldPart(c)'
    BY <2>1, HoldKeeps
  <2> QED BY <1>a, <2>1, <2>2, <2>3
<1>3. CASE ReadUpdateId(c)
  <2>1. at[c] = "id" /\ at'[c] = "count" /\ SameHold(c) /\ items'[c] = {}
    BY <1>3 DEF ReadUpdateId, Step, renderer, RendererTypes, BrowseTypes, SameHold
  <2>2. BookKept(c)'
    BY <1>0, <2>1, FS_EmptySet DEF BookKept, SameHold
  <2>3. HeldPart(c)'
    BY <2>1, HoldKeeps
  <2> QED BY <1>a, <2>1, <2>2, <2>3
<1>4. CASE CountRows(c)
  <2>1. /\ at[c] = "count" /\ at'[c] = "select" /\ SameHold(c) /\ items'[c] = items[c]
        /\ total'[c] = RowsIn(c)
    BY <1>4 DEF CountRows, Step, renderer, RendererTypes, BrowseTypes, SameHold, RowsIn, Listing
  <2>2. BookKept(c)'
    BY <1>0, <2>1 DEF BookKept, SameHold
  <2>3. HeldPart(c)'
    BY <2>1, HoldKeeps
  <2>4. RowsIn(c)' = RowsIn(c)
    BY <2>1, ShownKeeps DEF SameHold, SameCatalog
  <2>5. PagePart(c)'
    BY <2>1, <2>4 DEF PagePart
  <2> QED BY <2>2, <2>3, <2>5
<1>5. CASE SelectPage(c)
  <2>1. at[c] = "select" /\ at'[c] = "detail" /\ SameHold(c) /\ items'[c] = items[c]
    BY <1>5 DEF SelectPage, Step, renderer, BrowseTypes, SameHold
  <2>2. BookKept(c)'
    BY <1>0, <2>1 DEF BookKept, SameHold
  <2>3. HeldPart(c)'
    BY <2>1, HoldKeeps
  <2>4. object[c] \in Containers
    BY <2>1 DEF BookKept
  <2> QED BY <1>5, <2>1, <2>2, <2>3, <2>4, SelectPagePage
<1>6. CASE CountChildren(c)
  <2>1. /\ at[c] = "detail" /\ at'[c] = "detail" /\ SameHold(c)
        /\ \E i : items'[c] = items[c] \cup {i}
    <3>1. at[c] = "detail" /\ at'[c] = "detail" /\ SameHold(c)
      BY <1>6 DEF CountChildren, Step, renderer, BrowseTypes, SameHold
    <3>2. items'[c] = items[c] \cup
            {[id |-> Head(page[c]).id, title |-> Head(page[c]).title,
              childCount |-> ChildCount(Head(page[c]).id)]}
      BY <1>6 DEF CountChildren, RendererTypes
    <3> QED BY <3>1, <3>2
  <2>2. IsFiniteSet(items'[c])
    <3>1. IsFiniteSet(items[c])
      BY DEF BookKept
    <3> QED BY <2>1, <3>1, FS_AddElement
  <2>3. BookKept(c)'
    BY <1>0, <2>1, <2>2 DEF BookKept, SameHold
  <2>4. HeldPart(c)'
    BY <2>1, HoldKeeps
  <2>5. object[c] \in Containers
    BY <2>1 DEF BookKept
  <2> QED BY <1>6, <2>1, <2>3, <2>4, <2>5, CountChildrenPage
<1>7. CASE ReadAlbumArt(c)
  <2>1. /\ at[c] = "detail" /\ at'[c] = "resources" /\ SameHold(c)
        /\ \E i : items'[c] = items[c] \cup {i}
    BY <1>7 DEF ReadAlbumArt, Step, renderer, RendererTypes, BrowseTypes, SameHold
  <2>2. IsFiniteSet(items'[c])
    <3>1. IsFiniteSet(items[c])
      BY DEF BookKept
    <3> QED BY <2>1, <3>1, FS_AddElement
  <2>3. BookKept(c)'
    BY <1>0, <2>1, <2>2 DEF BookKept, SameHold
  <2>4. HeldPart(c)'
    BY <2>1, HoldKeeps
  <2>5. object[c] \in Containers
    BY <2>1 DEF BookKept
  <2> QED BY <1>7, <2>1, <2>3, <2>4, <2>5, ReadAlbumArtPage
<1>8. CASE ReadRenditions(c)
  <2> DEFINE done(i) == IF i.id = Head(page[c]).id
                        THEN [i EXCEPT !.resources = RenditionsOf(i.id)] ELSE i
  <2>1. /\ at[c] = "resources" /\ at'[c] = "detail" /\ SameHold(c)
        /\ items'[c] = {done(i) : i \in items[c]}
    BY <1>8 DEF ReadRenditions, Step, renderer, RendererTypes, BrowseTypes, SameHold
  <2>2. IsFiniteSet(items'[c])
    <3>1. [i \in items[c] |-> done(i)] \in Surjection(items[c], {done(i) : i \in items[c]})
      <4> HIDE DEF done
      <4> QED BY DEF Surjection
    <3> HIDE DEF done
    <3>2. IsFiniteSet(items[c])
      BY DEF BookKept
    <3> QED BY <2>1, <3>1, <3>2, FS_Surjection
  <2>3. BookKept(c)'
    BY <1>0, <2>1, <2>2 DEF BookKept, SameHold
  <2>4. HeldPart(c)'
    BY <2>1, HoldKeeps
  <2>5. object[c] \in Containers
    BY <2>1 DEF BookKept
  <2> QED BY <1>8, <2>1, <2>3, <2>4, <2>5, ReadRenditionsPage
<1>9. CASE AcceptPage(c)
  <2>1. /\ at[c] = "detail" /\ at'[c] = "idle" /\ object' = object /\ items' = items
        /\ start'[c] = start[c] + Returned(c)
        /\ copy'[c] = copy[c] \cup items[c] /\ copyId'[c] = updateId[c]
    BY <1>9 DEF AcceptPage, Step, result, RendererTypes, BrowseTypes
  <2>2. object[c] \in Containers /\ IsFiniteSet(items[c])
    BY <2>1 DEF BookKept
  <2>3. Returned(c) \in Nat /\ (Returned(c) = 0 => items[c] = {})
    BY <2>2, FS_CardinalityType, FS_EmptySet DEF Returned
  <2>4. start'[c] = 0 => copy'[c] = {}
    <3> SUFFICES ASSUME start'[c] = 0 PROVE copy'[c] = {}
      OBVIOUS
    <3>1. start[c] = 0 /\ Returned(c) = 0
      BY <1>0, <2>1, <2>3
    <3> QED BY <2>1, <2>3, <3>1 DEF BookKept
  <2>5. BookKept(c)'
    BY <1>0, <2>1, <2>2, <2>4 DEF BookKept
  <2>6. HeldPart(c)'
    BY <1>9, <2>2, AcceptPageHeld
  <2> QED BY <1>a, <2>1, <2>5, <2>6
<1>10. CASE DropPages(c)
  <2>1. /\ at[c] = "detail" /\ at'[c] = "idle" /\ object' = object /\ items' = items
        /\ start'[c] = 0 /\ copy'[c] = {} /\ copyId'[c] = 0
    BY <1>10 DEF DropPages, Step, result, RendererTypes, BrowseTypes
  <2>2. BookKept(c)'
    BY <1>0, <2>1 DEF BookKept
  <2>3. HeldPart(c)'
    BY <1>0, <2>1 DEF HeldPart
  <2> QED BY <1>a, <2>1, <2>2, <2>3
<1> QED BY <1>1, <1>2, <1>3, <1>4, <1>5, <1>6, <1>7, <1>8, <1>9, <1>10 DEF ServeStep

\* Whoever steps, every renderer's book is kept.
LEMMA CopyNext ==
  ASSUME ScanTypes, BrowseTypes, CopyInv, [Next]_vars
  PROVE  CopyInv'
<1>1. CASE UNCHANGED browseVars
  <2>1. RendererTypes'
    BY <1>1 DEF CopyInv, RendererTypes, browseVars, result, renderer
  <2>2. ASSUME NEW c \in Renderers
        PROVE  BookKept(c)' /\ HeldPart(c)' /\ PagePart(c)'
    <3>1. at'[c] = at[c] /\ SameHold(c) /\ SameResult(c) /\ copyId[c] \in Nat
      BY <1>1 DEF CopyInv, RendererTypes, browseVars, result, renderer, SameHold, SameResult
    <3> QED BY <3>1, Bystander DEF CopyInv
  <2> QED BY <2>1, <2>2 DEF CopyInv
<1>2. ASSUME NEW c \in Renderers, ServeStep(c), UNCHANGED <<rows, systemUpdateId, scanVars>>
      PROVE  CopyInv'
  <2>1. RendererTypes'
    BY <1>2, RendererTypesNext DEF CopyInv
  <2>2. BookKept(c)' /\ HeldPart(c)' /\ PagePart(c)'
    BY <1>2, ServeKeepsCatalog, ActorNext DEF CopyInv
  <2>3. ASSUME NEW d \in Renderers, d # c
        PROVE  BookKept(d)' /\ HeldPart(d)' /\ PagePart(d)'
    <3>1. at'[d] = at[d] /\ SameHold(d) /\ SameResult(d)
      BY <1>2, <2>3, OthersStay DEF CopyInv
    <3>2. copyId[d] \in Nat
      BY DEF CopyInv, RendererTypes
    <3> QED BY <3>1, <3>2, Bystander DEF CopyInv
  <2> QED BY <2>1, <2>2, <2>3 DEF CopyInv
<1>3. \/ UNCHANGED browseVars
      \/ (\E c \in Renderers : ServeStep(c)) /\ UNCHANGED <<rows, systemUpdateId, scanVars>>
  BY DEF Next, Serve, ServeStep, vars
<1> QED BY <1>1, <1>2, <1>3

\* A renderer that has paged through a container, and still sees the UpdateID
\* its pages came with while nothing is unannounced, has the container as it
\* is: for every number of renderers, pages, page sizes, passes and faults.
THEOREM CopiesAreCurrent == Spec => []CurrentCopy
<1>1. Init => CopyInv
  <2> SUFFICES ASSUME Init PROVE CopyInv
    OBVIOUS
  <2> USE DEF Init, CatalogInit, ScannerInit, BrowseInit
  <2>1. RendererTypes
    BY DEF RendererTypes
  <2>2. ASSUME NEW c \in Renderers PROVE BookKept(c) /\ HeldPart(c) /\ PagePart(c)
    <3>1. BookKept(c)
      BY FS_EmptySet DEF BookKept
    <3>2. HeldPart(c)
      BY DEF HeldPart
    <3>3. PagePart(c)
      BY DEF PagePart
    <3> QED BY <3>1, <3>2, <3>3
  <2> QED BY <2>1, <2>2 DEF CopyInv
<1>2. ASSUME LinkedInv, CopyInv, [Next]_vars PROVE CopyInv'
  BY <1>2, CopyNext DEF LinkedInv
<1>3. LinkedInv /\ CopyInv => CurrentCopy
  <2> SUFFICES ASSUME LinkedInv, CopyInv, NEW c \in Renderers,
                      complete[c], copyId[c] = systemUpdateId, ~ unannounced
               PROVE  copy[c] = Contents(object[c])
    BY DEF CurrentCopy
  <2>1. copy[c] = Shown(c, 1, RowsIn(c))
    BY DEF CopyInv, HeldPart
  <2>2. object[c] \in Containers
    BY BoundsAssumption DEF CopyInv, BookKept, LinkedInv, ScanTypes
  <2> QED BY <2>1, <2>2, ShownAll DEF LinkedInv
<1> QED BY LinkedAlways, <1>1, <1>2, <1>3, PTL DEF Spec
=============================================================================
