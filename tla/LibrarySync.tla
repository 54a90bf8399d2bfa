----------------------------- MODULE LibrarySync -----------------------------
(***************************************************************************)
(* The worker and the DLNA server around one catalog: passes of the        *)
(* scanner, edits of the media tree and Browse requests interleave at      *)
(* every SQL statement.                                                    *)
(***************************************************************************)
EXTENDS MediaScanner, ContentDirectory

vars == <<rows, systemUpdateId, scanVars, browseVars>>

Init == CatalogInit /\ ScannerInit /\ BrowseInit

Next ==
  \/ Scan /\ UNCHANGED browseVars
  \/ EditTree /\ UNCHANGED browseVars
  \/ Serve /\ UNCHANGED <<rows, systemUpdateId, scanVars>>

Spec == Init /\ [][Next]_vars

-----------------------------------------------------------------------------

TypeOK ==
  /\ library \in [Files -> {0} \cup Versions]
  /\ covers \subseteq Dirs
  /\ DOMAIN artists \subseteq {ArtistId(f) : f \in Files}
  /\ DOMAIN albums \subseteq {AlbumId(f) : f \in Files}
  /\ DOMAIN tracks \subseteq {TrackId(f) : f \in Files}
  /\ DOMAIN renditions \subseteq {RenditionId(f) : f \in Files}
  /\ systemUpdateId \in 1..(MaxPasses + 1)
  /\ todo \subseteq Files
  /\ pc \in {"idle", "walk", "artist", "album", "track", "rendition", "bump"}
  /\ \A c \in Renderers :
       /\ at[c] \in {"idle", "exists", "id", "count", "select", "detail", "resources"}
       /\ updateId[c] \in 0..systemUpdateId

\* What there is now, in the form Browse answers it: of a row, of a container.
Entry(id) ==
  IF Len(id) < 3
  THEN [id |-> id, title |-> Title(id), childCount |-> ChildCount(id)]
  ELSE [id |-> id, title |-> Title(id), art |-> HasArt(id), resources |-> RenditionsOf(id)]

Contents(o) == {Entry(id) : id \in Children(o)}

\* A renderer that has paged through a container and still sees the UpdateID
\* its pages came with has the container as it is, however the pages and their
\* queries fell between the worker's writes: the id is read before the rows
\* and bumped after them.  While rows are written but not yet announced there
\* is no such promise.
CurrentCopy ==
  \A c \in Renderers :
    complete[c] /\ copyId[c] = systemUpdateId /\ ~ unannounced =>
      copy[c] = Contents(object[c])
=============================================================================
