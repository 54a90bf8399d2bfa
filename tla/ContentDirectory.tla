-------------------------- MODULE ContentDirectory --------------------------
(***************************************************************************)
(* handle_browse for the children of a container, as a thread of the DLNA  *)
(* server runs it: the update id first, then the page, then queries of its *)
(* own for each row, with no transaction around them; the worker may write *)
(* between any two.  The renderers are modelled from the ContentDirectory  *)
(* contract the responses serve: they page through a container and keep    *)
(* the result for as long as the system update id does not change.         *)
(***************************************************************************)
EXTENDS Catalog

CONSTANTS
  Renderers,
  Containers, \* what renderers browse: <<"tracks">>, <<"artists">>,
              \* <<"artist_albums", artist id>>, <<"album", album id>>
  PageSize    \* RequestedCount

ASSUME ContainersAssumption ==
  \A o \in Containers : o[1] \in {"tracks", "artists", "artist_albums", "album"}
ASSUME PageAssumption == PageSize \in Nat \ {0}

VARIABLES
  at,       \* where the thread serving each renderer is: "idle" if none
  object,   \* the container it browses
  updateId, \* BrowseResult.update_id
  total,    \* BrowseResult.total_matches
  page,     \* ids of the page, those still to be turned into DIDL first
  items,    \* the DIDL objects built so far
  start,    \* StartingIndex: rows the renderer has of the container
  copy,     \* the objects it has
  copyId,   \* the UpdateID they came with
  complete  \* it has reached TotalMatches

result     == <<updateId, total, page, items>>
renderer   == <<start, copy, copyId, complete>>
browseVars == <<at, object, result, renderer>>

BrowseInit ==
  /\ at = [c \in Renderers |-> "idle"]
  /\ object = [c \in Renderers |-> None]
  /\ updateId = [c \in Renderers |-> 0]
  /\ total = [c \in Renderers |-> 0]
  /\ page = [c \in Renderers |-> <<>>]
  /\ items = [c \in Renderers |-> {}]
  /\ start = [c \in Renderers |-> 0]
  /\ copy = [c \in Renderers |-> {}]
  /\ copyId = [c \in Renderers |-> 0]
  /\ complete = [c \in Renderers |-> FALSE]

Step(c, from, to) ==
  /\ at[c] = from
  /\ at' = [at EXCEPT ![c] = to]

\* Ids of the rows a container lists.
Children(o) ==
  CASE o[1] = "tracks"        -> DOMAIN tracks
    [] o[1] = "artists"       -> DOMAIN artists
    [] o[1] = "artist_albums" -> AlbumsOfArtist(o[2])
    [] o[1] = "album"         -> TracksOfAlbum(o[2])

Exists(o) ==
  CASE o[1] = "artist_albums" -> o[2] \in DOMAIN artists
    [] o[1] = "album"         -> o[2] \in DOMAIN albums
    [] OTHER                  -> TRUE

Title(id) ==
  IF Len(id) = 1 THEN artists[id]
  ELSE IF Len(id) = 2 THEN albums[id].title ELSE tracks[id]

HasArt(id) == AlbumOf(id) \in DOMAIN albums /\ albums[AlbumOf(id)].cover # None

\* childCount of an artist or an album.
ChildCount(id) ==
  Cardinality(IF Len(id) = 1 THEN AlbumsOfArtist(id) ELSE TracksOfAlbum(id))

-----------------------------------------------------------------------------
(* The server.                                                             *)

\* The renderer asks for a container from its first row on.
Browse(c, o) ==
  /\ Step(c, "idle", "exists")
  /\ object' = [object EXCEPT ![c] = o]
  /\ start' = [start EXCEPT ![c] = 0]
  /\ copy' = [copy EXCEPT ![c] = {}]
  /\ complete' = [complete EXCEPT ![c] = FALSE]
  /\ copyId' = [copyId EXCEPT ![c] = 0]
  /\ UNCHANGED result

\* It has a first part and asks for the next page.
BrowseOn(c) ==
  /\ start[c] > 0 /\ ~ complete[c]
  /\ Step(c, "idle", "exists")
  /\ UNCHANGED <<object, result, renderer>>

\* browse_direct_children: an artist or album that is not there is a fault.
NoSuchObject(c) ==
  /\ Step(c, "exists", "idle")
  /\ ~ Exists(object[c])
  /\ UNCHANGED <<object, result, renderer>>

Found(c) ==
  /\ Step(c, "exists", "id")
  /\ Exists(object[c])
  /\ UNCHANGED <<object, result, renderer>>

ReadUpdateId(c) ==
  /\ Step(c, "id", "count")
  /\ updateId' = [updateId EXCEPT ![c] = systemUpdateId]
  /\ items' = [items EXCEPT ![c] = {}]
  /\ UNCHANGED <<object, total, page, renderer>>

\* SELECT COUNT(*) of the listing.
CountRows(c) ==
  /\ Step(c, "count", "select")
  /\ total' = [total EXCEPT ![c] = Cardinality(Children(object[c]))]
  /\ UNCHANGED <<object, updateId, page, items, renderer>>

SelectPageThenId(c) == \* mutant: system_update_id is read after the rows
  /\ Step(c, "select", "detail")
  /\ page' = [page EXCEPT ![c] =
                [i \in 1..Len(PageOf(Children(object[c]), start[c], PageSize)) |->
                   LET id == PageOf(Children(object[c]), start[c], PageSize)[i] IN
                   [id |-> id, title |-> Title(id)]]]
  /\ updateId' = [updateId EXCEPT ![c] = systemUpdateId]
  /\ UNCHANGED <<object, total, items, renderer>>

\* The listing's SELECT: the titles are in the rows.
SelectPage(c) ==
  /\ Step(c, "select", "detail")
  /\ page' = [page EXCEPT ![c] =
                [i \in 1..Len(PageOf(Children(object[c]), start[c], PageSize)) |->
                   LET id == PageOf(Children(object[c]), start[c], PageSize)[i] IN
                   [id |-> id, title |-> Title(id)]]]
  /\ UNCHANGED <<object, updateId, total, items, renderer>>

\* Artists and albums: their childCount, by a COUNT(*) of its own.
CountChildren(c) ==
  /\ page[c] # <<>> /\ Len(Head(page[c]).id) < 3
  /\ Step(c, "detail", "detail")
  /\ items' = [items EXCEPT ![c] = @ \cup
       {[id |-> Head(page[c]).id, title |-> Head(page[c]).title,
         childCount |-> ChildCount(Head(page[c]).id)]}]
  /\ page' = [page EXCEPT ![c] = Tail(@)]
  /\ UNCHANGED <<object, updateId, total, renderer>>

\* build_track_item, first query: the album, for the art URL.
ReadAlbumArt(c) ==
  /\ page[c] # <<>> /\ Len(Head(page[c]).id) = 3
  /\ Step(c, "detail", "resources")
  /\ items' = [items EXCEPT ![c] = @ \cup
       {[id |-> Head(page[c]).id, title |-> Head(page[c]).title,
         art |-> HasArt(Head(page[c]).id), resources |-> None]}]
  /\ UNCHANGED <<object, updateId, total, page, renderer>>

\* Second query: its renditions.
ReadRenditions(c) ==
  /\ Step(c, "resources", "detail")
  /\ items' = [items EXCEPT ![c] =
       {IF i.id = Head(page[c]).id
        THEN [i EXCEPT !.resources = RenditionsOf(i.id)] ELSE i : i \in @}]
  /\ page' = [page EXCEPT ![c] = Tail(@)]
  /\ UNCHANGED <<object, updateId, total, renderer>>

\* A query throws RepositoryError: the renderer gets a SOAP fault.
QueryFails(c) ==
  /\ \/ at[c] \in {"exists", "id", "count", "select", "resources"}
     \/ at[c] = "detail" /\ page[c] # <<>>
  /\ at' = [at EXCEPT ![c] = "idle"]
  /\ UNCHANGED <<object, result, renderer>>

-----------------------------------------------------------------------------
(* The renderer takes the response.                                        *)

Returned(c) == Cardinality(items[c])

\* The page belongs to what it has so far: same UpdateID.
AcceptPage(c) ==
  /\ Step(c, "detail", "idle") /\ page[c] = <<>>
  /\ start[c] = 0 \/ updateId[c] = copyId[c]
  /\ start' = [start EXCEPT ![c] = @ + Returned(c)]
  /\ copy' = [copy EXCEPT ![c] = @ \cup items[c]]
  /\ copyId' = [copyId EXCEPT ![c] = updateId[c]]
  /\ complete' = [complete EXCEPT ![c] = start[c] + Returned(c) >= total[c]]
  /\ UNCHANGED <<object, result>>

\* The UpdateID changed between two pages: it starts over.
DropPages(c) ==
  /\ Step(c, "detail", "idle") /\ page[c] = <<>>
  /\ start[c] # 0 /\ updateId[c] # copyId[c]
  /\ start' = [start EXCEPT ![c] = 0]
  /\ copy' = [copy EXCEPT ![c] = {}]
  /\ copyId' = [copyId EXCEPT ![c] = 0]
  /\ UNCHANGED <<object, result, complete>>

Serve ==
  \E c \in Renderers :
    \/ \E o \in Containers : Browse(c, o)
    \/ BrowseOn(c) \/ NoSuchObject(c) \/ Found(c) \/ ReadUpdateId(c)
    \/ CountRows(c) \/ SelectPage(c) \/ CountChildren(c) \/ ReadAlbumArt(c)
    \/ ReadRenditions(c) \/ QueryFails(c) \/ AcceptPage(c) \/ DropPages(c)
=============================================================================
