------------------------------ MODULE BrowseTree ------------------------------
(***************************************************************************)
(* handle_browse as a whole: object ids, the containers and items behind   *)
(* them, BrowseMetadata and BrowseDirectChildren of every kind.  A browse  *)
(* is one step here; ContentDirectory splits its queries.  Titles and the  *)
(* XML they are written into are left out.                                 *)
(*                                                                         *)
(* An object id is the sequence of its parts between colons: <<"0">>,      *)
(* <<"artist", a>>, <<"artist", a, Albums>>, <<"album">> \o id and so on.  *)
(* Albums, the number of the slug "albums", may be an artist's slug too.   *)
(***************************************************************************)
EXTENDS Transcode, DeviceProfiles, MediaToken

CONSTANTS
  Playlists, \* id -> the track ids at its positions; nothing here writes them
  MaxPage    \* max_browse_page_size

ASSUME MaxPageAssumption == MaxPage \in Nat \ {0}

\* The schema's REFERENCES: a playlist's entries are tracks.
ASSUME PlaylistsAssumption ==
  /\ IsFiniteSet(DOMAIN Playlists) /\ DOMAIN Playlists \subseteq Seq(Nat)
  /\ \A p \in DOMAIN Playlists : Playlists[p] \in Seq({TrackId(f) : f \in Files})

Albums == 0

Kinds == {"artist", "album", "track", "playlist"}
Fixed == {"0", "1", "artists", "tracks", "playlists"}

ObjectId(kind, entity) == [kind |-> kind, entity |-> entity]

ParseSuffixAlways(id) == \* mutant: ends_with "albums", without the colon
  IF Len(id) = 1 /\ Head(id) \in Fixed THEN ObjectId(Head(id), <<>>)
  ELSE IF Len(id) > 1 /\ Head(id) = "artist" /\ Last(id) = Albums
  THEN ObjectId("artist_albums", Front(Tail(id)))
  ELSE IF Len(id) > 1 /\ Head(id) \in Kinds THEN ObjectId(Head(id), Tail(id))
  ELSE ObjectId("none", <<>>)

\* parse_object_id; "none" for its three errors.
ParseObjectId(id) ==
  IF Len(id) = 1 /\ Head(id) \in Fixed THEN ObjectId(Head(id), <<>>)
  ELSE IF Len(id) > 2 /\ Head(id) = "artist" /\ Last(id) = Albums
  THEN ObjectId("artist_albums", Front(Tail(id)))
  ELSE IF Len(id) > 1 /\ Head(id) \in Kinds THEN ObjectId(Head(id), Tail(id))
  ELSE ObjectId("none", <<>>)

-----------------------------------------------------------------------------
(* Objects.                                                                *)

Absent == -1 \* a child count that is not given

Container(id, parent, count) == [id |-> id, parent |-> parent, count |-> count]

Music           == Container(<<"1">>, <<"0">>, Absent)
Artists         == Container(<<"artists">>, <<"1">>, Cardinality(DOMAIN artists))
AllTracks       == Container(<<"tracks">>, <<"1">>, Cardinality(DOMAIN tracks))
AlbumsId(a)     == <<"artist">> \o a \o <<Albums>>
Artist(a)       == Container(<<"artist">> \o a, <<"artists">>, Cardinality(AlbumsOfArtist(a)))
ArtistAlbums(a) == Container(AlbumsId(a), <<"artist">> \o a, Cardinality(AlbumsOfArtist(a)))
Album(a)        == Container(<<"album">> \o a, AlbumsId(ArtistOf(a)), Cardinality(TracksOfAlbum(a)))
Playlist(p)     == Container(<<"playlist">> \o p, <<"playlists">>, Len(Playlists[p]))

\* list_renditions_for_track.
Rows(t) ==
  LET ids == Sorted(RowsOf(t)) IN
  [i \in DOMAIN ids |-> [id |-> ids[i], codec |-> renditions[ids[i]].codec]]

\* build_track_item.  Each resource's URL is signed for its rendition.
Item(t, parent, profile) ==
  LET selected == SelectResources(Rows(t), profile) IN
  [id        |-> <<"track">> \o t,
   parent    |-> parent,
   art       |-> albums[AlbumOf(t)].cover # None,
   resources |-> [i \in DOMAIN selected |->
                    [id |-> selected[i].id, format |-> selected[i].format,
                     token |-> Sign(selected[i].id)]]]

TrackItem(t, profile) == Item(t, <<"album">> \o AlbumOf(t), profile)

-----------------------------------------------------------------------------
(* Results.                                                                *)

Result(objects, total) ==
  [fault |-> 0, objects |-> objects, total |-> total, updateId |-> systemUpdateId]

Fault(code) == [fault |-> code, objects |-> <<>>, total |-> 0, updateId |-> 0]

\* UpnpErrorCode.
InvalidAction   == 401
InvalidArgs     == 402
ActionFailed    == 501
ArgumentInvalid == 600
NoSuchObject    == 701

All(objects) == Result(objects, Len(objects))

LeastOf(a, b) == IF a < b THEN a ELSE b

\* The objects of a repository's list_*, each at its row's id: in the order of
\* the ids, at most MaxPage.
Listing(object, page) ==
  LET listed == PageOf(DOMAIN object, page.start,
                       IF page.count = 0 THEN MaxPage ELSE LeastOf(page.count, MaxPage)) IN
  Result([i \in DOMAIN listed |-> object[listed[i]]], Cardinality(DOMAIN object))

PlaylistPage(p, page, profile) == \* mutant: TotalMatches counts the page
  LET rest == SubSeq(Playlists[p], page.start + 1, Len(Playlists[p]))
      some == IF page.count = 0 THEN rest ELSE SubSeq(rest, 1, LeastOf(page.count, Len(rest))) IN
  All([i \in DOMAIN some |-> Item(some[i], <<"playlist">> \o p, profile)])

\* browse_playlist_children cuts the page itself, without the limit.  (An entry
\* whose track is gone is skipped; the schema's REFERENCES rule that out.)
PlaylistChildren(p, page, profile) ==
  LET rest == SubSeq(Playlists[p], page.start + 1, Len(Playlists[p]))
      some == IF page.count = 0 THEN rest ELSE SubSeq(rest, 1, LeastOf(page.count, Len(rest))) IN
  Result([i \in DOMAIN some |-> Item(some[i], <<"playlist">> \o p, profile)], Len(Playlists[p]))

\* browse_direct_children.
DirectChildren(o, page, profile) ==
  LET e == o.entity IN
  CASE o.kind = "0"         -> All(<<Music, Container(<<"playlists">>, <<"0">>, Absent)>>)
    [] o.kind = "1"         -> All(<<Artists, AllTracks>>)
    [] o.kind = "artists"   -> Listing([a \in DOMAIN artists |-> Artist(a)], page)
    [] o.kind = "tracks"    -> Listing([t \in DOMAIN tracks |-> TrackItem(t, profile)], page)
    [] o.kind = "playlists" -> Listing([p \in DOMAIN Playlists |-> Playlist(p)], page)
    [] o.kind = "artist"        /\ e \in DOMAIN artists -> All(<<ArtistAlbums(e)>>)
    [] o.kind = "artist_albums" /\ e \in DOMAIN artists
                            -> Listing([a \in AlbumsOfArtist(e) |-> Album(a)], page)
    [] o.kind = "album"         /\ e \in DOMAIN albums
                            -> Listing([t \in TracksOfAlbum(e) |-> TrackItem(t, profile)], page)
    [] o.kind = "playlist"      /\ e \in DOMAIN Playlists -> PlaylistChildren(e, page, profile)
    [] o.kind = "track"     -> [All(<<>>) EXCEPT !.updateId = 0]
    [] OTHER                -> Fault(NoSuchObject)

\* browse_metadata: nothing, not a fault, for an entity that is not there.
Metadata(o, profile) ==
  LET e == o.entity IN
  CASE o.kind = "0"         -> All(<<Container(<<"0">>, <<"-1">>, 1)>>)
    [] o.kind = "1"         -> All(<<Music>>)
    [] o.kind = "artists"   -> All(<<Artists>>)
    [] o.kind = "tracks"    -> All(<<AllTracks>>)
    [] o.kind = "playlists" -> All(<<Container(<<"playlists">>, <<"1">>, Cardinality(DOMAIN Playlists))>>)
    [] o.kind = "artist"        /\ e \in DOMAIN artists   -> All(<<Artist(e)>>)
    [] o.kind = "artist_albums" /\ e \in DOMAIN artists   -> All(<<ArtistAlbums(e)>>)
    [] o.kind = "album"         /\ e \in DOMAIN albums    -> All(<<Album(e)>>)
    [] o.kind = "playlist"      /\ e \in DOMAIN Playlists -> All(<<Playlist(e)>>)
    [] o.kind = "track"         /\ e \in DOMAIN tracks    -> All(<<TrackItem(e, profile)>>)
    [] OTHER                -> All(<<>>)

\* The value of an argument: the first of that name.
Arg(args, name, default) ==
  LET those == {i \in DOMAIN args : args[i][1] = name} IN
  IF those = {} THEN default ELSE args[Min(those)][2]

\* parse_u32: what is no number is the fallback, 0.
ParseU32(value) == IF Len(value) = 2 THEN value[2] ELSE 0

\* handle_browse.
HandleBrowse(args, profile) ==
  LET o    == ParseObjectId(Arg(args, "ObjectID", <<>>))
      flag == Arg(args, "BrowseFlag", <<"BrowseDirectChildren">>)
      page == [start |-> ParseU32(Arg(args, "StartingIndex", <<"n", 0>>)),
               count |-> ParseU32(Arg(args, "RequestedCount", <<"n", 0>>))] IN
  IF \A i \in DOMAIN args : args[i][1] # "ObjectID" THEN Fault(InvalidArgs)
  ELSE IF o.kind = "none" THEN Fault(NoSuchObject)
  ELSE IF flag = <<"BrowseMetadata">> THEN Metadata(o, profile)
  ELSE IF flag = <<"BrowseDirectChildren">> THEN DirectChildren(o, page, profile)
  ELSE Fault(ArgumentInvalid)
=============================================================================
