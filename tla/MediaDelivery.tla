---------------------------- MODULE MediaDelivery ----------------------------
(***************************************************************************)
(* The routes that deliver: the DLNA server's media files and covers, the  *)
(* HLS server's playlists and segments.  A link is a URL, the token in its *)
(* query included; an answer has the status and the links in its body.     *)
(* Segments are written and dropped in Segmenter; here ensure_segments     *)
(* succeeds.                                                               *)
(***************************************************************************)
EXTENDS BrowseTree

CONSTANTS
  Root, \* SONARIUM_MEDIA_ROOT as the sequence of its names; <<>> if unset
  Real  \* directory -> its names with symbolic links resolved

\* No directory of the library is a link that leaves the root.
ASSUME RootAssumption == Root = <<>> \/ \A f \in Files : IsPrefix(Root, Real[f.dir])

Link(route, id, token)    == [route |-> route, id |-> id, token |-> token]
Answer(status, mime, out) == [status |-> status, mime |-> mime, links |-> out]
NoMime                    == ""
Forbidden                 == Answer(403, NoMime, <<>>)
NotFound                  == Answer(404, NoMime, <<>>)

\* path_within_root.
WithinRoot(path) == Root = <<>> \/ IsPrefix(Root, Real[path.dir])

\* storage_path_is_servable.
Servable(path) == disk[path] # None /\ WithinRoot(path)

\* GET /media/renditions/{id}.
MediaRoute(id, token) ==
  IF ~ Verify(id, token) THEN Forbidden
  ELSE IF id \notin DOMAIN renditions \/ ~ Servable(renditions[id].path) THEN NotFound
  ELSE Answer(200, Mime(renditions[id].codec), <<>>)

\* GET /art/albums/{id}: without a token.  The cover's file is taken to be there, and
\* to be a JPEG.
ArtRoute(id) ==
  IF \/ id \notin DOMAIN albums \/ albums[id].cover \notin DOMAIN assets
     \/ ~ WithinRoot([dir |-> assets[albums[id].cover]])
  THEN NotFound ELSE Answer(200, "image/jpeg", <<>>)

VariantForTrack(row, track) == \* mutant: the master's token is passed on
  Link("index", row.id, Sign(track))

\* A line of the master playlist: the token is bound to the variant.
Variant(row, track) ==
  Link("index", row.id, Sign(row.id))

\* GET /hls/tracks/{id}/master.m3u8, build_master_playlist: one per rendition.
MasterRoute(id, token) ==
  IF ~ Verify(id, token) THEN Forbidden
  ELSE IF id \notin DOMAIN tracks \/ Rows(id) = <<>> THEN NotFound
  ELSE Answer(200, "m3u8", [i \in DOMAIN Rows(id) |-> Variant(Rows(id)[i], id)])

\* GET /hls/renditions/{id}/index.m3u8.  Without a file, one segment that is the
\* media route; else the segments: they share the rendition's token, and one
\* link stands for their lines.
IndexRoute(id, token) ==
  IF ~ Verify(id, token) THEN Forbidden
  ELSE IF id \notin DOMAIN renditions \/ ~ WithinRoot(renditions[id].path) THEN NotFound
  ELSE IF disk[renditions[id].path] = None THEN Answer(200, "m3u8", <<Link("media", id, Sign(id))>>)
  ELSE Answer(200, "m3u8", <<Link("segment", id, Sign(id))>>)

\* GET /hls/renditions/{id}/{seg} for a segment that an index listed.
SegmentRoute(id, token) ==
  IF Verify(id, token) THEN Answer(200, "video/mp2t", <<>>) ELSE Forbidden

Get(link) ==
  CASE link.route = "media"   -> MediaRoute(link.id, link.token)
    [] link.route = "art"     -> ArtRoute(link.id)
    [] link.route = "master"  -> MasterRoute(link.id, link.token)
    [] link.route = "index"   -> IndexRoute(link.id, link.token)
    [] link.route = "segment" -> SegmentRoute(link.id, link.token)
=============================================================================
