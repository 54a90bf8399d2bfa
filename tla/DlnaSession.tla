----------------------------- MODULE DlnaSession -----------------------------
(***************************************************************************)
(* A renderer browses the DLNA server over SOAP, page by page, and fetches *)
(* what it was given links to; a player starts from a master playlist;     *)
(* meanwhile sonariumctl transcodes and tokens expire.  Renderers are      *)
(* modelled from the contract the answers serve: pages that come with one  *)
(* UpdateID belong together.                                               *)
(***************************************************************************)
EXTENDS SoapControl, MediaDelivery

CONSTANTS
  Agents,    \* User-Agents
  Styles,    \* ways to write a request
  PageCount, \* RequestedCount
  MaxClock   \* bound

ASSUME StylesAssumption ==
  Styles \subseteq [upper : BOOLEAN, bare : BOOLEAN, prolog : BOOLEAN, header : BOOLEAN,
                  notes : BOOLEAN, alone : BOOLEAN]
ASSUME BoundsAssumption == PageCount \in Nat /\ MaxClock \in Nat

VARIABLE view \* what the client holds

vars == <<library, renditions, systemUpdateId, jobVars, clock, view>>

Idle == [mode |-> "idle"]

\* Listed objects, an object that was refused, a link with the MIME type it was
\* advertised with, NoMime for none.
Browsing(agent, o, flag, reply) ==
  [mode |-> "browsing", agent |-> agent, object |-> o, flag |-> flag,
   got |-> reply.objects, total |-> reply.total, updateId |-> reply.updateId]
Refused(o, fault)   == [mode |-> "refused", object |-> o, fault |-> fault]
Playing(link, mime) == [mode |-> "playing", link |-> link, mime |-> mime]

Init ==
  /\ TranscodeInit
  /\ clock = 0
  /\ view = Idle

\* The ids behind which there is an object, and some that there are none for.
KnownIds ==
  {<<id>> : id \in Fixed}
    \cup {<<"artist">> \o a : a \in DOMAIN artists} \cup {AlbumsId(a) : a \in DOMAIN artists}
    \cup {<<"album">> \o a : a \in DOMAIN albums} \cup {<<"track">> \o t : t \in DOMAIN tracks}
    \cup {<<"playlist">> \o p : p \in DOMAIN Playlists}
UnknownIds == {<<>>, <<"2">>, <<"artist">>, <<"artist", 9>>, <<"artist", 9, Albums>>, <<"album", 9>>}

Args(o, flag, start) ==
  <<<<"ObjectID", o>>, <<"BrowseFlag", <<flag>>>>, <<"Filter", <<"*">>>>,
    <<"StartingIndex", <<"n", start>>>>, <<"RequestedCount", <<"n", PageCount>>>>,
    <<"SortCriteria", <<>>>>>>

\* What the server may answer: a query fails wherever there is one.
Replies(agent, o, flag, start, style) ==
  LET doc  == Render(ContentDirectoryUrn, "Browse", Args(o, flag, start), style)
      kind == ParseObjectId(o).kind
      asks == kind # "none" /\ (kind = "track" => flag = "BrowseMetadata") IN
  {Control(doc, agent)} \cup (IF asks THEN {BackendFails} ELSE {})

-----------------------------------------------------------------------------

Browse(agent, o, flag, style) ==
  /\ view = Idle
  /\ \E reply \in Replies(agent, o, flag, 0, style) :
       view' = IF reply.fault = 0 THEN Browsing(agent, o, flag, reply)
               ELSE Refused(o, reply.fault)
  /\ UNCHANGED clock

NextPageAgain(style) == \* mutant: StartingIndex is not moved on
  /\ view.mode = "browsing" /\ view.flag = "BrowseDirectChildren"
  /\ Len(view.got) < view.total
  /\ \E reply \in Replies(view.agent, view.object, view.flag, 0, style) :
       view' = IF reply.fault = 0 /\ reply.updateId = view.updateId
               THEN [view EXCEPT !.got = @ \o reply.objects] ELSE Idle
  /\ UNCHANGED clock

\* The next page; if it fails or the UpdateID has changed, it starts over.
NextPage(style) ==
  /\ view.mode = "browsing" /\ view.flag = "BrowseDirectChildren"
  /\ Len(view.got) < view.total
  /\ \E reply \in Replies(view.agent, view.object, view.flag, Len(view.got), style) :
       view' = IF reply.fault = 0 /\ reply.updateId = view.updateId
               THEN [view EXCEPT !.got = @ \o reply.objects] ELSE Idle
  /\ UNCHANGED clock

IsItem(object) == "resources" \in DOMAIN object

\* One of the links of one of the items.
Take ==
  /\ view.mode = "browsing"
  /\ \E n \in DOMAIN view.got :
       /\ IsItem(view.got[n])
       /\ \/ \E i \in DOMAIN view.got[n].resources :
               LET r == view.got[n].resources[i] IN
               view' = Playing(Link("media", r.id, r.token), r.format.mime)
          \/ /\ view.got[n].art
             /\ view' = Playing(Link("art", AlbumOf(Tail(view.got[n].id)), NoToken), NoMime)
  /\ UNCHANGED clock

\* A player is given a signed master URL.
OpenMaster(t) ==
  /\ view = Idle
  /\ view' = Playing(Link("master", t, Sign(t)), NoMime)
  /\ UNCHANGED clock

\* It follows a link of the playlist it got.
Follow ==
  /\ view.mode = "playing"
  /\ \E i \in DOMAIN Get(view.link).links : view' = Playing(Get(view.link).links[i], NoMime)
  /\ UNCHANGED clock

\* The client turns to something else.
Leave ==
  /\ view # Idle
  /\ view' = Idle
  /\ UNCHANGED clock

Tick ==
  /\ clock < MaxClock
  /\ clock' = clock + 1
  /\ UNCHANGED view

Client ==
  \/ \E agent \in Agents, o \in KnownIds \cup UnknownIds, style \in Styles,
        flag \in {"BrowseDirectChildren", "BrowseMetadata"} : Browse(agent, o, flag, style)
  \/ \E style \in Styles : NextPage(style)
  \/ \E t \in DOMAIN tracks : OpenMaster(t)
  \/ Take \/ Follow \/ Leave

Next ==
  \/ (Client \/ Tick) /\ UNCHANGED <<library, renditions, systemUpdateId, jobVars>>
  \/ TranscodeNext /\ UNCHANGED <<clock, view>>

Spec == Init /\ [][Next]_vars

-----------------------------------------------------------------------------
\* Every variable has its type; a renderer never has more than TotalMatches.
TypeOK ==
  /\ clock \in 0..MaxClock
  /\ runs \in 0..MaxRuns /\ systemUpdateId \in 1..(1 + MaxRuns)
  /\ job.at \in {"ffmpeg", "encoding", "stat", "upsert", "bump", "done"}
  /\ view.mode \in {"idle", "browsing", "refused", "playing"}
  /\ view.mode = "browsing" => Len(view.got) <= view.total

\* What HandleBrowse answers now to the renderer that has the view.
Children(o, start, count) ==
  DirectChildren(ParseObjectId(o), [start |-> start, count |-> count], Match(view.agent))

\* Where an object is listed: under its parent.  The Playlists folder's own metadata
\* names "1", the Music folder, which does not list it: the root does.
HomeOf(object) == IF object.id = <<"playlists">> THEN <<"0">> ELSE object.parent

\* Whose childCount is not the number of their children: the root says 1 and lists
\* two; an artist's is that of its albums, which are all in one folder.
Miscounted == {"0", "artist"}

\* The tree fits together.  An object that is there is never refused, however the
\* request is written.  Whatever a renderer is shown, in a listing or by itself, is
\* found under its id, and, unless it is the root, listed where it hangs.  A
\* container has as many children as it says; the miscounted say none when they
\* have none and only then.
TreeCoherent ==
  /\ view.mode = "refused" => view.object \in UnknownIds \/ view.fault = ActionFailed
  /\ view.mode = "browsing" =>
       \A i \in DOMAIN view.got :
         LET object == view.got[i]
             o      == ParseObjectId(object.id)
             itself == Metadata(o, Match(view.agent)).objects
             total  == Children(object.id, 0, 0).total
             number == Children(HomeOf(object), 0, 1).total IN
         /\ Len(itself) = 1 /\ Head(itself).id = object.id
         /\ object.id # <<"0">> =>
              \E s \in 0..(number - 1) :
                object.id \in {Children(HomeOf(object), s, 0).objects[n].id :
                                 n \in DOMAIN Children(HomeOf(object), s, 0).objects}
         /\ ~ IsItem(object) /\ object.count # Absent =>
              IF o.kind \in Miscounted THEN object.count > 0 <=> total > 0
              ELSE object.count = total

\* What a container holds, in order.
ChildIds(o) ==
  LET under(kind, ids) == [i \in DOMAIN ids |-> <<kind>> \o ids[i]] IN
  CASE o.kind = "0"             -> <<<<"1">>, <<"playlists">>>>
    [] o.kind = "1"             -> <<<<"artists">>, <<"tracks">>>>
    [] o.kind = "artists"       -> under("artist", Sorted(DOMAIN artists))
    [] o.kind = "artist"        -> <<AlbumsId(o.entity)>>
    [] o.kind = "artist_albums" -> under("album", Sorted(AlbumsOfArtist(o.entity)))
    [] o.kind = "album"         -> under("track", Sorted(TracksOfAlbum(o.entity)))
    [] o.kind = "tracks"        -> under("track", Sorted(DOMAIN tracks))
    [] o.kind = "playlists"     -> under("playlist", Sorted(DOMAIN Playlists))
    [] o.kind = "playlist"      -> under("track", Playlists[o.entity])
    [] o.kind = "track"         -> <<>>

\* Pages that came with one UpdateID make up the container: no child is missing
\* or shown twice, also where more are asked for than the server hands out.
PagesAddUp ==
  view.mode = "browsing" /\ view.flag = "BrowseDirectChildren" =>
    LET ids == [i \in DOMAIN view.got |-> view.got[i].id]
        all == ChildIds(ParseObjectId(view.object)) IN
    /\ view.total = Len(all)
    /\ IsPrefix(ids, all)
    /\ ids = <<>> => all = <<>>

\* What a renderer is offered is of a format that GetProtocolInfo announces to
\* it, and a link that was handed out is good until its token expires, with the
\* type it was offered with: the files of resources, covers, and everything that
\* a signed master URL leads to.  From then on it is refused.
LinksPlay ==
  /\ view.mode = "browsing" =>
       \A i \in {n \in DOMAIN view.got : IsItem(view.got[n])} :
         \A j \in DOMAIN view.got[i].resources :
           view.got[i].resources[j].format \in
             ToSet(ConnectionManagerDispatch(
                     Parsed(ConnectionManagerUrn, "GetProtocolInfo", <<>>), view.agent).out)
  /\ view.mode = "playing" =>
       LET answer == Get(view.link) IN
       IF view.link.token # NoToken /\ clock >= view.link.token.expires
       THEN answer.status = 403
       ELSE /\ answer.status = 200
            /\ view.mime # NoMime => answer.mime = view.mime

Unsigned(object) ==
  IF IsItem(object)
  THEN [object EXCEPT !.resources = [i \in DOMAIN @ |-> [@[i] EXCEPT !.token = NoToken]]]
  ELSE object

\* Once a command has reported success, a renderer whose UpdateID is current has
\* what the server would show it now: it has not missed the new rendition.
FreshListing ==
  view.mode = "browsing" /\ job.exit = 0 /\ view.updateId = systemUpdateId =>
    \A i \in {n \in DOMAIN view.got : IsItem(view.got[n])} :
      Unsigned(view.got[i]) =
        Unsigned(Item(Tail(view.got[i].id), view.got[i].parent, Match(view.agent)))
=============================================================================
