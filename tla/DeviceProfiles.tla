---------------------------- MODULE DeviceProfiles ----------------------------
(***************************************************************************)
(* Which renderer is offered what: the built-in device profiles, the       *)
(* resources a track gets under one, and the formats that GetProtocolInfo  *)
(* announces for it.                                                       *)
(*                                                                         *)
(* A User-Agent is the set of the profiles' substrings that occur in it.   *)
(* A codec stands for its container too: files and ffmpeg's outputs have   *)
(* one container for each codec.                                           *)
(***************************************************************************)
EXTENDS Integers, SequencesExt

Lossless == {"flac", "alac"}

Profile(agents, codecs, pn, lossless) ==
  [agents |-> agents,     \* user_agent_substrings
   codecs |-> codecs,     \* preferred_codec_order
   pn |-> pn,             \* requires_dlna_org_pn
   lossless |-> lossless] \* exposes_flac

\* with_defaults: Samsung, LG, Sony, Yamaha and others, VLC and Kodi,
\* BubbleUPnP, and the one that matches whatever came this far.
Profiles == <<
  Profile({"SEC_HHP_", "Samsung", "DLNADOC"}, <<"mp3", "aac", "wav">>, TRUE, FALSE),
  Profile({"LG", "webOS"}, <<"mp3", "aac">>, TRUE, FALSE),
  Profile({"Sony", "BRAVIA"}, <<"mp3", "aac", "flac">>, TRUE, TRUE),
  Profile({"Yamaha", "Denon", "Marantz", "HEOS"}, <<"flac", "alac", "mp3", "wav">>, TRUE, TRUE),
  Profile({"VLC/", "Kodi", "XBMC"}, <<"flac", "mp3", "aac">>, FALSE, TRUE),
  Profile({"BubbleUPnP"}, <<"flac", "alac", "mp3", "aac">>, FALSE, TRUE),
  Profile({}, <<"mp3", "aac", "wav">>, TRUE, FALSE)>>

\* DeviceProfileRegistry::match: the first that matches.  Its callers hand it
\* the User-Agent only, so that rules about other headers never apply.
Match(agent) ==
  LET matches == {i \in DOMAIN Profiles :
                    Profiles[i].agents = {} \/ Profiles[i].agents \cap agent # {}} IN
  Profiles[Min(matches)]

\* default_mime_for, dlna_org_pn_for; no default profile overrides a MIME type.
Mime(codec) ==
  CASE codec = "mp3" -> "audio/mpeg" [] codec = "wav" -> "audio/wav"
    [] codec = "flac" -> "audio/flac" [] OTHER -> "audio/mp4"

NoPn == ""

Pn(codec) == CASE codec = "mp3" -> "MP3" [] codec = "wav" -> "LPCM" [] OTHER -> NoPn

\* build_protocol_info; DLNA.ORG_OP and DLNA.ORG_CI are the same for all.
Format(codec, profile) ==
  [mime |-> Mime(codec), pn |-> IF profile.pn THEN Pn(codec) ELSE NoPn]

FirstOf(rows, codec) ==
  rows[Min({i \in DOMAIN rows : rows[i].codec = codec})]

\* The elements of s at some positions, in their order.
Kept(s, positions) ==
  [i \in 1..Cardinality(positions) |->
     s[CHOOSE n \in positions : Cardinality({m \in positions : m <= n}) = i]]

\* The codecs that a profile takes and rows have, in the profile's order.
Offered(rows, profile) ==
  LET takes(c) == /\ profile.lossless \/ c \notin Lossless
                  /\ \E i \in DOMAIN rows : rows[i].codec = c
  IN Kept(profile.codecs, {n \in DOMAIN profile.codecs : takes(profile.codecs[n])})

SelectAllResources(rows, profile) == \* mutant: the profile is used for order alone
  [i \in DOMAIN rows |-> [id |-> rows[i].id, format |-> Format(rows[i].codec, profile)]]

\* select_resources: one resource for each codec, of its first rendition.
SelectResources(rows, profile) ==
  LET codecs == Offered(rows, profile) IN
  [i \in DOMAIN codecs |-> [id     |-> FirstOf(rows, codecs[i]).id,
                            format |-> Format(codecs[i], profile)]]

\* GetProtocolInfo's Source: the same filter over the formats served at all.
SourceFormats(profile) ==
  LET served == <<[codec |-> "mp3"], [codec |-> "aac"], [codec |-> "wav"], [codec |-> "flac"]>>
      codecs == Offered(served, profile) IN
  [i \in DOMAIN codecs |-> Format(codecs[i], profile)]
=============================================================================
