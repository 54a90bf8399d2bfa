----------------------------- MODULE MCTranscode -----------------------------
(* Instances of Transcode for TLC. *)
EXTENDS Transcode

File(a, b, t, e) == [artist |-> a, album |-> b, track |-> t, ext |-> e, dir |-> <<a, b>>]

\* The first artist's slug is "albums".
MCFiles == {File(0, 1, 1, Flac), File(1, 1, 1, Mp3)}

MCTargets == {M4a, Mp3}
MCCovered == {<<0, 1>>}
=============================================================================
