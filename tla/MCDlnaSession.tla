---------------------------- MODULE MCDlnaSession ----------------------------
(* Instances of DlnaSession for TLC. *)
EXTENDS DlnaSession, MCTranscode

MCPlaylists == (<<1>> :> <<<<0, 1, 1>>, <<1, 1, 1>>, <<0, 1, 1>>>>)

MCRoot == <<"srv", "music">>
MCReal == [d \in {f.dir : f \in MCFiles} |-> MCRoot \o <<"library">>]

MCAgents == {{"Samsung", "DLNADOC"}, {"Denon"}, {"VLC/"}}

Strict == [upper |-> TRUE, bare |-> FALSE, prolog |-> TRUE, header |-> FALSE,
           notes |-> FALSE, alone |-> FALSE]
MCStyles == {Strict,
             [Strict EXCEPT !.upper = FALSE, !.bare = TRUE, !.prolog = FALSE, !.alone = TRUE],
             [Strict EXCEPT !.header = TRUE, !.notes = TRUE]}
=============================================================================
