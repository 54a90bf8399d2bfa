---- MODULE MCLibrarySync ----
EXTENDS LibrarySync

Path(ar, al, tr, ex, d) == [artist |-> ar, album |-> al, track |-> tr, ext |-> ex, dir |-> d]

\* Two tracks of one album, in two directories whose names have one slug.
ScanFiles == {Path(1, 1, 1, 1, "d1"), Path(1, 1, 2, 1, "d2")}

\* Two tracks of one album.
SyncFiles == {Path(1, 1, 1, 1, "d1"), Path(1, 1, 2, 1, "d1")}

NoContainers == {}
SyncContainers == {<<"tracks">>, <<"artists">>, <<"artist_albums", <<1>>>>, <<"album", <<1, 1>>>>}
====
