---- MODULE MCWatchLoop ----
EXTENDS WatchLoop

MCDirs == {"root", "artist", "album", "other"}
MCParent == [d \in MCDirs \ {"root"} |-> IF d = "album" THEN "artist" ELSE "root"]

\* An empty library, and one with two artists.
MCTrees == {{"root"}, {"root", "artist", "other"}}
====
