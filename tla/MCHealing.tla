------------------------------- MODULE MCHealing -------------------------------
EXTENDS Healing
CONSTANTS n1, n2, r1, r2, new1

OwnReleases == [n \in Nzbs |-> IF n = n1 THEN r1 ELSE r2]
RowHolds == [id \in JobIds |-> IF id = 1 THEN n1 ELSE n2]

\* A resubmitted NZB keeps its release name; the first may get, or gets, another.
SameName == [n \in Nzbs |-> {OwnReleases[n]}]
MaybeRenamed == [n \in Nzbs |-> IF n = n1 THEN {r1, new1} ELSE {OwnReleases[n]}]
Renamed == [n \in Nzbs |-> IF n = n1 THEN {new1} ELSE {OwnReleases[n]}]

E01 == <<"Show", ".S01", "E0", "1", ".mkv">>
E02 == <<"Show", ".S01", "E0", "2", ".mkv">>
E01Tagged == <<"Show", ".S01", "E0", "1", ".PROPER", ".mkv">>
E01Obscured == <<"a8f2", ".mkv">>

AllFiles == {E01, E02, E01Tagged, E01Obscured}
Contents == [f \in AllFiles |-> CASE f \in {E01, E01Tagged, E01Obscured} -> "e01"
                                   [] f = E02                             -> "e02"]

\* Each release holds an episode; the first may come back with a tag.
OneFileEach == [r \in Releases |-> CASE r = r1 -> {E01} [] r = r2 -> {E02} [] OTHER -> {E01Tagged}]
OnePathEach == [p \in Paths |-> CASE p = 1 -> [rel |-> r1, file |-> E01]
                                  [] p = 2 /\ r2 \in Releases -> [rel |-> r2, file |-> E02]
                                  [] OTHER -> NoLink]

\* The second is a better copy of the episode.
Proper == [r \in Releases |-> IF r = r1 THEN {E01} ELSE {E01Tagged}]

\* It holds two episodes, and one of them comes back without its name.
Pack == [r \in Releases |-> IF r = r1 THEN {E01, E02} ELSE {E01Obscured, E02}]
PathPerEpisode == [p \in Paths |-> IF p = 1 THEN [rel |-> r1, file |-> E01]
                                             ELSE [rel |-> r1, file |-> E02]]
=============================================================================
