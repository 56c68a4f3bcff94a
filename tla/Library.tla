------------------------------- MODULE Library -------------------------------
(***************************************************************************)
(* The media library: the links that the client moved out of the farm, as  *)
(* internal/worker/symlink.go and healer.go find and repoint them.  The    *)
(* client that owns the library is not part of the program.                *)
(***************************************************************************)
EXTENDS Farm, Sequences
LOCAL INSTANCE SequencesExt

\* A file name is a sequence of parts of about equal length, without regard to
\* case; two different parts differ in their first character, and the last part
\* is the extension.
CONSTANTS Paths,      \* where a link may be, in the order of filepath.WalkDir
          Files,      \* base names of files
          NoFile,
          FilesOf,    \* the files of each release
          EpisodeOf,  \* what is in a file of that name
          Shelf,      \* the library at first
          Held        \* the NZB of each row at first

NoLink == [rel |-> NoRelease, file |-> NoFile]

\* Where a link points: a file of a release folder on the mount.
Target == [rel : Releases, file : Files] \cup {NoLink}

Episodes == {EpisodeOf[f] : f \in Files}

Content == [nzb : Nzbs \cup {NoNzb}, episode : Episodes \cup {NoFile}]
NoContent == [nzb |-> NoNzb, episode |-> NoFile]

ASSUME LibraryAssumption == /\ Paths \subseteq Nat
                            /\ NoFile \notin Files
                            /\ \A f \in Files : f \in Seq(STRING) /\ f # <<>>
                            /\ FilesOf \in [Releases -> SUBSET Files]
                            /\ Shelf \in [Paths -> Target]
                            /\ Held \in [JobIds -> Nzbs]

VARIABLES links,    \* the links of the library
          owner     \* the content that the client last put at each path

libraryVars == <<links, owner>>

LibraryType == /\ links \in [Paths -> Target]
               /\ owner \in [Paths -> Content]

\* The NZB that a release at first belongs to.
NzbOf(rel) == IF \E id \in JobIds : ReleaseOf[Held[id]] = rel
              THEN Held[CHOOSE id \in JobIds : ReleaseOf[Held[id]] = rel]
              ELSE NoNzb

LibraryInit == /\ links = Shelf
               /\ owner = [p \in Paths |->
                            IF Shelf[p] = NoLink THEN NoContent
                            ELSE [nzb |-> NzbOf(Shelf[p].rel), episode |-> EpisodeOf[Shelf[p].file]]]

\* os.Stat of a link: it is there, and so is what it points to.
Resolves(p) == /\ links[p] # NoLink
               /\ mount[links[p].rel] = "full"
               /\ links[p].file \in FilesOf[links[p].rel]

Broken(p) == links[p] # NoLink /\ ~Resolves(p)

\* What is directly in a release folder: finishHeal and findBestMatch do not
\* look into its subdirectories.
Shown(r) == IF mount[r] = "full" /\ r \notin Nested THEN FilesOf[r] ELSE {}

\* lcp and filepath.Ext
Lcp(f, g) == Len(LongestCommonPrefix({f, g}))
SameExt(f, g) == Last(f) = Last(g)

\* Of the files with the extension of f one that shares the longest prefix, which
\* must be more than half of f; none if there is no confident match.
FindBestMatch(shown, f) ==
    LET Alike == {g \in shown : SameExt(f, g)}
    IN  {g \in Alike : /\ Lcp(f, g) > Len(f) \div 2
                       /\ \A other \in Alike : Lcp(f, other) <= Lcp(f, g)}

\* The file that replaces f: the one of that name or the best match.
NewFile(r, f) == IF f \in Shown(r) THEN {f} ELSE FindBestMatch(Shown(r), f)

\* atomicReplaceSymlink renames over the path, whatever is or is not there.
AtomicReplace(p, target) == /\ links' = [links EXCEPT ![p] = target]
                            /\ UNCHANGED owner

-----------------------------------------------------------------------------
(* What the client does to its library. *)

\* Sonarr renames or moves an episode, to where nothing else was before.
Rename(p, q) == /\ links[p] # NoLink
                /\ links[q] = NoLink
                /\ owner[q] \in {NoContent, owner[p]}
                /\ Fault("rename")
                /\ links' = [links EXCEPT ![q] = links[p], ![p] = NoLink]
                /\ owner' = [owner EXCEPT ![q] = owner[p]]

\* Sonarr imports another release over a link, at the same path.
Upgrade(p, target, k) == /\ links[p] # NoLink
                         /\ owner[p].nzb # k
                         /\ target.rel = ReleaseOf[k]
                         /\ mount[target.rel] = "full"
                         /\ target.file \in FilesOf[target.rel]
                         /\ Fault("upgrade")
                         /\ links' = [links EXCEPT ![p] = target]
                         /\ owner' = [owner EXCEPT ![p] = [nzb     |-> k,
                                                          episode |-> EpisodeOf[target.file]]]

ClientNext == \/ \E p, q \in Paths : Rename(p, q)
              \/ \E p \in Paths, t \in Target \ {NoLink}, k \in Nzbs : Upgrade(p, t, k)
=============================================================================
