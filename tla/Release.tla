------------------------------- MODULE Release -------------------------------
(***************************************************************************)
(* The action build-publish-container: a job of a workflow builds the      *)
(* image of a commit, pushes it as a pre-release and, when the commit is   *)
(* tagged with a version, pushes it under the version's tags and writes a  *)
(* link to it into the notes of the release.                               *)
(*                                                                         *)
(* Jobs run side by side, and each may fail at any of its commands and     *)
(* requests and be run again.  git, the registry and the GitHub API are    *)
(* modelled from what the action asks of them.                             *)
(***************************************************************************)
EXTENDS AnchoredText

CONSTANTS
  MaxJobs,          \* bound: how many jobs there are
  Commits,
  NoCommit,
  Versions,         \* the versions tagged, <<major, minor, patch, release>>
  Unparsed,         \* a tag that begins like a version but is none
  Types,            \* what publish-type is set to
  Released,         \* bound: the versions a release is made of
  Bodies,           \* release notes as people write them
  NoNotes           \* for a version without a release

\* The last part of a version is 0 for a pre-release, which precedes the
\* release of the same number.
ASSUME ReleaseAssumption ==
  /\ MaxJobs \in Nat
  /\ NoCommit \notin Commits
  /\ Versions \subseteq Nat \X Nat \X Nat \X {0, 1}
  /\ Unparsed \notin Versions
  /\ Released \subseteq Versions
  /\ Bodies \subseteq Seq(Piece)
  /\ NoNotes \notin Seq(Piece)

VARIABLES
  tags,             \* git tags of the repository: the commit they point at
  job,              \* per job: what it does and knows
  prereleases,      \* per commit: the image pushed with its commit tag
  published,        \* per tag of the release package: the image it names
  notes             \* per version: the body of its release

vars == <<tags, job, prereleases, published, notes>>

\* An image is known by the job that built it; 0 is none.
Jobs     == 1..MaxJobs
Image    == Jobs \cup {0}
GitTags  == Versions \cup {Unparsed}
NoVersion == <<>>

\* Tags of an image are the beginnings of a version: 1.2.3 or 1.2.3-beta in
\* full, 1.2, 1, and for nothing of it "latest".
TagOf(v, n) == SubSeq(v, 1, n)
LATEST      == <<>>
ImageTags   == {TagOf(v, n) : v \in Versions, n \in {0, 1, 2, 4}}

NewJob == [phase |-> "new", commit |-> NoCommit, type |-> "", clone |-> <<>>,
           version |-> NoVersion, todo |-> <<>>, body |-> NoNotes]

Init ==
  /\ tags = [t \in GitTags |-> NoCommit]
  /\ job = [j \in Jobs |-> NewJob]
  /\ prereleases = [c \in Commits |-> 0]
  /\ published = [t \in ImageTags |-> 0]
  /\ notes = [v \in Versions |-> NoNotes]
------------------------------------------------------------------------------
(***************************************************************************)
(* Versions                                                                *)
(***************************************************************************)
\* semver's compare.
Older(v, w) == \E i \in 1..4 : v[i] < w[i] /\ \A k \in 1..(i - 1) : v[k] = w[k]

IsPrerelease(v) == v[4] = 0

\* Mutant: a version is the latest whatever other tags there are.
IsLatestAlways(v, S) == TRUE

\* v is what latestVersion() puts first.
IsLatest(v, S) == \A w \in S : ~Older(v, w)

\* Mutant: a pre-release is published as a release is.
TagsToPushAny(v, latest) == <<TagOf(v, 1), TagOf(v, 2), TagOf(v, 4)>>

\* The tags publishImageVersions() pushes one after the other.
TagsToPush(v, latest) ==
  IF IsPrerelease(v) THEN <<TagOf(v, 4)>>
  ELSE (IF latest THEN <<LATEST>> ELSE <<>>) \o <<TagOf(v, 1), TagOf(v, 2), TagOf(v, 4)>>
------------------------------------------------------------------------------
(***************************************************************************)
(* A job                                                                   *)
(***************************************************************************)
Working == {"build", "tag", "publish", "fetch", "patch"}

KeepsRegistry == UNCHANGED <<tags, prereleases, published, notes>>

\* A process that exits leaves what its image was built from.
Exit(j, phase) ==
  job' = [job EXCEPT ![j] = [NewJob EXCEPT !.phase = phase, !.commit = job[j].commit,
                                           !.version = job[j].version]]

\* The workflow checks out the commit, with the tags there are by then.
Start(j, c, type) ==
  /\ job[j].phase = "new"
  /\ \A k \in 1..(j - 1) : job[k].phase # "new"
  /\ job' = [job EXCEPT ![j] = [NewJob EXCEPT !.phase = "build", !.commit = c,
                                              !.type = type, !.clone = tags]]
  /\ KeepsRegistry

\* A command or a request fails before it has any effect: main() rejects and the
\* process exits with 1.  The answer to one that took effect can be lost as well, so
\* each step below that changes something elsewhere may also fail the job.
Fail(j) ==
  /\ job[j].phase \in Working
  /\ Exit(j, "failed")
  /\ KeepsRegistry

\* docker login, the check of publish-type, docker pull, whose failure only
\* costs the cache, docker build and docker push.
PushPrerelease(j) ==
  /\ job[j].phase = "build"
  /\ job[j].type \in {"release", "pre-release"}
  /\ prereleases' = [prereleases EXCEPT ![job[j].commit] = j]
  /\ \/ /\ job[j].type = "release"
        /\ job' = [job EXCEPT ![j].phase = "tag"]
     \/ /\ job[j].type # "release"
        /\ Exit(j, "done")
     \/ Exit(j, "failed")
  /\ UNCHANGED <<tags, published, notes>>

\* The tags of the job's clone, all and those of its commit.
AllTags(j) == {t \in GitTags : job[j].clone[t] # NoCommit}
OwnTags(j) == {t \in GitTags : job[j].clone[t] = job[j].commit}

\* getCommitVersionTag(): a tag that is no version cannot be parsed, and not be
\* sorted among others; for a pre-release those of other commits are not read.
ReadTags(j) ==
  /\ job[j].phase = "tag"
  /\ \/ /\ OwnTags(j) = {}
        /\ Exit(j, "done")
     \/ /\ Unparsed \in OwnTags(j)
        /\ Exit(j, "failed")
     \/ /\ Unparsed \notin OwnTags(j)
        /\ \E v \in OwnTags(j) :
             /\ IsLatest(v, OwnTags(j))
             /\ IF IsPrerelease(v) \/ Unparsed \notin AllTags(j)
                THEN job' = [job EXCEPT ![j].phase = "publish", ![j].version = v,
                              ![j].todo = TagsToPush(v, ~IsPrerelease(v) /\ IsLatest(v, AllTags(j)))]
                ELSE Exit(j, "failed")
  /\ KeepsRegistry

\* docker tag and docker push.
PublishTag(j) ==
  LET todo == job[j].todo IN
  /\ job[j].phase = "publish"
  /\ published' = [published EXCEPT ![Head(todo)] = j]
  /\ \/ job' = [job EXCEPT ![j].todo = Tail(todo),
                           ![j].phase = IF Len(todo) = 1 THEN "fetch" ELSE @]
     \/ Exit(j, "failed")
  /\ UNCHANGED <<tags, prereleases, notes>>

\* The page of the package that findPackageInfoWithVersionTag() looks for is a
\* detail of the section.  Without a release of that tag GitHub answers 404,
\* which fails the job.
FetchRelease(j) ==
  LET body == notes[job[j].version] IN
  /\ job[j].phase = "fetch"
  /\ \/ /\ body = NoNotes
        /\ Exit(j, "failed")
     \/ /\ body # NoNotes
        /\ job' = [job EXCEPT ![j].phase = "patch", ![j].body = body]
  /\ KeepsRegistry

\* The status of the answer is not looked at: refused or not, the job is done.  An
\* answer that does not arrive fails it, with the notes changed or not.
PatchRelease(j) ==
  /\ job[j].phase = "patch"
  /\ \/ notes' = [notes EXCEPT ![job[j].version] = NewBody(job[j].body)]
     \/ UNCHANGED notes
  /\ \E phase \in {"done", "failed"} : Exit(j, phase)
  /\ UNCHANGED <<tags, prereleases, published>>
------------------------------------------------------------------------------
(***************************************************************************)
(* The people of the repository                                            *)
(***************************************************************************)
\* A tag, once pushed, stays where it is.
PushTag(t, c) ==
  /\ tags[t] = NoCommit
  /\ tags' = [tags EXCEPT ![t] = c]
  /\ UNCHANGED <<job, prereleases, published, notes>>

WriteNotes(v, body) ==
  /\ tags[v] # NoCommit
  /\ notes' = [notes EXCEPT ![v] = body]
  /\ UNCHANGED <<tags, job, prereleases, published>>

JobStep(j) ==
  \/ Fail(j) \/ PushPrerelease(j) \/ ReadTags(j) \/ PublishTag(j)
  \/ FetchRelease(j) \/ PatchRelease(j)

Next ==
  \/ \E j \in Jobs : JobStep(j) \/ \E c \in Commits, type \in Types : Start(j, c, type)
  \/ \E t \in GitTags, c \in Commits : PushTag(t, c)
  \/ \E v \in Released, body \in Bodies : WriteNotes(v, body)

Spec == Init /\ [][Next]_vars
------------------------------------------------------------------------------
(***************************************************************************)
(* Properties                                                              *)
(***************************************************************************)
Phases == Working \cup {"new", "done", "failed"}

TypeOK ==
  /\ tags \in [GitTags -> Commits \cup {NoCommit}]
  /\ \A j \in Jobs :
       /\ job[j].phase \in Phases
       /\ job[j].commit \in Commits \cup {NoCommit}
       /\ job[j].version \in Versions \cup {NoVersion}
       /\ job[j].todo \in Seq(ImageTags)
  /\ prereleases \in [Commits -> Image]
  /\ published \in [ImageTags -> Image]

\* Whatever jobs ran side by side, failed half-way and were run again, an
\* image that a tag of the release package names was built from a commit with
\* a git tag of that line, was pushed as a pre-release first, and is no
\* pre-release unless the tag is its full version; and a job that went beyond
\* its pushes has left every tag of its line in place (index.ts:48-85).
TagsNameTheirLine ==
  /\ \A t \in ImageTags : published[t] # 0 =>
       LET i == job[published[t]] IN
       /\ t = TagOf(i.version, Len(t))
       /\ IsPrerelease(i.version) => t = i.version
       /\ tags[i.version] = i.commit
       /\ prereleases[i.commit] # 0
  /\ \A j \in Jobs :
       job[j].phase \in {"fetch", "patch", "done"} /\ job[j].version # NoVersion =>
       \A n \in {1, 2, 4} : n = 4 \/ ~IsPrerelease(job[j].version) =>
         published[TagOf(job[j].version, n)] # 0

\* "latest" goes back to an older version only by a job that had begun before
\* the newer one was tagged (tag.ts:45-46, index.ts:73-76).
LatestMovesForward ==
  [][ published[LATEST] # published'[LATEST] /\ published[LATEST] # 0 =>
        LET old == job[published[LATEST]].version
            new == job[published'[LATEST]]
        IN Older(new.version, old) => new.clone[old] = NoCommit ]_vars

\* A job that writes the notes replaces its own section and nothing else, of
\* notes with their anchors in order and not edited since it read them
\* (index.ts:120-134).
NotesKeepText ==
  [][ \A j \in Jobs, v \in Versions :
        (/\ job[j].phase = "patch" /\ job'[j].phase \in {"done", "failed"}
         /\ notes[v] # notes'[v]
         /\ notes[v] = job[j].body /\ WellFormed(notes[v]))
          => /\ WellFormed(notes'[v]) /\ IndexOf(notes'[v], PACKAGES) # 0
             /\ Outside(notes'[v]) = Outside(notes[v]) ]_vars
==============================================================================
