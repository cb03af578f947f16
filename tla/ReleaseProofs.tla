---------------------------- MODULE ReleaseProofs ----------------------------
(***************************************************************************)
(* Proofs about the jobs that publish images, for any number of jobs,      *)
(* commits and versions.                                                   *)
(***************************************************************************)
EXTENDS Release, SequenceTheorems, WellFoundedInduction, TLAPS

\* The tags that stand for version v.
LineOf(v) == {TagOf(v, n) : n \in {m \in {1, 2, 4} : m = 4 \/ ~IsPrerelease(v)}}

\* A tag that may be pushed for version v.
IsTagFor(t, v) == t = TagOf(v, Len(t)) /\ (IsPrerelease(v) => t = v)

\* The fields of a job.
IsJob(r) ==
  /\ r = [phase |-> r.phase, commit |-> r.commit, type |-> r.type, clone |-> r.clone,
          version |-> r.version, todo |-> r.todo, body |-> r.body]
  /\ r.phase \in Phases

\* What a job knows of the tags was so, and stays so.
CloneIsPast(j) ==
  job[j].phase \in Working =>
    /\ job[j].commit \in Commits
    /\ \A t \in GitTags : job[j].clone[t] # NoCommit => tags[t] = job[j].clone[t]

\* A job that works on a version, or has done so, has one that tags its commit, which
\* was pushed as a pre-release.
VersionIsOwn(j) ==
  /\ job[j].phase \in {"new", "build", "tag"} => job[j].version = NoVersion
  /\ job[j].phase \in {"publish", "fetch", "patch"} => job[j].version # NoVersion
  /\ job[j].phase = "tag" => prereleases[job[j].commit] # 0
  /\ job[j].version # NoVersion =>
       /\ job[j].version \in Versions
       /\ job[j].commit \in Commits
       /\ tags[job[j].version] = job[j].commit
       /\ prereleases[job[j].commit] # 0

\* The tags a job has yet to push are tags of its version; the others are pushed.
TodoIsLine(j) ==
  /\ job[j].phase = "publish" =>
       /\ job[j].todo \in Seq(ImageTags) /\ job[j].todo # <<>>
       /\ \A i \in 1..Len(job[j].todo) : IsTagFor(job[j].todo[i], job[j].version)
       /\ \A t \in LineOf(job[j].version) :
            published[t] # 0 \/ \E i \in 1..Len(job[j].todo) : job[j].todo[i] = t
  /\ job[j].phase \in {"fetch", "patch", "done"} /\ job[j].version # NoVersion =>
       \A t \in LineOf(job[j].version) : published[t] # 0

\* A job that is to push "latest" knows no newer version.
TodoIsLatest(j) ==
  job[j].phase = "publish" =>
    \A i \in 1..Len(job[j].todo) : job[j].todo[i] = LATEST =>
      \A w \in GitTags : job[j].clone[w] # NoCommit => ~Older(job[j].version, w)

JobOK(j) ==
  IsJob(job[j]) /\ CloneIsPast(j) /\ VersionIsOwn(j) /\ TodoIsLine(j) /\ TodoIsLatest(j)

\* An image of the release package was pushed by a job that has a version it tags.
PublishedByJobs ==
  \A t \in ImageTags : published[t] # 0 =>
    /\ job[published[t]].version # NoVersion
    /\ IsTagFor(t, job[published[t]].version)

RegistryType ==
  /\ DOMAIN job = Jobs
  /\ tags \in [GitTags -> Commits \cup {NoCommit}]
  /\ prereleases \in [Commits -> Image]
  /\ published \in [ImageTags -> Image]

IInv == RegistryType /\ PublishedByJobs /\ \A j \in Jobs : JobOK(j)

------------------------------------------------------------------------------
(***************************************************************************)
(* Tags of a version                                                       *)
(***************************************************************************)
\* A version is a sequence of four numbers.
LEMMA VersionIsSequence ==
  ASSUME NEW v \in Versions PROVE v \in Seq(Nat) /\ Len(v) = 4
<1>1. PICK a \in Nat, b \in Nat, c \in Nat, d \in {0, 1} : v = <<a, b, c, d>>
  BY ReleaseAssumption
<1>2. d \in Nat
  OBVIOUS
<1> QED BY <1>1, <1>2

\* What a beginning of a version is.
LEMMA TagsOfVersion ==
  ASSUME NEW v \in Versions, NEW n \in {0, 1, 2, 4}
  PROVE  /\ TagOf(v, n) \in ImageTags
         /\ Len(TagOf(v, n)) = n
         /\ TagOf(v, 4) = v
         /\ TagOf(v, 0) = LATEST
<1>1. v \in Seq(Nat) /\ Len(v) = 4
  BY VersionIsSequence
<1>2. TagOf(v, n) \in ImageTags
  BY DEF ImageTags
<1>3. Len(TagOf(v, n)) = n
  BY <1>1 DEF TagOf
<1>4. TagOf(v, 4) = v /\ TagOf(v, 0) = LATEST
  BY <1>1 DEF TagOf, LATEST
<1> QED BY <1>2, <1>3, <1>4

\* So every tag of the line may be pushed, and so may "latest" for a release.
LEMMA LineTags ==
  ASSUME NEW v \in Versions
  PROVE  /\ LineOf(v) \subseteq ImageTags
         /\ \A t \in LineOf(v) : IsTagFor(t, v) /\ t # LATEST
         /\ ~IsPrerelease(v) => IsTagFor(LATEST, v)
         /\ LATEST \in ImageTags /\ v # NoVersion
<1>1. \A n \in {0, 1, 2, 4} : TagOf(v, n) \in ImageTags /\ Len(TagOf(v, n)) = n
  BY TagsOfVersion
<1>2. TagOf(v, 4) = v /\ TagOf(v, 0) = LATEST
  BY TagsOfVersion
<1>3. Len(LATEST) = 0 /\ Len(NoVersion) = 0
  BY DEF LATEST, NoVersion
<1>4. ASSUME NEW t \in LineOf(v) PROVE t \in ImageTags /\ IsTagFor(t, v) /\ t # LATEST
  <2>1. PICK n \in {1, 2, 4} : t = TagOf(v, n) /\ (n = 4 \/ ~IsPrerelease(v))
    BY DEF LineOf
  <2>2. n \in {0, 1, 2, 4} /\ n # 0
    BY <2>1
  <2>3. t \in ImageTags /\ Len(t) = n
    BY <1>1, <2>1, <2>2
  <2> QED BY <1>2, <1>3, <2>1, <2>2, <2>3 DEF IsTagFor
<1>5. v # NoVersion
  <2>1. Len(v) = 4
    BY VersionIsSequence
  <2> QED BY <1>3, <2>1
<1> QED BY <1>1, <1>2, <1>3, <1>4, <1>5 DEF IsTagFor

\* Four tags in a row.
LEMMA FourTags ==
  ASSUME NEW S, NEW w \in S, NEW x \in S, NEW y \in S, NEW z \in S
  PROVE  /\ <<w>> \o <<x, y, z>> = <<w, x, y, z>>
         /\ <<w, x, y, z>> \in Seq(S) /\ <<w, x, y, z>> # <<>>
         /\ Len(<<w, x, y, z>>) = 4
         /\ <<w, x, y, z>>[1] = w /\ <<w, x, y, z>>[2] = x
         /\ <<w, x, y, z>>[3] = y /\ <<w, x, y, z>>[4] = z
<1>1. Len(<<w>> \o <<x, y, z>>) = 4 /\ <<w>> \o <<x, y, z>> \in Seq(S)
  OBVIOUS
<1>2. <<w, x, y, z>> \in Seq(S) /\ Len(<<w, x, y, z>>) = 4
  OBVIOUS
<1>3. \A i \in 1..4 : (<<w>> \o <<x, y, z>>)[i] = <<w, x, y, z>>[i]
  OBVIOUS
<1>4. <<w>> \o <<x, y, z>> = <<w, x, y, z>>
  BY <1>1, <1>2, <1>3, SeqEqual
<1> QED BY <1>2, <1>4

\* What publishImageVersions() pushes: the whole line, and "latest" at most.
LEMMA TagsPushed ==
  ASSUME NEW v \in Versions, NEW latest \in BOOLEAN,
         NEW s, s = TagsToPush(v, latest)
  PROVE  /\ s \in Seq(ImageTags) /\ s # <<>>
         /\ \A i \in 1..Len(s) : IsTagFor(s[i], v)
         /\ \A t \in LineOf(v) : \E i \in 1..Len(s) : s[i] = t
         /\ \A i \in 1..Len(s) : s[i] = LATEST => latest
<1> DEFINE a == TagOf(v, 1)  b == TagOf(v, 2)  c == TagOf(v, 4)
<1>1. a \in ImageTags /\ b \in ImageTags /\ c \in ImageTags /\ LATEST \in ImageTags
  BY TagsOfVersion, LineTags
<1>2. c \in LineOf(v) /\ (~IsPrerelease(v) => a \in LineOf(v) /\ b \in LineOf(v))
  BY DEF LineOf
<1>3. LineOf(v) \subseteq {a, b, c} /\ (IsPrerelease(v) => LineOf(v) \subseteq {c})
  BY DEF LineOf
<1>4. /\ \A t \in LineOf(v) : IsTagFor(t, v) /\ t # LATEST
      /\ ~IsPrerelease(v) => IsTagFor(LATEST, v)
  BY LineTags
<1>5. \/ IsPrerelease(v) /\ s = <<c>>
      \/ ~IsPrerelease(v) /\ latest /\ s = <<LATEST, a, b, c>>
      \/ ~IsPrerelease(v) /\ s = <<a, b, c>>
  <2>1. CASE IsPrerelease(v)
    BY <2>1 DEF TagsToPush
  <2>2. CASE ~IsPrerelease(v) /\ latest
    <3>1. s = <<LATEST>> \o <<a, b, c>>
      BY <2>2 DEF TagsToPush
    <3> HIDE DEF a, b, c
    <3>2. s = <<LATEST, a, b, c>>
      BY <1>1, <3>1, FourTags
    <3> QED BY <2>2, <3>2
  <2>3. CASE ~IsPrerelease(v) /\ ~latest
    <3>1. s = <<>> \o <<a, b, c>>
      BY <2>3 DEF TagsToPush
    <3> HIDE DEF a, b, c
    <3> QED BY <2>3, <3>1
  <2> QED BY <2>1, <2>2, <2>3
<1> HIDE DEF a, b, c
<1>6. CASE IsPrerelease(v) /\ s = <<c>>
  BY <1>1, <1>2, <1>3, <1>4, <1>6
<1>7. CASE ~IsPrerelease(v) /\ latest /\ s = <<LATEST, a, b, c>>
  <2>0. LET q == <<LATEST, a, b, c>> IN
        /\ q \in Seq(ImageTags) /\ q # <<>> /\ Len(q) = 4
        /\ q[1] = LATEST /\ q[2] = a /\ q[3] = b /\ q[4] = c
    BY <1>1, FourTags, Zenon
  <2>1. s \in Seq(ImageTags) /\ s # <<>> /\ Len(s) = 4
        /\ s[1] = LATEST /\ s[2] = a /\ s[3] = b /\ s[4] = c
    BY <1>7, <2>0, Zenon
  <2>2. \A i \in 1..Len(s) : s[i] \in {LATEST, a, b, c}
    <3>1. \A i \in 1..4 : i = 1 \/ i = 2 \/ i = 3 \/ i = 4
      OBVIOUS
    <3> QED BY <2>1, <3>1
  <2>3. \A i \in 1..Len(s) : IsTagFor(s[i], v)
    BY <1>2, <1>4, <1>7, <2>2
  <2>4. ASSUME NEW t \in LineOf(v) PROVE \E i \in 1..Len(s) : s[i] = t
    BY <1>3, <2>1
  <2> QED BY <1>7, <2>1, <2>3, <2>4
<1>8. CASE ~IsPrerelease(v) /\ s = <<a, b, c>>
  <2>1. s \in Seq(ImageTags) /\ s # <<>> /\ Len(s) = 3
        /\ s[1] = a /\ s[2] = b /\ s[3] = c
    BY <1>1, <1>8
  <2>2. \A i \in 1..Len(s) : s[i] \in {a, b, c}
    BY <1>8
  <2>3. \A i \in 1..Len(s) : IsTagFor(s[i], v) /\ s[i] # LATEST
    BY <1>2, <1>4, <1>8, <2>2
  <2>4. ASSUME NEW t \in LineOf(v) PROVE \E i \in 1..Len(s) : s[i] = t
    BY <1>3, <2>1
  <2> QED BY <2>1, <2>3, <2>4
<1> QED BY <1>5, <1>6, <1>7, <1>8
------------------------------------------------------------------------------
(***************************************************************************)
(* Notes with anchors                                                      *)
(***************************************************************************)
\* A set of numbers has a least one.
LEMMA LeastNumber ==
  ASSUME NEW N, N \subseteq Nat, N # {}
  PROVE  \E n \in N : \A m \in N : ~(m < n)
<1>1. \E x \in N : \A y \in N : ~ (<<y, x>> \in OpToRel(<, Nat))
  BY NatLessThanWellFounded, WFMin
<1> QED BY <1>1 DEF OpToRel

\* A piece that is there is found where it is.
LEMMA FoundPiece ==
  ASSUME NEW body, NEW piece, Len(body) \in Nat,
         NEW i \in 1..Len(body), body[i] = piece
  PROVE  /\ IndexOf(body, piece) \in 1..Len(body)
         /\ body[IndexOf(body, piece)] = piece
<1> DEFINE N == {k \in 1..Len(body) : body[k] = piece}
<1>1. N \subseteq Nat /\ N # {}
  OBVIOUS
<1>2. PICK k \in N : \A m \in N : ~(m < k)
  <2> HIDE DEF N
  <2> QED BY <1>1, LeastNumber
<1>3. \A m \in 1..(k - 1) : body[m] # piece
  BY <1>2
<1> QED BY <1>2, <1>3 DEF IndexOf

\* A piece that is there once is found there, one that is not there is not found.
LEMMA OnlyPiece ==
  ASSUME NEW body, NEW piece, Len(body) \in Nat, NEW i \in 1..Len(body),
         Occurs(body, piece) = {i}
  PROVE  IndexOf(body, piece) = i
<1>1. body[i] = piece
  BY DEF Occurs
<1>2. IndexOf(body, piece) \in 1..Len(body) /\ body[IndexOf(body, piece)] = piece
  BY <1>1, FoundPiece
<1> QED BY <1>2 DEF Occurs

LEMMA NoPiece ==
  ASSUME NEW body, NEW piece, Occurs(body, piece) = {}
  PROVE  IndexOf(body, piece) = 0
  BY DEF Occurs, IndexOf

\* What follows place l.
LEMMA RestOfPieces ==
  ASSUME NEW S, NEW t \in Seq(S), NEW l \in 1..Len(t)
  PROVE  /\ SubSeq(t, l, Len(t)) \in Seq(S)
         /\ Len(SubSeq(t, l, Len(t))) = Len(t) - l + 1
         /\ \A k \in 1..(Len(t) - l + 1) : SubSeq(t, l, Len(t))[k] = t[l + k - 1]
  BY SubSeqProperties

\* The pieces of x, the two anchors' pieces a and b, and y, one after the other.
LEMMA JoinedPieces ==
  ASSUME NEW S, NEW x \in Seq(S), NEW y \in Seq(S), NEW a \in S, NEW b \in S,
         NEW t, t = x \o <<a, b>> \o y
  PROVE  /\ t \in Seq(S)
         /\ Len(t) = Len(x) + 2 + Len(y)
         /\ \A i \in 1..Len(x) : t[i] = x[i]
         /\ t[Len(x) + 1] = a /\ t[Len(x) + 2] = b
         /\ \A i \in 1..Len(y) : t[Len(x) + 2 + i] = y[i]
         /\ SubSeq(t, 1, Len(x)) = x
         /\ \A i \in 1..Len(y) : SubSeq(t, Len(x) + 2 + i, Len(t)) = SubSeq(y, i, Len(y))
<1>1. <<a, b>> \in Seq(S) /\ Len(<<a, b>>) = 2 /\ <<a, b>>[1] = a /\ <<a, b>>[2] = b
  OBVIOUS
<1> DEFINE u == x \o <<a, b>>
<1>2. /\ u \in Seq(S) /\ Len(u) = Len(x) + 2
      /\ \A i \in 1..Len(u) : u[i] = IF i <= Len(x) THEN x[i] ELSE <<a, b>>[i - Len(x)]
  BY <1>1, ConcatProperties
<1>3. t = u \o y
  OBVIOUS
<1> HIDE DEF u
<1>4. /\ t \in Seq(S) /\ Len(t) = Len(u) + Len(y)
      /\ \A i \in 1..(Len(u) + Len(y)) : t[i] = IF i <= Len(u) THEN u[i] ELSE y[i - Len(u)]
  BY <1>2, <1>3, ConcatProperties, SMTT(30)
<1>5. Len(x) \in Nat /\ Len(y) \in Nat
  OBVIOUS
<1>6. \A i \in 1..Len(x) : t[i] = x[i]
  BY <1>2, <1>4, <1>5
<1>7. t[Len(x) + 1] = a /\ t[Len(x) + 2] = b
  BY <1>1, <1>2, <1>4, <1>5
<1>8. \A i \in 1..Len(y) : t[Len(x) + 2 + i] = y[i]
  BY <1>2, <1>4, <1>5
<1>9. SubSeq(t, 1, Len(x)) = x
  <2>1. /\ SubSeq(t, 1, Len(x)) \in Seq(S)
        /\ Len(SubSeq(t, 1, Len(x))) = Len(x)
        /\ \A i \in 1..Len(x) : SubSeq(t, 1, Len(x))[i] = t[i]
    BY <1>2, <1>4, <1>5, SubSeqProperties
  <2> QED BY <1>6, <2>1, SeqEqual
<1>10. ASSUME NEW i \in 1..Len(y)
       PROVE  SubSeq(t, Len(x) + 2 + i, Len(t)) = SubSeq(y, i, Len(y))
  <2> DEFINE l == Len(x) + 2 + i  p == SubSeq(t, l, Len(t))  q == SubSeq(y, i, Len(y))
             n == Len(y) - i + 1
  <2>1. l \in 1..Len(t) /\ Len(t) - l + 1 = n
    BY <1>2, <1>4, <1>5
  <2>2. p \in Seq(S) /\ Len(p) = n /\ \A k \in 1..n : p[k] = t[l + k - 1]
    <3> HIDE DEF l, n
    <3> QED BY ONLY <1>4, <2>1, RestOfPieces
  <2>3. q \in Seq(S) /\ Len(q) = n /\ \A k \in 1..n : q[k] = y[i + k - 1]
    BY <1>5, SubSeqProperties
  <2>4. \A k \in 1..n : t[l + k - 1] = y[i + k - 1]
    <3> SUFFICES ASSUME NEW k \in 1..n PROVE t[l + k - 1] = y[i + k - 1]
      OBVIOUS
    <3> DEFINE m == i + k - 1
    <3>1. m \in 1..Len(y) /\ l + k - 1 = Len(x) + 2 + m
      BY <1>5
    <3>2. t[Len(x) + 2 + m] = y[m]
      <4> HIDE DEF m
      <4> QED BY <1>8, <3>1
    <3> QED BY <3>1, <3>2
  <2>5. p = q
    <3> HIDE DEF p, q, n, l
    <3> QED BY <2>2, <2>3, <2>4, SeqEqual, ZenonT(40)
  <2> QED BY <2>5
<1> QED BY <1>2, <1>4, <1>6, <1>7, <1>8, <1>9, <1>10

\* The anchors are three different pieces of text.
LEMMA AnchorsDiffer ==
  /\ START \in Piece /\ PACKAGES \in Piece /\ END \in Piece
  /\ START # PACKAGES /\ START # END /\ PACKAGES # END
<1>1. START # PACKAGES /\ START # END /\ PACKAGES # END
  BY DEF START, PACKAGES, END
<1> QED BY <1>1 DEF Piece

\* What is before a section, the section and what is behind it.
LEMMA JoinedSection ==
  ASSUME NEW x \in Seq(Piece), NEW y \in Seq(Piece), NEW t, t = x \o <<START, PACKAGES>> \o y
  PROVE  /\ t \in Seq(Piece)
         /\ Len(t) = Len(x) + 2 + Len(y)
         /\ \A i \in 1..Len(x) : t[i] = x[i]
         /\ t[Len(x) + 1] = START /\ t[Len(x) + 2] = PACKAGES
         /\ \A i \in 1..Len(y) : t[Len(x) + 2 + i] = y[i]
         /\ SubSeq(t, 1, Len(x)) = x
         /\ \A i \in 1..Len(y) : SubSeq(t, Len(x) + 2 + i, Len(t)) = SubSeq(y, i, Len(y))
  BY AnchorsDiffer, JoinedPieces, SMTT(30)

LEMMA OutsideSection ==
  ASSUME NEW body, NEW s, NEW e, s # 0, IndexOf(body, START) = s, IndexOf(body, END) = e
  PROVE  Outside(body) = SubSeq(body, 1, s - 1) \o SubSeq(body, e + 1, Len(body))
  BY Zenon DEF Outside

\* A section appended to notes without one leaves them as they are (index.ts:128-130).
LEMMA AppendedSection ==
  ASSUME NEW body \in Seq(Piece), Occurs(body, START) = {}, Occurs(body, END) = {},
         NEW new, new = NewBody(body)
  PROVE  /\ new \in Seq(Piece) /\ WellFormed(new)
         /\ IndexOf(new, PACKAGES) # 0 /\ Outside(new) = Outside(body)
<1> DEFINE n == Len(body)
<1>1. n \in Nat /\ IndexOf(body, START) = 0
  BY NoPiece
<1>2. new = body \o <<START, PACKAGES, END>>
  BY <1>1 DEF NewBody
<1> USE AnchorsDiffer
<1>3. <<START, PACKAGES, END>> = <<START, PACKAGES>> \o <<END>>
  OBVIOUS
<1>4. <<END>> \in Seq(Piece) /\ Len(<<END>>) = 1 /\ <<END>>[1] = END
  OBVIOUS
<1>5. new = body \o <<START, PACKAGES>> \o <<END>>
  <2>1. <<START, PACKAGES>> \in Seq(Piece)
    OBVIOUS
  <2>2. (body \o <<START, PACKAGES>>) \o <<END>> = body \o (<<START, PACKAGES>> \o <<END>>)
    BY <1>4, <2>1, ConcatAssociative
  <2> QED BY <1>2, <1>3, <2>2
<1>6. /\ new \in Seq(Piece) /\ Len(new) = n + 3
      /\ \A i \in 1..n : new[i] = body[i]
      /\ new[n + 1] = START /\ new[n + 2] = PACKAGES /\ new[n + 3] = END
      /\ SubSeq(new, 1, n) = body
  <2>1. /\ new \in Seq(Piece) /\ Len(new) = Len(body) + 2 + Len(<<END>>)
        /\ \A i \in 1..Len(body) : new[i] = body[i]
        /\ new[Len(body) + 1] = START /\ new[Len(body) + 2] = PACKAGES
        /\ \A i \in 1..Len(<<END>>) : new[Len(body) + 2 + i] = <<END>>[i]
        /\ SubSeq(new, 1, Len(body)) = body
    BY <1>4, <1>5, JoinedPieces
  <2>2. new[Len(body) + 2 + 1] = END
    BY <1>4, <2>1
  <2> QED BY <1>1, <1>4, <2>1, <2>2
<1>7. \A i \in 1..n : body[i] # START /\ body[i] # END
  BY DEF Occurs
<1>8. \A i \in 1..(n + 3) : i \in 1..n \/ i = n + 1 \/ i = n + 2 \/ i = n + 3
  BY <1>1
<1>9. Occurs(new, START) = {n + 1} /\ Occurs(new, END) = {n + 3}
  <2> HIDE DEF n
  <2>1. \A i \in 1..(n + 3) : new[i] = START => i = n + 1
    BY <1>6, <1>7, <1>8
  <2>2. \A i \in 1..(n + 3) : new[i] = END => i = n + 3
    BY <1>6, <1>7, <1>8
  <2>3. n + 1 \in 1..(n + 3) /\ n + 3 \in 1..(n + 3)
    BY <1>1
  <2> QED BY <1>6, <2>1, <2>2, <2>3 DEF Occurs
<1>10. Len(new) \in Nat /\ n + 1 \in 1..Len(new) /\ n + 2 \in 1..Len(new) /\ n + 3 \in 1..Len(new)
  BY <1>1, <1>6
<1>11. WellFormed(new)
  <2>1. n + 1 < n + 3
    BY <1>1
  <2> QED BY <1>9, <1>10, <2>1 DEF WellFormed
<1>12. IndexOf(new, PACKAGES) # 0
  <2>1. IndexOf(new, PACKAGES) \in 1..Len(new)
    BY <1>6, <1>10, FoundPiece
  <2> QED BY <1>10, <2>1
<1>13. IndexOf(new, START) = n + 1 /\ IndexOf(new, END) = n + 3
  BY <1>9, <1>10, OnlyPiece
<1>14. Outside(new) = body
  <2> DEFINE p == n + 1  q == n + 3
  <2>1. p # 0 /\ p - 1 = n /\ q + 1 = n + 4
    BY <1>1
  <2>2. Outside(new) = SubSeq(new, 1, p - 1) \o SubSeq(new, q + 1, Len(new))
    <3>1. IndexOf(new, START) = p /\ IndexOf(new, END) = q
      BY <1>13
    <3> HIDE DEF p, q
    <3> QED BY <2>1, <3>1, OutsideSection
  <2>3. SubSeq(new, n + 4, n + 3) = <<>>
    BY <1>1, SubSeqEmpty
  <2>4. body \o <<>> = body
    BY ConcatEmptySeq
  <2> HIDE DEF n
  <2> QED BY <1>6, <2>1, <2>2, <2>3, <2>4
<1>15. Outside(body) = body
  BY <1>1 DEF Outside
<1> QED BY <1>6, <1>11, <1>12, <1>14, <1>15

\* A section put in the place of another leaves what is before and behind (index.ts:131-133).
LEMMA ReplacedSection ==
  ASSUME NEW body \in Seq(Piece), NEW s \in 1..Len(body), NEW e \in 1..Len(body), s < e,
         Occurs(body, START) = {s}, Occurs(body, END) = {e},
         NEW new, new = NewBody(body)
  PROVE  /\ new \in Seq(Piece) /\ WellFormed(new)
         /\ IndexOf(new, PACKAGES) # 0 /\ Outside(new) = Outside(body)
<1> DEFINE x == SubSeq(body, 1, s - 1)  y == SubSeq(body, e, Len(body))
           n == Len(body) - e + 1
<1>1. Len(body) \in Nat /\ s - 1 \in Nat /\ n \in Nat /\ n >= 1 /\ s # 0 /\ e # 0
  OBVIOUS
<1>2. IndexOf(body, START) = s /\ IndexOf(body, END) = e
  BY <1>1, OnlyPiece
<1>3. new = x \o <<START, PACKAGES>> \o y
  BY <1>1, <1>2 DEF NewBody
<1>4. x \in Seq(Piece) /\ Len(x) = s - 1 /\ \A i \in 1..(s - 1) : x[i] = body[i]
  <2>1. \A i \in 1..(s - 1) : body[i] \in Piece
    OBVIOUS
  <2> QED BY <1>1, <2>1, SubSeqProperties
<1>5. y \in Seq(Piece) /\ Len(y) = n /\ \A k \in 1..n : y[k] = body[e + k - 1]
  BY RestOfPieces
<1> USE AnchorsDiffer
<1>6. /\ new \in Seq(Piece) /\ Len(new) = s + 1 + n
      /\ \A i \in 1..(s - 1) : new[i] = body[i]
      /\ new[s] = START /\ new[s + 1] = PACKAGES
      /\ \A i \in 1..n : new[s + 1 + i] = body[e + i - 1]
      /\ SubSeq(new, 1, s - 1) = x
      /\ \A i \in 1..n : SubSeq(new, s + 1 + i, Len(new)) = SubSeq(y, i, n)
  <2> HIDE DEF x, y, n
  <2>1. /\ new \in Seq(Piece) /\ Len(new) = Len(x) + 2 + Len(y)
        /\ \A i \in 1..Len(x) : new[i] = x[i]
        /\ new[Len(x) + 1] = START /\ new[Len(x) + 2] = PACKAGES
        /\ \A i \in 1..Len(y) : new[Len(x) + 2 + i] = y[i]
        /\ SubSeq(new, 1, Len(x)) = x
        /\ \A i \in 1..Len(y) : SubSeq(new, Len(x) + 2 + i, Len(new)) = SubSeq(y, i, Len(y))
    <3>1. /\ START \in Piece /\ PACKAGES \in Piece /\ x \in Seq(Piece) /\ y \in Seq(Piece)
          /\ new = x \o <<START, PACKAGES>> \o y
      BY <1>3, <1>4, <1>5
    <3> QED BY ONLY <3>1, JoinedSection, SMTT(60)
  <2>2. Len(x) + 1 = s /\ Len(x) + 2 = s + 1 /\ Len(x) + 2 + Len(y) = s + 1 + n
    BY <1>1, <1>4, <1>5
  <2>3. /\ Len(new) = s + 1 + n /\ new[s] = START /\ new[s + 1] = PACKAGES
        /\ SubSeq(new, 1, s - 1) = x /\ \A i \in 1..(s - 1) : new[i] = x[i]
    BY <1>4, <2>1, <2>2, Zenon
  <2>4. /\ \A i \in 1..n : new[s + 1 + i] = y[i]
        /\ \A i \in 1..n : SubSeq(new, s + 1 + i, Len(new)) = SubSeq(y, i, n)
    BY <1>5, <2>1, <2>2, Zenon
  <2> QED BY <1>4, <1>5, <2>1, <2>3, <2>4, ZenonT(60)
<1>7. \A i \in 1..Len(body) : (body[i] = START => i = s) /\ (body[i] = END => i = e)
  BY DEF Occurs
<1>8. body[s] = START /\ body[e] = END
  BY DEF Occurs
<1>9. ASSUME NEW i \in 1..(s + 1 + n), new[i] = START PROVE i = s
  <2>1. CASE i \in 1..(s - 1)
    <3>1. i \in 1..Len(body)
      BY <1>1, <2>1
    <3> QED BY <1>6, <1>7, <1>9, <2>1, <3>1, Zenon
  <2>2. CASE i = s + 1
    BY <1>6, <1>9, <2>2
  <2>3. CASE i - (s + 1) \in 1..n
    <3>1. PICK k \in 1..n : i = s + 1 + k /\ e + k - 1 \in 1..Len(body) /\ e + k - 1 # s
      BY <1>1, <2>3
    <3> QED BY <1>6, <1>7, <1>9, <3>1
  <2> QED BY <1>1, <2>1, <2>2, <2>3
<1>10. ASSUME NEW i \in 1..(s + 1 + n), new[i] = END PROVE i = s + 2
  <2>1. CASE i \in 1..(s - 1)
    <3>1. i \in 1..Len(body) /\ i # e
      BY <1>1, <2>1
    <3> QED BY <1>6, <1>7, <1>10, <2>1, <3>1, Zenon
  <2>2. CASE i = s \/ i = s + 1
    BY <1>6, <1>10, <2>2
  <2>3. CASE i - (s + 1) \in 1..n
    <3>1. PICK k \in 1..n : i = s + 1 + k /\ e + k - 1 \in 1..Len(body)
      BY <1>1, <2>3
    <3>2. e + k - 1 = e
      BY <1>6, <1>7, <1>10, <3>1
    <3> QED BY <3>1, <3>2
  <2> QED BY <1>1, <2>1, <2>2, <2>3
<1>11. new[s + 2] = END
  <2>1. 1 \in 1..n /\ s + 1 + 1 = s + 2 /\ e + 1 - 1 = e
    BY <1>1
  <2>2. new[s + 1 + 1] = body[e + 1 - 1]
    BY <1>6, <2>1
  <2> QED BY <1>8, <2>1, <2>2
<1>12. Len(new) \in Nat /\ s \in 1..Len(new) /\ s + 1 \in 1..Len(new) /\ s + 2 \in 1..Len(new)
  BY <1>1, <1>6
<1>13. Occurs(new, START) = {s} /\ Occurs(new, END) = {s + 2}
  <2> HIDE DEF n
  <2> QED BY <1>6, <1>9, <1>10, <1>11, <1>12 DEF Occurs
<1>14. WellFormed(new)
  BY <1>12, <1>13 DEF WellFormed
<1>15. IndexOf(new, PACKAGES) # 0
  <2>1. IndexOf(new, PACKAGES) \in 1..Len(new)
    BY <1>6, <1>12, FoundPiece
  <2> QED BY <1>12, <2>1
<1>16. IndexOf(new, START) = s /\ IndexOf(new, END) = s + 2
  BY <1>12, <1>13, OnlyPiece
<1>17. Outside(new) = x \o SubSeq(new, s + 3, Len(new))
  <2>1. s + 2 + 1 = s + 3
    BY <1>1
  <2>2. Outside(new) = SubSeq(new, 1, s - 1) \o SubSeq(new, s + 2 + 1, Len(new))
    BY <1>1, <1>16, OutsideSection
  <2> QED BY <1>6, <2>1, <2>2, Zenon
<1>18. Outside(body) = x \o SubSeq(body, e + 1, Len(body))
  BY <1>1, <1>2 DEF Outside
<1>19. SubSeq(new, s + 3, Len(new)) = SubSeq(body, e + 1, Len(body))
  <2>1. CASE n = 1
    BY <1>1, <1>6, <2>1, SubSeqEmpty
  <2>2. CASE n # 1
    <3>1. 2 \in 1..n /\ s + 1 + 2 = s + 3
      BY <1>1, <2>2
    <3>2. SubSeq(new, s + 1 + 2, Len(new)) = SubSeq(y, 2, n)
      BY <1>6, <3>1
    <3>3. /\ SubSeq(y, 2, Len(y)) \in Seq(Piece)
          /\ Len(SubSeq(y, 2, Len(y))) = n - 1
          /\ \A k \in 1..(n - 1) : SubSeq(y, 2, Len(y))[k] = y[k + 1]
      <4> HIDE DEF y, n
      <4>1. /\ SubSeq(y, 2, Len(y)) \in Seq(Piece)
            /\ Len(SubSeq(y, 2, Len(y))) = Len(y) - 2 + 1
            /\ \A k \in 1..(Len(y) - 2 + 1) : SubSeq(y, 2, Len(y))[k] = y[2 + k - 1]
        BY <1>5, <3>1, RestOfPieces
      <4> QED BY <1>1, <1>5, <4>1
    <3> DEFINE z == SubSeq(body, e + 1, Len(body))
    <3>4. /\ z \in Seq(Piece) /\ Len(z) = n - 1
          /\ \A k \in 1..(n - 1) : z[k] = body[e + k]
      <4>1. e + 1 \in 1..Len(body)
        BY <2>2
      <4>2. \A k \in 1..(n - 1) : e + 1 + k - 1 = e + k
        OBVIOUS
      <4> QED BY <4>1, <4>2, RestOfPieces
    <3>5. \A k \in 1..(n - 1) : y[k + 1] = body[e + k]
      <4> SUFFICES ASSUME NEW k \in 1..(n - 1) PROVE y[k + 1] = body[e + k]
        OBVIOUS
      <4>1. k + 1 \in 1..n /\ e + (k + 1) - 1 = e + k
        OBVIOUS
      <4> HIDE DEF y, n
      <4> QED BY <1>5, <4>1
    <3>6. SubSeq(y, 2, Len(y)) = z
      <4> HIDE DEF y, z, n
      <4> QED BY <3>3, <3>4, <3>5, SeqEqual
    <3> QED BY <1>5, <3>1, <3>2, <3>6
  <2> QED BY <2>1, <2>2
<1> QED BY <1>6, <1>14, <1>15, <1>17, <1>18, <1>19

------------------------------------------------------------------------------
(***************************************************************************)
(* Steps                                                                   *)
(***************************************************************************)
\* What no step takes back: tags and images stay.
Grows ==
  /\ \A t \in GitTags : tags[t] # NoCommit => tags'[t] = tags[t]
  /\ \A c \in Commits : prereleases[c] # 0 => prereleases'[c] # 0
  /\ \A t \in ImageTags : published[t] # 0 => published'[t] # 0

\* A job that does not step is not disturbed by one that does.
LEMMA OthersStayOK ==
  ASSUME NEW k \in Jobs, JobOK(k), Grows, job'[k] = job[k]
  PROVE  JobOK(k)'
<1> USE ReleaseAssumption
<1>1. IsJob(job[k])' /\ TodoIsLatest(k)'
  BY DEF JobOK, IsJob, TodoIsLatest
<1>2. CloneIsPast(k)'
  BY DEF JobOK, CloneIsPast, Grows
<1>3. VersionIsOwn(k)'
  <2>1. job[k].phase = "tag" => job[k].commit \in Commits
    BY DEF JobOK, CloneIsPast, Working
  <2>2. job[k].version # NoVersion => tags[job[k].version] # NoCommit /\ job[k].version \in GitTags
    BY DEF JobOK, VersionIsOwn, GitTags
  <2> QED BY <2>1, <2>2 DEF JobOK, VersionIsOwn, Grows
<1>4. TodoIsLine(k)'
  <2>1. ASSUME job[k].version # NoVersion PROVE LineOf(job[k].version) \subseteq ImageTags
    BY <2>1, LineTags DEF JobOK, VersionIsOwn
  <2>2. job[k].phase = "publish" => job[k].version # NoVersion
    BY DEF JobOK, VersionIsOwn
  <2> QED BY <2>1, <2>2 DEF JobOK, TodoIsLine, Grows
<1> QED BY <1>1, <1>2, <1>3, <1>4 DEF JobOK

\* The fields of a record with a job's fields.
LEMMA JobRecord ==
  ASSUME NEW p \in Phases, NEW c, NEW ty, NEW cl, NEW v, NEW td, NEW b, NEW r,
         r = [phase |-> p, commit |-> c, type |-> ty, clone |-> cl,
              version |-> v, todo |-> td, body |-> b]
  PROVE  IsJob(r) /\ r.phase = p /\ r.commit = c /\ r.version = v
  BY DEF IsJob

\* The same of a record with anything in the fields that do not matter.
LEMMA SomeJobRecord ==
  ASSUME NEW p \in Phases, NEW c, NEW v, NEW r,
         \E ty, cl, td, b :
           r = [phase |-> p, commit |-> c, type |-> ty, clone |-> cl,
                version |-> v, todo |-> td, body |-> b]
  PROVE  IsJob(r) /\ r.phase = p /\ r.commit = c /\ r.version = v
<1>1. PICK ty, cl, td, b :
        r = [phase |-> p, commit |-> c, type |-> ty, clone |-> cl,
             version |-> v, todo |-> td, body |-> b]
  OBVIOUS
<1> QED BY <1>1, JobRecord

\* A job that exits.
LEMMA ExitJob ==
  ASSUME RegistryType, NEW j \in Jobs, NEW p, Exit(j, p)
  PROVE  /\ DOMAIN job' = Jobs
         /\ \A k \in Jobs : k # j => job'[k] = job[k]
         /\ job'[j] = [phase |-> p, commit |-> job[j].commit, type |-> "", clone |-> <<>>,
                       version |-> job[j].version, todo |-> <<>>, body |-> NoNotes]
  BY DEF Exit, NewJob, RegistryType

\* A job that exits is left with a version whose images it pushed, unless it failed.
LEMMA ExitOK ==
  ASSUME RegistryType, NEW j \in Jobs, JobOK(j), Grows, job[j].phase \in Working,
         NEW p \in {"failed", "done"}, Exit(j, p),
         p = "failed" \/ job[j].phase \in {"build", "tag", "patch"}
  PROVE  JobOK(j)' /\ job'[j].version = job[j].version
<1> USE ReleaseAssumption
<1>1. \E ty, cl, td, b :
        job'[j] = [phase |-> p, commit |-> job[j].commit, type |-> ty, clone |-> cl,
                   version |-> job[j].version, todo |-> td, body |-> b]
  <2>1. job'[j] = [phase |-> p, commit |-> job[j].commit, type |-> "", clone |-> <<>>,
                   version |-> job[j].version, todo |-> <<>>, body |-> NoNotes]
    BY ExitJob
  <2> QED BY <2>1, Zenon
<1>2. job'[j].phase = p /\ job'[j].version = job[j].version /\ job'[j].commit = job[j].commit
      /\ IsJob(job'[j])
  <2>1. p \in Phases
    BY DEF Phases
  <2> QED BY <1>1, <2>1, SomeJobRecord
<1>3. CloneIsPast(j)' /\ TodoIsLatest(j)'
  BY <1>2 DEF CloneIsPast, TodoIsLatest, Working
<1>4. VersionIsOwn(j)'
  <2>1. job[j].version # NoVersion => tags[job[j].version] # NoCommit /\ job[j].version \in GitTags
    BY DEF JobOK, VersionIsOwn, GitTags
  <2> QED BY <1>2, <2>1 DEF JobOK, VersionIsOwn, Grows
<1>5. TodoIsLine(j)'
  <2> SUFFICES ASSUME p = "done", job[j].version # NoVersion, NEW t \in LineOf(job[j].version)
               PROVE  published'[t] # 0
    BY <1>2 DEF TodoIsLine
  <2>1. job[j].phase = "patch" /\ published[t] # 0
    BY DEF JobOK, VersionIsOwn, TodoIsLine
  <2>2. t \in ImageTags
    BY LineTags DEF JobOK, VersionIsOwn
  <2> QED BY <2>1, <2>2 DEF Grows
<1> QED BY <1>2, <1>3, <1>4, <1>5 DEF JobOK, IsJob

\* A job keeps the version it once has.
VersionsStay == \A k \in Jobs : job[k].version # NoVersion => job'[k].version = job[k].version

\* A tag of the package that moves names an image of its line.
PushesOwn ==
  \A t \in ImageTags : published'[t] # published[t] =>
    /\ published'[t] \in Jobs
    /\ job[published'[t]].version # NoVersion
    /\ IsTagFor(t, job[published'[t]].version)

\* What a step of job j owes, when it leaves the other jobs alone.
StepOK(j) ==
  /\ RegistryType' /\ Grows /\ PushesOwn
  /\ \A k \in Jobs : k # j => job'[k] = job[k]
  /\ job[j].version # NoVersion => job'[j].version = job[j].version
  /\ JobOK(j)'

\* It is enough to look at the job that steps.
LEMMA StepKeepsIInv ==
  ASSUME IInv, NEW j \in Jobs, StepOK(j)
  PROVE  IInv'
<1>1. ASSUME NEW k \in Jobs PROVE JobOK(k)'
  <2>1. CASE k = j
    BY <2>1 DEF StepOK
  <2>2. CASE k # j
    BY <2>2, OthersStayOK DEF StepOK, IInv
  <2> QED BY <2>1, <2>2
<1>2. VersionsStay
  BY DEF StepOK, VersionsStay
<1>3. PublishedByJobs'
  <2> SUFFICES ASSUME NEW t \in ImageTags, published'[t] # 0
               PROVE  /\ job'[published'[t]].version # NoVersion
                      /\ IsTagFor(t, job'[published'[t]].version)
    BY DEF PublishedByJobs, IsTagFor
  <2>1. CASE published'[t] = published[t]
    <3>1. published[t] \in Jobs
      BY <2>1 DEF IInv, RegistryType, Image
    <3> QED BY <2>1, <3>1, <1>2 DEF IInv, PublishedByJobs, VersionsStay
  <2>2. CASE published'[t] # published[t]
    BY <2>2, <1>2 DEF StepOK, PushesOwn, VersionsStay
  <2> QED BY <2>1, <2>2
<1>4. RegistryType'
  BY DEF StepOK
<1> QED BY <1>1, <1>3, <1>4 DEF IInv

\* A step that leaves the registry alone takes nothing back.
LEMMA KeptRegistry ==
  ASSUME RegistryType, DOMAIN job' = Jobs, KeepsRegistry
  PROVE  RegistryType' /\ Grows /\ PushesOwn
  BY DEF KeepsRegistry, RegistryType, Grows, PushesOwn

\* A job that exits in the middle of its work.
LEMMA ExitStep ==
  ASSUME IInv, NEW j \in Jobs, job[j].phase \in Working, RegistryType', Grows, PushesOwn,
         NEW p \in {"failed", "done"}, Exit(j, p),
         p = "failed" \/ job[j].phase \in {"build", "tag", "patch"}
  PROVE  StepOK(j)
<1>1. RegistryType /\ JobOK(j)
  BY DEF IInv
<1>2. JobOK(j)' /\ job'[j].version = job[j].version
  BY <1>1, ExitOK
<1>3. \A k \in Jobs : k # j => job'[k] = job[k]
  BY <1>1, ExitJob
<1> QED BY <1>2, <1>3 DEF StepOK

\* The same for an exit that leaves the registry alone.
LEMMA QuietExit ==
  ASSUME IInv, NEW j \in Jobs, job[j].phase \in Working, KeepsRegistry,
         NEW p \in {"failed", "done"}, Exit(j, p),
         p = "failed" \/ job[j].phase \in {"build", "tag", "patch"}
  PROVE  StepOK(j)
<1>1. RegistryType /\ DOMAIN job' = Jobs
  BY ExitJob DEF IInv
<1>2. RegistryType' /\ Grows /\ PushesOwn
  BY <1>1, KeptRegistry
<1> QED BY <1>2, ExitStep

LEMMA StartStep ==
  ASSUME IInv, NEW j \in Jobs, NEW c \in Commits, NEW type, Start(j, c, type)
  PROVE  StepOK(j)
<1>1. DOMAIN job' = Jobs /\ (\A k \in Jobs : k # j => job'[k] = job[k])
  BY DEF Start, IInv, RegistryType
<1>2. job'[j] = [phase |-> "build", commit |-> c, type |-> type, clone |-> tags,
                 version |-> NoVersion, todo |-> <<>>, body |-> NoNotes]
  BY DEF Start, NewJob, IInv, RegistryType
<1>3. RegistryType' /\ Grows /\ PushesOwn
  BY <1>1, KeptRegistry DEF Start, IInv
<1>4. job[j].version = NoVersion
  BY DEF Start, IInv, JobOK, VersionIsOwn
<1>5. job'[j].phase = "build" /\ job'[j].commit = c /\ job'[j].clone = tags
      /\ job'[j].version = NoVersion
  BY <1>2
<1>6. IsJob(job'[j])
  BY <1>2 DEF IsJob, Phases, Working
<1>7. tags' = tags
  BY DEF Start, KeepsRegistry
<1>8. CloneIsPast(j)' /\ VersionIsOwn(j)' /\ TodoIsLine(j)' /\ TodoIsLatest(j)'
  BY <1>5, <1>7 DEF CloneIsPast, VersionIsOwn, TodoIsLine, TodoIsLatest
<1>9. JobOK(j)'
  BY <1>6, <1>8 DEF JobOK, IsJob
<1> QED BY <1>1, <1>3, <1>4, <1>9 DEF StepOK

LEMMA PushPrereleaseStep ==
  ASSUME IInv, NEW j \in Jobs, PushPrerelease(j)
  PROVE  StepOK(j)
<1> USE ReleaseAssumption
<1>0. job[j].commit \in Commits /\ job[j].phase = "build" /\ job[j].version = NoVersion /\ j # 0
  BY DEF IInv, JobOK, CloneIsPast, VersionIsOwn, PushPrerelease, Working, Jobs
<1>1. prereleases' = [prereleases EXCEPT ![job[j].commit] = j] /\ UNCHANGED <<tags, published>>
  BY DEF PushPrerelease
<1>2. DOMAIN job' = Jobs
  BY DEF PushPrerelease, Exit, IInv, RegistryType
<1>3. RegistryType'
  BY <1>0, <1>1, <1>2 DEF RegistryType, IInv, Image
<1>4. Grows /\ PushesOwn /\ prereleases'[job[j].commit] # 0
  BY <1>0, <1>1 DEF Grows, PushesOwn, IInv, RegistryType
<1>5. ASSUME NEW p \in {"done", "failed"}, Exit(j, p) PROVE StepOK(j)
  <2>1. job[j].phase \in Working
    BY <1>0 DEF Working
  <2> QED BY <1>0, <1>3, <1>4, <1>5, <2>1, ExitStep
<1>6. CASE job' = [job EXCEPT ![j].phase = "tag"]
  <2>1. IsJob(job[j])
    BY DEF IInv, JobOK
  <2>2. job'[j] = [phase |-> "tag", commit |-> job[j].commit, type |-> job[j].type,
                   clone |-> job[j].clone, version |-> job[j].version,
                   todo |-> job[j].todo, body |-> job[j].body]
    BY <1>6, <2>1 DEF IsJob, IInv, RegistryType
  <2>3. IsJob(job'[j])
    BY <2>2 DEF IsJob, Phases, Working
  <2>4. job'[j].phase = "tag" /\ job'[j].commit = job[j].commit
        /\ job'[j].clone = job[j].clone /\ job'[j].version = NoVersion
    BY <1>0, <2>2
  <2>5. CloneIsPast(j)'
    BY <1>0, <1>1, <2>4 DEF IInv, JobOK, CloneIsPast, Working
  <2>6. VersionIsOwn(j)' /\ TodoIsLine(j)' /\ TodoIsLatest(j)'
    BY <1>4, <2>4 DEF VersionIsOwn, TodoIsLine, TodoIsLatest
  <2>7. JobOK(j)'
    BY <2>3, <2>5, <2>6 DEF JobOK, IsJob
  <2>8. \A k \in Jobs : k # j => job'[k] = job[k]
    BY <1>6 DEF IInv, RegistryType
  <2> QED BY <1>0, <1>3, <1>4, <2>7, <2>8 DEF StepOK
<1> QED BY <1>5, <1>6 DEF PushPrerelease

LEMMA ReadTagsStep ==
  ASSUME IInv, NEW j \in Jobs, ReadTags(j)
  PROVE  StepOK(j)
<1> USE ReleaseAssumption
<1>0. job[j].phase = "tag" /\ job[j].phase \in Working /\ KeepsRegistry
  BY DEF ReadTags, Working
<1>1. CASE Exit(j, "done") \/ Exit(j, "failed")
  BY <1>0, <1>1, QuietExit
<1>2. ASSUME NEW v \in OwnTags(j), NEW s, Unparsed \notin OwnTags(j),
             s = TagsToPush(v, ~IsPrerelease(v) /\ IsLatest(v, AllTags(j))),
             job' = [job EXCEPT ![j].phase = "publish", ![j].version = v, ![j].todo = s]
      PROVE  StepOK(j)
  <2>1. IsJob(job[j]) /\ job[j].version = NoVersion /\ job[j].commit \in Commits
        /\ prereleases[job[j].commit] # 0
    BY <1>0 DEF IInv, JobOK, VersionIsOwn, CloneIsPast
  <2>2. v \in Versions /\ job[j].clone[v] = job[j].commit
    BY <1>2 DEF OwnTags, GitTags
  <2>3. tags[v] = job[j].commit
    <3>1. v \in GitTags
      BY <2>2 DEF GitTags
    <3> QED BY <1>0, <2>1, <2>2, <3>1 DEF IInv, JobOK, CloneIsPast
  <2>4. job'[j] = [phase |-> "publish", commit |-> job[j].commit, type |-> job[j].type,
                   clone |-> job[j].clone, version |-> v, todo |-> s, body |-> job[j].body]
    BY <1>2, <2>1 DEF IsJob, IInv, RegistryType
  <2>5. job'[j].phase = "publish" /\ job'[j].commit = job[j].commit
        /\ job'[j].clone = job[j].clone /\ job'[j].version = v /\ job'[j].todo = s
    BY <2>4
  <2>6. DOMAIN job' = Jobs /\ (\A k \in Jobs : k # j => job'[k] = job[k])
    BY <1>2 DEF IInv, RegistryType
  <2>7. IsJob(job'[j])
    BY <2>4 DEF IsJob, Phases, Working
  <2>8. CloneIsPast(j)'
    BY <1>0, <2>1, <2>5 DEF IInv, JobOK, CloneIsPast, KeepsRegistry
  <2>9. VersionIsOwn(j)'
    <3>1. v # NoVersion
      BY <2>2, LineTags
    <3> QED BY <3>1, <1>0, <2>1, <2>2, <2>3, <2>5 DEF VersionIsOwn, KeepsRegistry
  <2>10. /\ s \in Seq(ImageTags) /\ s # <<>>
         /\ \A i \in 1..Len(s) : IsTagFor(s[i], v)
         /\ \A t \in LineOf(v) : \E i \in 1..Len(s) : s[i] = t
         /\ \A i \in 1..Len(s) : s[i] = LATEST => ~IsPrerelease(v) /\ IsLatest(v, AllTags(j))
    <3>1. (~IsPrerelease(v) /\ IsLatest(v, AllTags(j))) \in BOOLEAN
      BY Zenon
    <3>2. ASSUME NEW l \in BOOLEAN, s = TagsToPush(v, l)
          PROVE  /\ s \in Seq(ImageTags) /\ s # <<>>
                 /\ \A i \in 1..Len(s) : IsTagFor(s[i], v)
                 /\ \A t \in LineOf(v) : \E i \in 1..Len(s) : s[i] = t
                 /\ \A i \in 1..Len(s) : s[i] = LATEST => l
      BY <2>2, <3>2, TagsPushed
    <3> QED BY <1>2, <3>1, <3>2, Zenon
  <2>11. TodoIsLine(j)'
    <3>1. job'[j].todo \in Seq(ImageTags) /\ job'[j].todo # <<>>
      BY <2>5, <2>10
    <3>2. \A i \in 1..Len(job'[j].todo) : IsTagFor(job'[j].todo[i], job'[j].version)
      BY <2>5, <2>10
    <3>3. \A t \in LineOf(job'[j].version) : \E i \in 1..Len(job'[j].todo) : job'[j].todo[i] = t
      BY <2>5, <2>10
    <3>4. job'[j].phase \notin {"fetch", "patch", "done"}
      BY <2>5
    <3> QED BY <3>1, <3>2, <3>3, <3>4 DEF TodoIsLine, IsTagFor, LineOf
  <2>12. TodoIsLatest(j)'
    BY <2>5, <2>10 DEF TodoIsLatest, IsLatest, AllTags
  <2>13. JobOK(j)'
    BY <2>7, <2>8, <2>9, <2>11, <2>12 DEF JobOK, IsJob
  <2>14. RegistryType' /\ Grows /\ PushesOwn
    BY <1>0, <2>6, KeptRegistry DEF IInv
  <2> QED BY <2>1, <2>6, <2>13, <2>14 DEF StepOK
<1>3. \/ Exit(j, "done") \/ Exit(j, "failed")
      \/ /\ Unparsed \notin OwnTags(j)
         /\ \E v \in OwnTags(j) :
              job' = [job EXCEPT ![j].phase = "publish", ![j].version = v,
                        ![j].todo = TagsToPush(v, ~IsPrerelease(v) /\ IsLatest(v, AllTags(j)))]
  BY DEF ReadTags
<1> QED BY <1>1, <1>2, <1>3

\* A version's tag is pushed, whether or not its job lives to learn of it.
LEMMA TagIsPushed ==
  ASSUME IInv, NEW j \in Jobs, PublishTag(j), DOMAIN job' = Jobs
  PROVE  /\ RegistryType' /\ Grows /\ PushesOwn
         /\ published'[Head(job[j].todo)] = j
<1> USE ReleaseAssumption
<1> DEFINE todo == job[j].todo  v == job[j].version
<1>1. job[j].phase = "publish" /\ IsJob(job[j]) /\ j # 0 /\ v # NoVersion /\ v \in Versions
  BY DEF PublishTag, IInv, JobOK, VersionIsOwn, Jobs
<1>2. /\ todo \in Seq(ImageTags) /\ todo # <<>>
      /\ \A i \in 1..Len(todo) : IsTagFor(todo[i], v)
      /\ \A t \in LineOf(v) : published[t] # 0 \/ \E i \in 1..Len(todo) : todo[i] = t
  BY <1>1 DEF IInv, JobOK, TodoIsLine
<1>3. /\ Head(todo) = todo[1] /\ Head(todo) \in ImageTags /\ Len(todo) \in Nat /\ Len(todo) >= 1
      /\ Tail(todo) \in Seq(ImageTags) /\ Len(Tail(todo)) = Len(todo) - 1
      /\ \A i \in 1..Len(Tail(todo)) : Tail(todo)[i] = todo[i + 1]
  BY <1>2, HeadTailProperties
<1>4. published' = [published EXCEPT ![Head(todo)] = j] /\ UNCHANGED <<tags, prereleases>>
  BY DEF PublishTag
<1>5. RegistryType'
  BY <1>3, <1>4 DEF RegistryType, IInv, Image
<1>6. published'[Head(todo)] = j /\ \A t \in ImageTags : published'[t] \in {published[t], j}
  BY <1>3, <1>4 DEF IInv, RegistryType
<1>7. Grows
  BY <1>1, <1>4, <1>6 DEF Grows
<1>8. PushesOwn
  <2> SUFFICES ASSUME NEW t \in ImageTags, published'[t] # published[t]
               PROVE  t = Head(todo) /\ published'[t] = j
    BY <1>1, <1>2, <1>3 DEF PushesOwn
  <2> QED BY <1>3, <1>4 DEF IInv, RegistryType
<1> QED BY <1>5, <1>6, <1>7, <1>8

\* The job goes on to the next tag, or to the notes.
GoesOn(j) ==
  job' = [job EXCEPT ![j].todo = Tail(job[j].todo),
                     ![j].phase = IF Len(job[j].todo) = 1 THEN "fetch" ELSE @]

LEMMA NextTagStep ==
  ASSUME IInv, NEW j \in Jobs, PublishTag(j), GoesOn(j)
  PROVE  StepOK(j)
<1> USE ReleaseAssumption
<1> DEFINE todo == job[j].todo  v == job[j].version
           phase == IF Len(todo) = 1 THEN "fetch" ELSE "publish"
<1>1. job[j].phase = "publish" /\ IsJob(job[j]) /\ j # 0 /\ v # NoVersion /\ v \in Versions
  BY DEF PublishTag, IInv, JobOK, VersionIsOwn, Jobs
<1>2. /\ todo \in Seq(ImageTags) /\ todo # <<>>
      /\ \A i \in 1..Len(todo) : IsTagFor(todo[i], v)
      /\ \A t \in LineOf(v) : published[t] # 0 \/ \E i \in 1..Len(todo) : todo[i] = t
  BY <1>1 DEF IInv, JobOK, TodoIsLine
<1>3. /\ Head(todo) = todo[1] /\ Head(todo) \in ImageTags /\ Len(todo) \in Nat /\ Len(todo) >= 1
      /\ Tail(todo) \in Seq(ImageTags) /\ Len(Tail(todo)) = Len(todo) - 1
      /\ \A i \in 1..Len(Tail(todo)) : Tail(todo)[i] = todo[i + 1]
  BY <1>2, HeadTailProperties
<1>4. published' = [published EXCEPT ![Head(todo)] = j] /\ UNCHANGED <<tags, prereleases>>
  BY DEF PublishTag
<1>5. DOMAIN job' = Jobs /\ (\A k \in Jobs : k # j => job'[k] = job[k])
  BY DEF GoesOn, IInv, RegistryType
<1>6. job'[j] = [phase |-> phase, commit |-> job[j].commit, type |-> job[j].type,
                 clone |-> job[j].clone, version |-> v, todo |-> Tail(todo),
                 body |-> job[j].body]
  BY <1>1 DEF GoesOn, IsJob, IInv, RegistryType
<1>7. phase \in {"fetch", "publish"} /\ (phase = "fetch" <=> Len(todo) = 1)
  OBVIOUS
<1>8. RegistryType' /\ Grows /\ PushesOwn /\ published'[Head(todo)] = j
  BY <1>5, TagIsPushed
<1> HIDE DEF phase
<1>9. job'[j].phase = phase /\ job'[j].commit = job[j].commit /\ job'[j].clone = job[j].clone
       /\ job'[j].version = v /\ job'[j].todo = Tail(todo)
  BY <1>6
<1>10. IsJob(job'[j])
  BY <1>6, <1>7 DEF IsJob, Phases, Working
<1>11. CloneIsPast(j)'
  BY <1>1, <1>4, <1>9 DEF IInv, JobOK, CloneIsPast, Working
<1>12. VersionIsOwn(j)'
  BY <1>1, <1>4, <1>7, <1>9 DEF IInv, JobOK, VersionIsOwn
<1>13. ASSUME NEW t \in LineOf(v)
       PROVE  \/ published'[t] # 0
              \/ \E i \in 1..Len(Tail(todo)) : Tail(todo)[i] = t
  <2>0. t \in ImageTags
    BY <1>1, LineTags
  <2>1. CASE published[t] # 0
    BY <1>8, <2>0, <2>1 DEF Grows
  <2>2. CASE \E i \in 1..Len(todo) : todo[i] = t
    <3>1. PICK i \in 1..Len(todo) : todo[i] = t
      BY <2>2
    <3>2. CASE i = 1
      BY <1>1, <1>3, <1>8, <3>1, <3>2
    <3>3. CASE i # 1
      <4>1. i - 1 \in 1..Len(Tail(todo)) /\ (i - 1) + 1 = i
        BY <1>3, <3>3
      <4> QED BY <1>3, <3>1, <4>1
    <3> QED BY <3>2, <3>3
  <2> QED BY <1>2, <2>1, <2>2
<1>14. \A i \in 1..Len(Tail(todo)) : i + 1 \in 1..Len(todo)
  BY <1>3
<1>15. TodoIsLine(j)'
  <2>1. \A i \in 1..Len(Tail(todo)) : IsTagFor(Tail(todo)[i], v)
    BY <1>2, <1>3, <1>14
  <2>2. phase = "publish" => Tail(todo) # <<>>
    <3>1. Len(Tail(todo)) = 0 => Len(todo) = 1
      BY <1>3
    <3>2. Tail(todo) = <<>> => Len(Tail(todo)) = 0
      BY <1>3, EmptySeq
    <3> QED BY <1>7, <3>1, <3>2
  <2>3. phase = "fetch" => \A t \in LineOf(v) : published'[t] # 0
    BY <1>3, <1>7, <1>13
  <2> HIDE DEF todo, v
  <2> QED BY <1>3, <1>7, <1>9, <1>13, <2>1, <2>2, <2>3 DEF TodoIsLine, IsTagFor, LineOf
<1>16. TodoIsLatest(j)'
  <2>1. \A i \in 1..Len(todo) : todo[i] = LATEST =>
          \A w \in GitTags : job[j].clone[w] # NoCommit => ~Older(v, w)
    BY <1>1 DEF IInv, JobOK, TodoIsLatest
  <2>2. \A i \in 1..Len(Tail(todo)) : Tail(todo)[i] = LATEST =>
          \A w \in GitTags : job[j].clone[w] # NoCommit => ~Older(v, w)
    BY <1>3, <1>14, <2>1
  <2> QED BY <1>9, <2>2 DEF TodoIsLatest
<1>17. JobOK(j)'
  BY <1>10, <1>11, <1>12, <1>15, <1>16 DEF JobOK, IsJob
<1> QED BY <1>5, <1>8, <1>9, <1>17 DEF StepOK

LEMMA PublishTagStep ==
  ASSUME IInv, NEW j \in Jobs, PublishTag(j)
  PROVE  StepOK(j)
<1>1. CASE Exit(j, "failed")
  <2>1. DOMAIN job' = Jobs
    BY <1>1 DEF Exit, IInv, RegistryType
  <2>2. job[j].phase \in Working
    BY DEF PublishTag, Working
  <2>3. RegistryType' /\ Grows /\ PushesOwn
    BY <2>1, TagIsPushed
  <2> QED BY <1>1, <2>2, <2>3, ExitStep
<1> QED BY <1>1, NextTagStep DEF PublishTag, GoesOn

LEMMA FetchReleaseStep ==
  ASSUME IInv, NEW j \in Jobs, FetchRelease(j)
  PROVE  StepOK(j)
<1>0. job[j].phase = "fetch" /\ job[j].phase \in Working /\ KeepsRegistry /\ JobOK(j)
  BY DEF FetchRelease, Working, IInv
<1>1. CASE Exit(j, "failed")
  BY <1>0, <1>1, QuietExit
<1>2. ASSUME NEW body, job' = [job EXCEPT ![j].phase = "patch", ![j].body = body]
      PROVE  StepOK(j)
  <2>1. IsJob(job[j])
    BY <1>0 DEF JobOK
  <2>2. job'[j] = [phase |-> "patch", commit |-> job[j].commit, type |-> job[j].type,
                   clone |-> job[j].clone, version |-> job[j].version,
                   todo |-> job[j].todo, body |-> body]
    BY <1>2, <2>1 DEF IsJob, IInv, RegistryType
  <2>3. job'[j].phase = "patch" /\ job'[j].commit = job[j].commit
        /\ job'[j].clone = job[j].clone /\ job'[j].version = job[j].version
    BY <2>2
  <2>4. IsJob(job'[j])
    BY <2>2 DEF IsJob, Phases, Working
  <2>5. CloneIsPast(j)' /\ VersionIsOwn(j)'
    BY <1>0, <2>3 DEF JobOK, CloneIsPast, VersionIsOwn, KeepsRegistry
  <2>6. TodoIsLine(j)' /\ TodoIsLatest(j)'
    BY <1>0, <2>3 DEF JobOK, TodoIsLine, TodoIsLatest, KeepsRegistry, LineOf
  <2>7. JobOK(j)'
    BY <2>4, <2>5, <2>6 DEF JobOK, IsJob
  <2>8. DOMAIN job' = Jobs /\ (\A k \in Jobs : k # j => job'[k] = job[k])
    BY <1>2 DEF IInv, RegistryType
  <2>9. RegistryType' /\ Grows /\ PushesOwn
    BY <1>0, <2>8, KeptRegistry DEF IInv
  <2> QED BY <2>3, <2>7, <2>8, <2>9 DEF StepOK
<1> QED BY <1>1, <1>2 DEF FetchRelease

LEMMA JobStepOK ==
  ASSUME IInv, NEW j \in Jobs, JobStep(j)
  PROVE  StepOK(j)
<1>1. CASE Fail(j)
  BY <1>1, QuietExit DEF Fail
<1>2. CASE PushPrerelease(j)
  BY <1>2, PushPrereleaseStep
<1>3. CASE ReadTags(j)
  BY <1>3, ReadTagsStep
<1>4. CASE PublishTag(j)
  BY <1>4, PublishTagStep
<1>5. CASE FetchRelease(j)
  BY <1>5, FetchReleaseStep
<1>6. CASE PatchRelease(j)
  <2>1. DOMAIN job' = Jobs /\ job[j].phase = "patch" /\ job[j].phase \in Working
    BY <1>6 DEF PatchRelease, Exit, IInv, RegistryType, Working
  <2>2. RegistryType' /\ Grows /\ PushesOwn
    BY <1>6, <2>1 DEF PatchRelease, IInv, RegistryType, Grows, PushesOwn
  <2>3. PICK p \in {"done", "failed"} : Exit(j, p)
    BY <1>6 DEF PatchRelease
  <2> QED BY <2>1, <2>2, <2>3, ExitStep
<1> QED BY <1>1, <1>2, <1>3, <1>4, <1>5, <1>6 DEF JobStep

\* People only add tags; notes are of no concern here.
LEMMA PeopleStep ==
  ASSUME IInv, UNCHANGED <<job, prereleases, published>>,
         \/ tags' = tags
         \/ \E t \in GitTags, c \in Commits : tags[t] = NoCommit /\ tags' = [tags EXCEPT ![t] = c]
  PROVE  IInv'
<1>1. RegistryType' /\ Grows
  BY DEF IInv, RegistryType, Grows
<1>2. \A k \in Jobs : JobOK(k)'
  BY <1>1, OthersStayOK DEF IInv
<1>3. PublishedByJobs'
  BY DEF IInv, PublishedByJobs, IsTagFor
<1> QED BY <1>1, <1>2, <1>3 DEF IInv
------------------------------------------------------------------------------
(***************************************************************************)
(* The invariant and what follows from it                                  *)
(***************************************************************************)
LEMMA InitIInv == Init => IInv
<1> SUFFICES ASSUME Init PROVE IInv
  OBVIOUS
<1> USE ReleaseAssumption
<1>1. RegistryType /\ PublishedByJobs
  BY DEF Init, RegistryType, PublishedByJobs, Image
<1>2. ASSUME NEW j \in Jobs PROVE JobOK(j)
  <2>1. \E ty, cl, td, b :
          job[j] = [phase |-> "new", commit |-> NoCommit, type |-> ty, clone |-> cl,
                    version |-> NoVersion, todo |-> td, body |-> b]
    BY Zenon DEF Init, NewJob
  <2>2. "new" \in Phases
    BY DEF Phases
  <2>3. IsJob(job[j]) /\ job[j].phase = "new" /\ job[j].version = NoVersion
    BY <2>1, <2>2, SomeJobRecord
  <2>4. CloneIsPast(j) /\ VersionIsOwn(j) /\ TodoIsLine(j) /\ TodoIsLatest(j)
    BY <2>3 DEF CloneIsPast, VersionIsOwn, TodoIsLine, TodoIsLatest, Working
  <2> QED BY <2>3, <2>4 DEF JobOK
<1> QED BY <1>1, <1>2 DEF IInv

LEMMA NextIInv == IInv /\ [Next]_vars => IInv'
<1> SUFFICES ASSUME IInv, [Next]_vars PROVE IInv'
  OBVIOUS
<1>1. ASSUME NEW j \in Jobs, JobStep(j) PROVE IInv'
  BY <1>1, JobStepOK, StepKeepsIInv
<1>2. ASSUME NEW j \in Jobs, NEW c \in Commits, NEW type \in Types, Start(j, c, type) PROVE IInv'
  BY <1>2, StartStep, StepKeepsIInv
<1>3. ASSUME NEW t \in GitTags, NEW c \in Commits, PushTag(t, c) PROVE IInv'
  BY <1>3, PeopleStep DEF PushTag
<1>4. ASSUME NEW v \in Released, NEW body \in Bodies, WriteNotes(v, body) PROVE IInv'
  BY <1>4, PeopleStep DEF WriteNotes
<1>5. CASE UNCHANGED vars
  BY <1>5, PeopleStep DEF vars
<1> QED BY <1>1, <1>2, <1>3, <1>4, <1>5 DEF Next

LEMMA LineFromIInv == IInv => TagsNameTheirLine
<1> SUFFICES ASSUME IInv PROVE TagsNameTheirLine
  OBVIOUS
<1>1. ASSUME NEW t \in ImageTags, published[t] # 0
      PROVE  LET i == job[published[t]] IN
             /\ t = TagOf(i.version, Len(t))
             /\ IsPrerelease(i.version) => t = i.version
             /\ tags[i.version] = i.commit
             /\ prereleases[i.commit] # 0
  <2>1. published[t] \in Jobs
    BY <1>1 DEF IInv, RegistryType, Image
  <2> QED BY <1>1, <2>1 DEF IInv, JobOK, VersionIsOwn, PublishedByJobs, IsTagFor
<1>2. ASSUME NEW j \in Jobs, job[j].phase \in {"fetch", "patch", "done"},
             job[j].version # NoVersion,
             NEW n \in {1, 2, 4}, n = 4 \/ ~IsPrerelease(job[j].version)
      PROVE  published[TagOf(job[j].version, n)] # 0
  <2>1. TagOf(job[j].version, n) \in LineOf(job[j].version)
    BY <1>2 DEF LineOf
  <2> QED BY <1>2, <2>1 DEF IInv, JobOK, TodoIsLine
<1> QED BY <1>1, <1>2 DEF TagsNameTheirLine

LEMMA LatestFromIInv ==
  ASSUME IInv, [Next]_vars, published[LATEST] # published'[LATEST], published[LATEST] # 0
  PROVE  LET old == job[published[LATEST]].version
             new == job[published'[LATEST]]
         IN Older(new.version, old) => new.clone[old] = NoCommit
<1>1. PICK j \in Jobs : PublishTag(j)
  <2>1. published' # published
    OBVIOUS
  <2> QED BY <2>1 DEF Next, vars, JobStep, Fail, PushPrerelease, ReadTags, FetchRelease,
                      PatchRelease, Start, PushTag, WriteNotes, KeepsRegistry
<1>2. job[j].phase = "publish" /\ published' = [published EXCEPT ![Head(job[j].todo)] = j]
  BY <1>1 DEF PublishTag
<1>3. job[j].version \in Versions /\ job[j].todo \in Seq(ImageTags) /\ job[j].todo # <<>>
  BY <1>2 DEF IInv, JobOK, VersionIsOwn, TodoIsLine
<1>4. LATEST \in ImageTags
  BY <1>3, LineTags
<1>5. Head(job[j].todo) = LATEST /\ published'[LATEST] = j
  BY <1>2, <1>4 DEF IInv, RegistryType
<1>6. 1 \in 1..Len(job[j].todo) /\ job[j].todo[1] = LATEST
  BY <1>3, <1>5
<1>7. \A w \in GitTags : job[j].clone[w] # NoCommit => ~Older(job[j].version, w)
  BY <1>2, <1>6 DEF IInv, JobOK, TodoIsLatest
<1>8. job[published[LATEST]].version \in GitTags
  <2>1. published[LATEST] \in Jobs
    BY <1>4 DEF IInv, RegistryType, Image
  <2> QED BY <1>4, <2>1 DEF IInv, PublishedByJobs, JobOK, VersionIsOwn, GitTags
<1> QED BY <1>5, <1>7, <1>8

\* The invariant holds throughout.
THEOREM InvariantHolds == Spec => []IInv
  BY InitIInv, NextIInv, PTL DEF Spec

\* Whatever jobs run and fail, an image that a tag of the release package names is of that
\* tag's line, and a job past its pushes has left its line complete (index.ts:48-85).
THEOREM TagsNameOwnLine == Spec => []TagsNameTheirLine
  BY InvariantHolds, LineFromIInv, PTL

\* "latest" goes back only by a job that began before the newer version was tagged
\* (tag.ts:45-46).
THEOREM LatestGoesForward == Spec => LatestMovesForward
<1>1. IInv /\ [Next]_vars =>
        [published[LATEST] # published'[LATEST] /\ published[LATEST] # 0 =>
           LET old == job[published[LATEST]].version
               new == job[published'[LATEST]]
           IN Older(new.version, old) => new.clone[old] = NoCommit]_vars
  BY LatestFromIInv
<1>2. Spec => [][Next]_vars
  BY PTL DEF Spec
<1> QED BY <1>1, <1>2, InvariantHolds, PTL DEF LatestMovesForward
------------------------------------------------------------------------------
(***************************************************************************)
(* Notes                                                                   *)
(***************************************************************************)
\* The data of a job; one that is to write notes knows the text they were.
JobTyped(j) ==
  /\ job[j].commit \in Commits \cup {NoCommit}
  /\ job[j].todo \in Seq(ImageTags)
  /\ job[j].phase = "patch" => job[j].body \in Seq(Piece)

\* Notes are texts.
TextInv ==
  /\ notes \in [Versions -> Seq(Piece) \cup {NoNotes}]
  /\ \A j \in Jobs : JobTyped(j)

\* Whatever it does to the anchors, a new section leaves a text.
LEMMA NewBodyIsText ==
  ASSUME NEW body \in Seq(Piece)
  PROVE  NewBody(body) \in Seq(Piece)
<1> USE AnchorsDiffer
<1> DEFINE s == IndexOf(body, START)  e == IndexOf(body, END)
<1>1. s \in 0..Len(body) /\ e \in 0..Len(body)
  <2>1. ASSUME NEW piece PROVE IndexOf(body, piece) \in 0..Len(body)
    <3>1. CASE \E i \in 1..Len(body) : body[i] = piece
      <4>1. IndexOf(body, piece) \in 1..Len(body)
        BY <3>1, FoundPiece
      <4> QED BY <4>1
    <3>2. CASE ~\E i \in 1..Len(body) : body[i] = piece
      <4>1. IndexOf(body, piece) = 0
        BY <3>2, Zenon DEF IndexOf
      <4> QED BY <4>1
    <3> QED BY <3>1, <3>2
  <2> QED BY <2>1
<1>2. <<START, PACKAGES, END>> \in Seq(Piece) /\ <<START, PACKAGES>> \in Seq(Piece)
      /\ <<>> \in Seq(Piece)
  OBVIOUS
<1>3. ASSUME NEW m \in Int, NEW n \in Int, m >= 1, n <= Len(body)
      PROVE  SubSeq(body, m, n) \in Seq(Piece)
  <2>1. \A i \in m..n : body[i] \in Piece
    BY <1>3
  <2> QED BY <2>1, SubSeqProperties
<1> HIDE DEF s, e
<1>4. NewBody(body) =
        IF s = 0 THEN body \o <<START, PACKAGES, END>>
        ELSE SubSeq(body, 1, s - 1) \o <<START, PACKAGES>>
               \o IF e = 0 THEN <<>> ELSE SubSeq(body, e, Len(body))
  BY Zenon DEF NewBody, s, e
<1>5. CASE s = 0
  BY <1>2, <1>4, <1>5
<1>6. CASE s # 0
  <2> DEFINE x == SubSeq(body, 1, s - 1)  y == IF e = 0 THEN <<>> ELSE SubSeq(body, e, Len(body))
  <2>1. x \in Seq(Piece)
    BY <1>1, <1>3, <1>6
  <2>2. y \in Seq(Piece)
    <3>1. e # 0 => SubSeq(body, e, Len(body)) \in Seq(Piece)
      BY <1>1, <1>3
    <3> QED BY <1>2, <3>1
  <2>3. NewBody(body) = x \o <<START, PACKAGES>> \o y
    BY <1>4, <1>6
  <2> HIDE DEF x, y
  <2> QED BY <1>2, <2>1, <2>2, <2>3
<1> QED BY <1>5, <1>6

\* Only the job that steps needs a look.
LEMMA NextTextInv == IInv /\ TextInv /\ [Next]_vars => TextInv'
<1> SUFFICES ASSUME IInv, TextInv, [Next]_vars PROVE TextInv'
  OBVIOUS
<1> USE ReleaseAssumption
<1>0. /\ DOMAIN job = Jobs /\ \A j \in Jobs : IsJob(job[j]) /\ JobTyped(j)
      /\ "failed" \in Phases /\ "done" \in Phases
  BY DEF IInv, RegistryType, JobOK, TextInv, Phases
<1>1. CASE UNCHANGED <<job, notes>>
  BY <1>1 DEF TextInv, JobTyped
<1>2. ASSUME UNCHANGED notes, NEW j \in Jobs, \A k \in Jobs : k # j => job'[k] = job[k],
             JobTyped(j)'
      PROVE  TextInv'
  BY <1>2 DEF TextInv, JobTyped
<1>3. ASSUME NEW j \in Jobs, NEW p \in Phases, p # "patch", Exit(j, p)
      PROVE  /\ \A k \in Jobs : k # j => job'[k] = job[k]
             /\ JobTyped(j)'
  <2>1. job'[j] = [phase |-> p, commit |-> job[j].commit, type |-> "", clone |-> <<>>,
                   version |-> job[j].version, todo |-> <<>>, body |-> NoNotes]
    BY <1>3, ExitJob DEF IInv
  <2>2. \A k \in Jobs : k # j => job'[k] = job[k]
    BY <1>3, ExitJob DEF IInv
  <2>3. job'[j].phase = p /\ job'[j].commit = job[j].commit
    <3>1. \E ty, cl, td, b :
            job'[j] = [phase |-> p, commit |-> job[j].commit, type |-> ty, clone |-> cl,
                       version |-> job[j].version, todo |-> td, body |-> b]
      BY <2>1, Zenon
    <3> QED BY <3>1, SomeJobRecord
  <2>4. job'[j].todo = <<>>
    <3>1. ASSUME NEW r, NEW c, NEW v,
                 r = [phase |-> p, commit |-> c, type |-> "", clone |-> <<>>,
                      version |-> v, todo |-> <<>>, body |-> NoNotes]
          PROVE  r.todo = <<>>
      BY ONLY <3>1
    <3> QED BY <2>1, <3>1, Zenon
  <2>5. JobTyped(j)'
    <3>1. <<>> \in Seq(ImageTags)
      OBVIOUS
    <3> QED BY <1>0, <1>3, <2>3, <2>4, <3>1 DEF JobTyped
  <2> QED BY <2>2, <2>5
<1>4. ASSUME NEW j \in Jobs, NEW p \in Phases, Exit(j, p), p # "patch", UNCHANGED notes
      PROVE  TextInv'
  BY <1>2, <1>3, <1>4
<1>5. ASSUME NEW j \in Jobs, JobStep(j) PROVE TextInv'
  <2>1. CASE Fail(j)
    BY <1>0, <1>4, <2>1 DEF Fail, KeepsRegistry
  <2>2. CASE PushPrerelease(j)
    <3>1. CASE Exit(j, "done") \/ Exit(j, "failed")
      BY <1>0, <1>4, <2>2, <3>1 DEF PushPrerelease
    <3>2. CASE job' = [job EXCEPT ![j].phase = "tag"]
      <4>1. job'[j].phase = "tag" /\ job'[j].commit = job[j].commit /\ job'[j].todo = job[j].todo
        BY <1>0, <3>2 DEF IsJob
      <4> QED BY <1>0, <1>2, <2>2, <3>2, <4>1 DEF PushPrerelease, JobTyped
    <3> QED BY <2>2, <3>1, <3>2 DEF PushPrerelease
  <2>3. CASE ReadTags(j)
    <3>1. UNCHANGED notes
      BY <2>3 DEF ReadTags, KeepsRegistry
    <3>2. CASE Exit(j, "done") \/ Exit(j, "failed")
      BY <1>0, <1>4, <3>1, <3>2
    <3>3. ASSUME NEW v, NEW q \in Seq(ImageTags),
                 job' = [job EXCEPT ![j].phase = "publish", ![j].version = v, ![j].todo = q]
          PROVE  TextInv'
      <4>1. job'[j].phase = "publish" /\ job'[j].commit = job[j].commit /\ job'[j].todo = q
        BY <1>0, <3>3 DEF IsJob
      <4> QED BY <1>0, <1>2, <3>1, <3>3, <4>1 DEF JobTyped
    <3>4. ASSUME NEW v \in OwnTags(j), Unparsed \notin OwnTags(j), NEW l \in BOOLEAN
          PROVE  TagsToPush(v, l) \in Seq(ImageTags)
      <4>1. v \in Versions
        BY <3>4 DEF OwnTags, GitTags
      <4> QED BY <4>1, TagsPushed
    <3>5. \A v \in OwnTags(j) : (~IsPrerelease(v) /\ IsLatest(v, AllTags(j))) \in BOOLEAN
      BY Zenon
    <3>6. \/ Exit(j, "done") \/ Exit(j, "failed")
          \/ \E v : \E q \in Seq(ImageTags) :
               job' = [job EXCEPT ![j].phase = "publish", ![j].version = v, ![j].todo = q]
      <4>1. \/ Exit(j, "done") \/ Exit(j, "failed")
            \/ /\ Unparsed \notin OwnTags(j)
               /\ \E v \in OwnTags(j) :
                    job' = [job EXCEPT ![j].phase = "publish", ![j].version = v,
                      ![j].todo = TagsToPush(v, ~IsPrerelease(v) /\ IsLatest(v, AllTags(j)))]
        BY <2>3 DEF ReadTags
      <4> QED BY <3>4, <3>5, <4>1, Zenon
    <3> QED BY <3>2, <3>3, <3>6
  <2>4. CASE PublishTag(j)
    <3> DEFINE p == IF Len(job[j].todo) = 1 THEN "fetch" ELSE "publish"
    <3>1. job[j].phase = "publish" /\ UNCHANGED notes
      BY <2>4 DEF PublishTag
    <3>2. \/ Exit(j, "failed")
          \/ job' = [job EXCEPT ![j].todo = Tail(job[j].todo), ![j].phase = p]
      BY <1>0, <2>4, <3>1 DEF PublishTag, IsJob
    <3>3. p # "patch"
      OBVIOUS
    <3>4. Tail(job[j].todo) \in Seq(ImageTags)
      BY <3>1, HeadTailProperties DEF IInv, JobOK, TodoIsLine
    <3> HIDE DEF p
    <3>5. CASE Exit(j, "failed")
      BY <1>0, <1>4, <3>1, <3>5
    <3>6. CASE job' = [job EXCEPT ![j].todo = Tail(job[j].todo), ![j].phase = p]
      <4>1. job'[j].phase = p /\ job'[j].commit = job[j].commit /\ job'[j].todo = Tail(job[j].todo)
        BY <1>0, <3>6 DEF IsJob
      <4> QED BY <1>0, <1>2, <3>1, <3>3, <3>4, <3>6, <4>1 DEF JobTyped
    <3> QED BY <3>2, <3>5, <3>6
  <2>5. CASE FetchRelease(j)
    <3>1. UNCHANGED notes
      BY <2>5 DEF FetchRelease, KeepsRegistry
    <3>2. CASE Exit(j, "failed")
      BY <1>0, <1>4, <3>1, <3>2
    <3>3. CASE /\ notes[job[j].version] # NoNotes
               /\ job' = [job EXCEPT ![j].phase = "patch", ![j].body = notes[job[j].version]]
      <4>1. job[j].version \in Versions
        BY <2>5 DEF FetchRelease, IInv, JobOK, VersionIsOwn
      <4>2. notes[job[j].version] \in Seq(Piece)
        BY <3>3, <4>1 DEF TextInv
      <4>3. /\ job'[j].commit = job[j].commit /\ job'[j].todo = job[j].todo
            /\ job'[j].body = notes[job[j].version]
        BY <1>0, <3>3 DEF IsJob
      <4> QED BY <1>0, <1>2, <3>1, <3>3, <4>2, <4>3 DEF JobTyped
    <3> QED BY <2>5, <3>2, <3>3 DEF FetchRelease
  <2>6. CASE PatchRelease(j)
    <3>1. PICK p \in {"done", "failed"} : job[j].phase = "patch" /\ Exit(j, p)
      BY <2>6 DEF PatchRelease
    <3>2. NewBody(job[j].body) \in Seq(Piece)
      BY <1>0, <3>1, NewBodyIsText DEF JobTyped
    <3>3. notes' \in [Versions -> Seq(Piece) \cup {NoNotes}]
      BY <2>6, <3>2 DEF PatchRelease, TextInv
    <3>4. JobTyped(j)' /\ \A k \in Jobs : k # j => job'[k] = job[k]
      BY <1>0, <1>3, <3>1
    <3> QED BY <1>0, <3>3, <3>4 DEF TextInv, JobTyped
  <2> QED BY <1>5, <2>1, <2>2, <2>3, <2>4, <2>5, <2>6 DEF JobStep
<1>6. ASSUME NEW j \in Jobs, NEW c \in Commits, NEW type \in Types, Start(j, c, type)
      PROVE  TextInv'
  <2>1. /\ \A k \in Jobs : k # j => job'[k] = job[k]
        /\ job'[j] = [phase |-> "build", commit |-> c, type |-> type, clone |-> tags,
                      version |-> NoVersion, todo |-> <<>>, body |-> NoNotes]
    BY <1>0, <1>6 DEF Start, NewJob
  <2>2. job'[j].phase = "build" /\ job'[j].commit = c /\ job'[j].todo = <<>>
    BY <2>1
  <2>3. UNCHANGED notes /\ <<>> \in Seq(ImageTags)
    BY <1>6 DEF Start, KeepsRegistry
  <2> QED BY <1>2, <2>1, <2>2, <2>3 DEF JobTyped
<1>7. ASSUME NEW v \in Released, NEW body \in Bodies, WriteNotes(v, body) PROVE TextInv'
  BY <1>7 DEF WriteNotes, TextInv, JobTyped
<1>8. ASSUME NEW t \in GitTags, NEW c \in Commits, PushTag(t, c) PROVE TextInv'
  BY <1>1, <1>8 DEF PushTag
<1> QED BY <1>1, <1>5, <1>6, <1>7, <1>8 DEF Next, vars

\* Notes are texts throughout.
LEMMA TextHolds == Spec => [](IInv /\ TextInv)
<1>1. Init => TextInv
  <2> SUFFICES ASSUME Init PROVE TextInv
    OBVIOUS
  <2>1. notes \in [Versions -> Seq(Piece) \cup {NoNotes}]
    BY DEF Init
  <2>2. \A j \in Jobs : job[j].phase = "new" /\ job[j].commit = NoCommit /\ job[j].todo = <<>>
    BY DEF Init, NewJob
  <2>3. <<>> \in Seq(ImageTags)
    OBVIOUS
  <2> QED BY <2>1, <2>2, <2>3 DEF TextInv, JobTyped
<1> QED BY <1>1, InitIInv, NextIInv, NextTextInv, PTL DEF Spec

\* The state of the registry, the jobs and the notes is what it is meant to be.
THEOREM ReleaseTypeCorrect == Spec => []TypeOK
<1>1. IInv /\ TextInv => TypeOK
  <2> SUFFICES ASSUME IInv, TextInv PROVE TypeOK
    OBVIOUS
  <2>1. ASSUME NEW j \in Jobs
        PROVE  /\ job[j].phase \in Phases
               /\ job[j].commit \in Commits \cup {NoCommit}
               /\ job[j].version \in Versions \cup {NoVersion}
               /\ job[j].todo \in Seq(ImageTags)
    BY DEF IInv, JobOK, IsJob, VersionIsOwn, TextInv, JobTyped
  <2>2. /\ tags \in [GitTags -> Commits \cup {NoCommit}]
        /\ prereleases \in [Commits -> Image]
        /\ published \in [ImageTags -> Image]
    BY DEF IInv, RegistryType
  <2> QED BY <2>1, <2>2 DEF TypeOK
<1> QED BY <1>1, TextHolds, PTL

\* A step in which notes that a job knows are rewritten by that job.
LEMMA NotesStep ==
  ASSUME IInv, TextInv, [Next]_vars, NEW j \in Jobs, NEW v \in Versions,
         job[j].phase = "patch", job'[j].phase \in {"done", "failed"}, notes[v] # notes'[v],
         notes[v] = job[j].body, WellFormed(notes[v])
  PROVE  /\ WellFormed(notes'[v]) /\ IndexOf(notes'[v], PACKAGES) # 0
         /\ Outside(notes'[v]) = Outside(notes[v])
<1>1. PICK k \in Jobs : PatchRelease(k)
  <2>1. job' # job /\ notes' # notes
    OBVIOUS
  <2> QED BY <2>1 DEF Next, vars, JobStep, Fail, PushPrerelease, ReadTags, PublishTag, FetchRelease,
                      Start, PushTag, WriteNotes, KeepsRegistry
<1>2. k = j
  <2>1. PICK p : Exit(k, p)
    BY <1>1 DEF PatchRelease
  <2>2. \A i \in Jobs : i # k => job'[i] = job[i]
    BY <2>1, ExitJob DEF IInv
  <2> QED BY <2>2
<1>3. notes' = [notes EXCEPT ![job[j].version] = NewBody(job[j].body)]
  BY <1>1, <1>2 DEF PatchRelease
<1>4. notes'[v] = NewBody(notes[v])
  BY <1>3 DEF TextInv
<1>5. notes[v] \in Seq(Piece)
  BY DEF TextInv, JobTyped
<1>6. CASE Occurs(notes[v], START) = {} /\ Occurs(notes[v], END) = {}
  BY <1>4, <1>5, <1>6, AppendedSection
<1>7. CASE \E s, e \in 1..Len(notes[v]) :
             s < e /\ Occurs(notes[v], START) = {s} /\ Occurs(notes[v], END) = {e}
  BY <1>4, <1>5, <1>7, ReplacedSection
<1> QED BY <1>6, <1>7 DEF WellFormed

\* A job rewrites its own section of the notes and keeps what people wrote around it, whenever
\* the anchors are in order and nobody edited the notes meanwhile (index.ts:120-134).
THEOREM NotesAreKept == Spec => NotesKeepText
<1> DEFINE Keeps(j, v) ==
      (/\ job[j].phase = "patch" /\ job'[j].phase \in {"done", "failed"}
       /\ notes[v] # notes'[v]
       /\ notes[v] = job[j].body /\ WellFormed(notes[v]))
        => /\ WellFormed(notes'[v]) /\ IndexOf(notes'[v], PACKAGES) # 0
           /\ Outside(notes'[v]) = Outside(notes[v])
<1>1. (IInv /\ TextInv) /\ [Next]_vars => \A j \in Jobs, v \in Versions : Keeps(j, v)
  BY NotesStep
<1>2. (IInv /\ TextInv) /\ [Next]_vars => [\A j \in Jobs, v \in Versions : Keeps(j, v)]_vars
  BY <1>1
<1>3. Spec => [][Next]_vars
  BY PTL DEF Spec
<1> QED BY <1>2, <1>3, TextHolds, PTL DEF NotesKeepText
==============================================================================
