------------------------------ MODULE MCUpdates ------------------------------
(***************************************************************************)
(* Instances of Updates for TLC: a version before the first, a higher final *)
(* release and a pre-release that is published after it.                    *)
(***************************************************************************)
EXTENDS Updates

Word(rank)   == [word |-> TRUE, rank |-> rank]
Number(rank) == [word |-> FALSE, rank |-> rank]

Final(nums)    == [nums |-> nums, pre |-> <<>>]
Pre(nums, ids) == [nums |-> nums, pre |-> ids]

FirstVersion == Final(<<1, 0>>)

ReleaseVersions ==
  <<Final(<<0, 9, 1>>), Final(<<1, 1>>), Pre(<<1, 1>>, <<Word(1), Number(2)>>),
    Pre(<<2>>, <<Word(1)>>), Pre(<<1, 1>>, <<Number(1)>>), Pre(<<1, 1>>, <<Word(1)>>)>>

\* A draft of the next major version is among them.
AllReleases ==
  [i \in DOMAIN ReleaseVersions |->
     [number |-> i, version |-> ReleaseVersions[i], prerelease |-> ReleaseVersions[i].pre # <<>>,
      draft |-> i = 4]]

\* Versions are totally ordered: two are equal or one is before the other, and the
\* order is transitive (compareVersion, comparePrerelease).
ASSUME VersionsAreOrdered ==
  LET all == {ReleaseVersions[i] : i \in DOMAIN ReleaseVersions} \cup {FirstVersion} IN
  \A a, b \in all :
    /\ CompareVersion(a, b) = 0 <=> a = b
    /\ CompareVersion(a, b) < 0 <=> CompareVersion(b, a) > 0
    /\ \A c \in all : CompareVersion(a, b) <= 0 /\ CompareVersion(b, c) <= 0
                      => CompareVersion(a, c) <= 0

\* The release that is offered is the highest of its channel, also when a lower one was
\* published after it (newestRelease: "not the most recently published one").
ASSUME NewestIsHighest ==
  \A n \in DOMAIN AllReleases, early \in BOOLEAN :
    LET visible == Visible(SubSeq(AllReleases, 1, n), early) IN
    \A release \in visible :
      CompareVersion(release.version, NewestRelease(visible).version) <= 0

\* README.md:98, "records the result in `~/.config/kioskmate/update-history.json` and
\* verifies the expected version after restart": once the version of an installation
\* runs, its entry is no longer "running", when nothing but that was asked for.
ResultIsRecorded ==
  \A i \in DOMAIN history :
    managed /\ events = 1 /\ up /\ version = history[i].target /\ version # history[i].from
    => history[i].status # "running"

=============================================================================
