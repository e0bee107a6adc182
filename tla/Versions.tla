------------------------------- MODULE Versions -------------------------------
(***************************************************************************)
(* The order of versions and the release that is offered                    *)
(* (internal/updater).  A version is [nums, pre]: its numbers and the       *)
(* identifiers of its pre-release label, <<>> for a final release; an       *)
(* identifier is [word, rank], a number when word is FALSE.  A release is   *)
(* [number, version, prerelease, draft], numbered as they are published.    *)
(***************************************************************************)
EXTENDS Integers, Sequences, FiniteSets

LOCAL INSTANCE FiniteSetsExt

NumberAt(nums, i) == IF i <= Len(nums) THEN nums[i] ELSE 0

\* Missing numbers count as 0.
CompareNumbers(a, b) ==
  LET differ == {i \in DOMAIN a \cup DOMAIN b : NumberAt(a, i) # NumberAt(b, i)}
  IN IF differ = {} THEN 0
     ELSE LET i == Min(differ) IN NumberAt(a, i) - NumberAt(b, i)

\* A number comes before a word.
CompareIdentifiers(a, b) ==
  CASE a.word = b.word -> a.rank - b.rank
    [] b.word          -> -1
    [] OTHER           -> 1

\* Identifier by identifier; when they agree, fewer come first.
ComparePrerelease(a, b) ==
  LET differ == {i \in DOMAIN a \cap DOMAIN b : CompareIdentifiers(a[i], b[i]) # 0}
  IN IF differ = {} THEN Len(a) - Len(b)
     ELSE CompareIdentifiers(a[Min(differ)], b[Min(differ)])

\* A pre-release comes before the final release of the same numbers.
CompareVersion(a, b) ==
  LET numbers == CompareNumbers(a.nums, b.nums)
  IN IF numbers # 0 THEN numbers
     ELSE IF a.pre # <<>> /\ b.pre = <<>> THEN -1
     ELSE IF a.pre = <<>> /\ b.pre # <<>> THEN 1
     ELSE ComparePrerelease(a.pre, b.pre)

\* What a channel may show of the published releases.
Visible(releases, prerelease) ==
  {release \in {releases[i] : i \in DOMAIN releases} : ~release.draft /\ (release.prerelease => prerelease)}

\* newestRelease: the highest version of the channel.
NewestRelease(visible) ==
  CHOOSE release \in visible : \A other \in visible :
    CompareVersion(other.version, release.version) <= 0

=============================================================================
