------------------------------ MODULE SliceProofs ------------------------------
(***************************************************************************)
(* The promises of the commands that make, list, group and remove slices,  *)
(* proved.  Commands and users interleave step by step, listings fail, and *)
(* a command writes what it read long before.  Still no healthy worktree   *)
(* vanishes from a report, and a registration goes only with the slice the *)
(* user names, with its directory, or when two commands overlap.           *)
(***************************************************************************)
EXTENDS SliceLifecycle, TLAPS

Member == [place : Place, ref : Ref]
Listed == [place : Place, ref : Ref, restored : BOOLEAN]

\* A listing has a worktree once.
OnePerPlace(recs) == \A x, y \in recs : x.place = y.place => x = y

\* A member is of the repository it is entered for.
MembersFit(reg) ==
    /\ reg \in [Slice -> [Repo -> Member \cup {None}]]
    /\ \A s \in Slice, r \in Repo : reg[s][r] # None => reg[s][r].place.repo = r
BranchesFit(ov) == ov \in [Slice -> [Repo -> Ref \cup {None}]]

\* What ReportsAreFaithful says of one command's record.
Vanishes(x, recs, reg, report) ==
    /\ \A s \in Slice : report.slices[s][x.place.repo] # member(x)
    /\ x.place \notin report.skipped
    /\ member(x) \notin report.candidates
    /\ \A s \in SlicesOf(x, recs, reg) :
          LET m == report.slices[s][x.place.repo]
          IN  ~(m # None /\ m.place # x.place /\ NameOf[m.ref] = s)

Keeps(recs, reg, report, s, r) ==
    LET m == reg[s][r]
        shown == report.slices[s][r]
    IN  m # None /\ (\E x \in recs : x.place = m.place) =>
           \/ shown # None /\ (shown.place = m.place \/ NameOf[shown.ref] = s)
           \/ m.place \in report.skipped

Faithful(x) ==
    /\ \A y \in x.recs : ~Vanishes(y, x.recs, x.read.slices, x.report)
    /\ x.exists => \A s \in Slice, r \in Repo : Keeps(x.recs, x.read.slices, x.report, s, r)

\* The record of a command by the place where it is: what it has listed and read,
\* what it reports, and what it is about to write.
CmdFields == {"op", "at", "slice", "ref", "other", "recs", "unusable", "detached", "read",
              "exists", "lost", "report", "write", "folds", "todo", "done"}
CmdFits(x) ==
    /\ x = [k \in CmdFields |-> x[k]]
    /\ x.recs \in SUBSET Listed /\ OnePerPlace(x.recs) /\ x.detached \in SUBSET Place
    /\ MembersFit(x.read.slices) /\ MembersFit(x.report.slices)
    /\ x.report.candidates \in SUBSET Member
    /\ x.at # "idle" =>
         /\ x.op = "create" => x.ref \in Ref
         /\ x.op \in {"create", "import"} => x.done \in SUBSET Member
         /\ x.op \in {"group", "gather"} /\ x.at # "write overrides" => x.other \in Slice
    /\ x.at = "load" => \A y \in x.recs : y.place \notin x.detached
    /\ x.at \in {"reconcile", "save reconciled", "publish"} => (x.exists <=> x.read.file = "ok")
    /\ x.at = "reported" => Faithful(x)
    /\ x.at = "write registry" =>
         /\ MembersFit(x.write)
         /\ \A s \in Slice, r \in Repo :
               x.read.slices[s][r] # None /\ x.write[s][r] = None =>
                  x.op \in {"forget", "rm"} /\ x.slice = s
    /\ x.at = "save reconciled" =>
         /\ x.exists /\ MembersFit(x.write)
         /\ \A s \in Slice, r \in Repo :
               x.read.slices[s][r] # None /\ x.write[s][r] = None =>
                  /\ underManagedTree(x.read.slices[s][r].place)
                  /\ x.read.slices[s][r].place \in x.lost
    /\ x.at = "write overrides" => BranchesFit(x.write)
    /\ x.at \in {"live check", "remove"} => x.op = "rm"
    /\ x.at = "create" => x.op = "create"
    /\ x.at = "read registry" => x.op \in {"create", "import", "forget", "rm"}

\* What git records: a branch is checked out once, and it is there.
DiskFits ==
    /\ checkout \in [Place -> Ref \cup {None, Detached}]
    /\ content \in [Place -> {"full", "fresh", "empty", "gone"}]
    /\ refState \in [Repo -> [Ref -> {"absent", "merged", "ahead"}]]
    /\ \A p \in Place : checkout[p] \in Ref =>
          /\ refState[p.repo][checkout[p]] # "absent"
          /\ \A q \in Place : p.repo = q.repo /\ p # q => checkout[p] # checkout[q]

FilesFit ==
    /\ registry.file \in {"none", "broken", "ok"} /\ MembersFit(registry.slices)
    /\ BranchesFit(overrides)
    /\ lifecycles \in 0 .. MaxLifecycle /\ userSteps \in 0 .. MaxUserSteps

LifecycleInvariant ==
    /\ DiskFits /\ FilesFit
    /\ cmd = [c \in Command |-> cmd[c]] /\ \A c \in Command : CmdFits(cmd[c])

-----------------------------------------------------------------------------
(* Members and records.                                                    *)

LEMMA NoMember == None \notin Member /\ None \notin Ref
BY NoMemberAssumption DEF Member

LEMMA FirstIsOne == ASSUME NEW recs, recs # {} PROVE First(recs) \in recs
<1>1. CASE \E x \in recs : ~x.restored
  BY <1>1 DEF First
<1>2. CASE ~\E x \in recs : ~x.restored
  BY <1>2 DEF First
<1> QED BY <1>1, <1>2

LEMMA MemberOf ==
    ASSUME NEW x \in Listed
    PROVE  /\ member(x) \in Member /\ member(x) # None /\ x.place \in Place /\ x.ref \in Ref
           /\ member(x).place = x.place /\ member(x).ref = x.ref
           /\ x.place.repo \in Repo /\ NameOf[x.ref] \in Slice
BY NoMember, GroupingAssumption DEF Listed, member, RegistryMember, Member

\* Two records of a listing are one if they are of one member.
LEMMA SameMember ==
    ASSUME NEW recs \in SUBSET Listed, OnePerPlace(recs), NEW x \in recs, NEW y \in recs,
           member(x) = member(y)
    PROVE  x = y
<1>1. x.place = y.place
  BY MemberOf
<1> QED BY <1>1 DEF OnePerPlace

LEMMA EntriesAreMembers ==
    ASSUME NEW reg, MembersFit(reg)
    PROVE  Entries(reg) \in SUBSET Member
           /\ \A s \in Slice, r \in Repo : reg[s][r] # None => reg[s][r] \in Entries(reg)
                                                              /\ reg[s][r] \in Member
BY DEF Entries, MembersFit

LEMMA NoEntriesFit == MembersFit(NoEntries) /\ BranchesFit(NoEntries)
BY DEF NoEntries, MembersFit, BranchesFit

\* Match finds a record of the member's place or of its branch.
LEMMA MatchFits ==
    ASSUME NEW recs \in SUBSET Listed, NEW r \in Repo, NEW m \in Member, m.place.repo = r
    PROVE  Match(r, m, recs) # None => /\ Match(r, m, recs) \in Member
                                       /\ Match(r, m, recs).place.repo = r
<1> DEFINE byPath == {x \in recs : x.place = m.place}
           byRef == {x \in recs : x.place.repo = r /\ x.ref = m.ref}
<1>1. ASSUME byPath # {} PROVE member(First(byPath)) \in Member /\ member(First(byPath)).place.repo = r
  <2>1. First(byPath) \in byPath
    BY <1>1, FirstIsOne
  <2>2. PICK x \in recs : x = First(byPath) /\ x.place = m.place
    BY <2>1
  <2> QED BY <2>2, MemberOf
<1>2. ASSUME byRef # {} PROVE member(First(byRef)) \in Member /\ member(First(byRef)).place.repo = r
  <2>1. First(byRef) \in byRef
    BY <1>2, FirstIsOne
  <2>2. PICK x \in recs : x = First(byRef) /\ x.place.repo = r
    BY <2>1
  <2> QED BY <2>2, MemberOf
<1> QED BY <1>1, <1>2 DEF Match

\* ... and that of its place, if it is listed.
LEMMA MatchByPath ==
    ASSUME NEW recs \in SUBSET Listed, OnePerPlace(recs), NEW r, NEW m, NEW x \in recs,
           x.place = m.place
    PROVE  Match(r, m, recs) = member(x)
<1> DEFINE byPath == {y \in recs : y.place = m.place}
<1>1. byPath = {x}
  BY DEF OnePerPlace
<1>2. First({x}) = x
  BY FirstIsOne
<1>3. byPath # {} /\ First(byPath) = x
  BY <1>1, <1>2
<1> QED BY <1>3 DEF Match

-----------------------------------------------------------------------------
(* groupByName and Apply.                                                  *)

LEMMA GroupsFit ==
    ASSUME NEW recs \in SUBSET Listed
    PROVE  /\ MembersFit(groupByName(recs))
           /\ \A s \in Slice, r \in Repo : groupByName(recs)[s][r] # None =>
                 \E x \in recs : /\ groupByName(recs)[s][r] = member(x)
                                 /\ x.place.repo = r /\ NameOf[x.ref] = s
<1> DEFINE named(s, r) == {x \in recs : x.place.repo = r /\ NameOf[x.ref] = s}
           e(s, r) == IF named(s, r) = {} THEN None ELSE member(First(named(s, r)))
<1>1. \A s \in Slice, r \in Repo : groupByName(recs)[s][r] = e(s, r)
  BY DEF groupByName
<1>2. groupByName(recs) = [s \in Slice |-> [r \in Repo |-> e(s, r)]]
  BY DEF groupByName
<1>3. \A s, r : named(s, r) # {} => First(named(s, r)) \in named(s, r)
  <2> HIDE DEF named
  <2> QED BY FirstIsOne
<1>4. ASSUME NEW s \in Slice, NEW r \in Repo, e(s, r) # None
      PROVE  \E x \in recs : e(s, r) = member(x) /\ x.place.repo = r /\ NameOf[x.ref] = s
  BY <1>3, <1>4
<1> HIDE DEF e
<1>5. \A s \in Slice, r \in Repo : /\ e(s, r) \in Member \cup {None}
                                   /\ e(s, r) # None => e(s, r).place.repo = r
  BY <1>4, MemberOf
<1>6. MembersFit(groupByName(recs))
  BY <1>1, <1>2, <1>5 DEF MembersFit
<1> QED BY <1>1, <1>4, <1>6

LEMMA LookupFits ==
    ASSUME NEW slices, MembersFit(slices), NEW r \in Repo, NEW ref, Lookup(slices, r, ref) # None
    PROVE  \E s \in Slice : /\ Lookup(slices, r, ref) = slices[s][r]
                            /\ slices[s][r] # None /\ slices[s][r].ref = ref
<1> DEFINE of == {s \in Slice : slices[s][r] # None /\ slices[s][r].ref = ref}
<1>1. of # {} /\ Lookup(slices, r, ref) = slices[CHOOSE s \in of : TRUE][r]
  BY DEF Lookup
<1>2. (CHOOSE s \in of : TRUE) \in of
  <2> HIDE DEF of
  <2> QED BY <1>1
<1> QED BY <1>1, <1>2

\* Apply only moves members.
LEMMA ApplyMoves ==
    ASSUME NEW slices, MembersFit(slices), NEW ov, NEW s \in Slice, NEW r \in Repo,
           Apply(slices, ov)[s][r] # None
    PROVE  \E t \in Slice : Apply(slices, ov)[s][r] = slices[t][r] /\ slices[t][r] # None
<1>1. Apply(slices, ov)[s][r] =
        IF slices[s][r] # None /\ ~claimed(ov, r, slices[s][r]) THEN slices[s][r]
        ELSE IF ov[s][r] = None THEN None ELSE Lookup(slices, r, ov[s][r])
  BY DEF Apply
<1> QED BY <1>1, LookupFits

LEMMA ApplyFits ==
    ASSUME NEW slices, MembersFit(slices), NEW ov
    PROVE  MembersFit(Apply(slices, ov))
<1> DEFINE new == Apply(slices, ov)
<1>1. new = [s \in Slice |-> [r \in Repo |-> new[s][r]]]
  BY DEF Apply
<1>2. \A s \in Slice, r \in Repo : /\ new[s][r] \in Member \cup {None}
                                   /\ new[s][r] # None => new[s][r].place.repo = r
  BY ApplyMoves DEF MembersFit
<1> HIDE DEF new
<1>3. new \in [Slice -> [Repo -> Member \cup {None}]]
  BY <1>1, <1>2
<1> QED BY <1>2, <1>3 DEF MembersFit, new

\* What an override names goes where it says, unless a member that nothing claims is
\* there: that one bears the slice's name.
LEMMA OverrideMoves ==
    ASSUME NEW recs \in SUBSET Listed, OnePerPlace(recs), NEW ov, NEW x \in recs, NEW s \in Slice,
           groupByName(recs)[NameOf[x.ref]][x.place.repo] = member(x),
           ov[s][x.place.repo] = x.ref
    PROVE  LET m == Apply(groupByName(recs), ov)[s][x.place.repo]
           IN  m = member(x) \/ (m # None /\ m.place # x.place /\ NameOf[m.ref] = s)
<1> DEFINE by == groupByName(recs)
           r == x.place.repo
           m == Apply(by, ov)[s][r]
<1>1. /\ r \in Repo /\ NameOf[x.ref] \in Slice /\ x.ref # None /\ member(x) # None
      /\ member(x).ref = x.ref
  BY MemberOf, NoMember
<1>2. /\ MembersFit(by)
      /\ \A t \in Slice : by[t][r] # None =>
            \E y \in recs : by[t][r] = member(y) /\ y.place.repo = r /\ NameOf[y.ref] = t
  BY <1>1, GroupsFit
<1>3. by[NameOf[x.ref]][r] = member(x) /\ ov[s][r] = x.ref
  OBVIOUS
<1>4. m = IF by[s][r] # None /\ ~claimed(ov, r, by[s][r]) THEN by[s][r]
          ELSE IF ov[s][r] = None THEN None ELSE Lookup(by, r, ov[s][r])
  BY <1>1 DEF Apply
<1> HIDE DEF by, r, m
<1>5. CASE by[s][r] # None /\ ~claimed(ov, r, by[s][r])
  <2>1. PICK y \in recs : by[s][r] = member(y) /\ y.place.repo = r /\ NameOf[y.ref] = s
    BY <1>2, <1>5
  <2>2. m = member(y) /\ m # None
    BY <1>4, <1>5, <2>1
  <2>3. m.ref # x.ref
    BY <1>3, <1>4, <1>5 DEF claimed
  <2>4. member(y).ref = y.ref /\ member(y).place = y.place
    BY MemberOf
  <2>5. y.place # x.place
    BY <2>2, <2>3, <2>4 DEF OnePerPlace
  <2> QED BY <2>1, <2>2, <2>4, <2>5 DEF by, r, m
<1>6. CASE ~(by[s][r] # None /\ ~claimed(ov, r, by[s][r]))
  <2> DEFINE of == {t \in Slice : by[t][r] # None /\ by[t][r].ref = x.ref}
  <2>1. m = Lookup(by, r, x.ref)
    BY <1>1, <1>3, <1>4, <1>6
  <2>2. \A t \in of : t = NameOf[x.ref]
    <3> SUFFICES ASSUME NEW t \in of PROVE t = NameOf[x.ref]
      OBVIOUS
    <3>1. PICK y \in recs : by[t][r] = member(y) /\ NameOf[y.ref] = t
      BY <1>2
    <3> QED BY <3>1, MemberOf
  <2>3. NameOf[x.ref] \in of
    BY <1>1, <1>3
  <2>4. of # {} /\ (CHOOSE t \in of : TRUE) = NameOf[x.ref]
    <3> HIDE DEF of
    <3> QED BY <2>2, <2>3
  <2>5. Lookup(by, r, x.ref) = by[NameOf[x.ref]][r]
    BY <2>4 DEF Lookup
  <2> QED BY <1>3, <2>1, <2>5 DEF by, r, m
<1> QED BY <1>5, <1>6

-----------------------------------------------------------------------------
(* What Report returns.                                                    *)

\* A worktree that is managed is in a slice, gave way, or collided.
LEMMA ManagedIsShown ==
    ASSUME NEW recs \in SUBSET Listed, OnePerPlace(recs), NEW ov, NEW x \in recs,
           x \notin collisions(recs)
    PROVE  /\ groupByName(recs)[NameOf[x.ref]][x.place.repo] = member(x)
           /\ \E s \in Slice :
                 LET m == Apply(groupByName(recs), ov)[s][x.place.repo]
                 IN  \/ m = member(x)
                     \/ /\ ov[s][x.place.repo] = x.ref
                        /\ m # None /\ m.place # x.place /\ NameOf[m.ref] = s
<1> DEFINE by == groupByName(recs)
           r == x.place.repo
           home == NameOf[x.ref]
<1>1. r \in Repo /\ home \in Slice /\ member(x) # None /\ member(x).ref = x.ref
      /\ member(x).place = x.place
  BY MemberOf
<1>2. by[home][r] = member(x)
  <2>1. member(x) \in Entries(by)
    BY DEF collisions
  <2>2. PICK s \in Slice, q \in Repo : by[s][q] = member(x)
    BY <2>1 DEF Entries
  <2>3. PICK y \in recs : by[s][q] = member(y) /\ y.place.repo = q /\ NameOf[y.ref] = s
    BY <1>1, <2>2, GroupsFit
  <2>4. y = x
    BY <2>2, <2>3, SameMember
  <2> QED BY <2>2, <2>3, <2>4
<1>3. CASE claimed(ov, r, member(x))
  <2>1. PICK s \in Slice : ov[s][r] = x.ref
    BY <1>1, <1>3 DEF claimed
  <2> QED BY <1>2, <2>1, OverrideMoves
<1>4. CASE ~claimed(ov, r, member(x))
  <2>1. Apply(by, ov)[home][r] = member(x)
    BY <1>1, <1>2, <1>4 DEF Apply
  <2> QED BY <1>1, <1>2, <2>1
<1> QED BY <1>3, <1>4

\* What names a worktree's branch is a directory or an entry of the registry.
LEMMA OverrideOfSlice ==
    ASSUME NEW recs \in SUBSET Listed, NEW listed, recs \subseteq listed, NEW reg, MembersFit(reg),
           NEW x \in recs, NEW s \in Slice,
           membershipOverrides(reg, recs)[s][x.place.repo] = x.ref
    PROVE  s \in SlicesOf(x, listed, reg)
<1> DEFINE r == x.place.repo
           m == reg[s][r]
           recorded == IF m = None THEN None ELSE Match(r, m, recs)
           inTree == {y \in recs : y.place.repo = r /\ y.place.tree = s}
<1>1. r \in Repo /\ x.ref # None
  BY MemberOf, NoMember
<1>2. x.ref = IF recorded # None THEN recorded.ref
              ELSE IF inTree # {} THEN First(inTree).ref ELSE None
  BY <1>1 DEF membershipOverrides
<1>3. CASE recorded # None
  <2> DEFINE byPath == {y \in recs : y.place = m.place}
             byRef == {y \in recs : y.place.repo = r /\ y.ref = m.ref}
  <2>1. m # None /\ m.place.repo = r
    BY <1>1, <1>3 DEF MembersFit
  <2>2. recorded = IF byPath # {} THEN member(First(byPath))
                   ELSE IF byRef # {} THEN member(First(byRef)) ELSE None
    BY <2>1 DEF Match
  <2>3. \E y \in byPath \cup byRef : recorded = member(y)
    BY <1>3, <2>2, FirstIsOne
  <2>4. PICK y \in recs : recorded = member(y) /\ y.place.repo = r
                         /\ (m.place = y.place \/ m.ref = y.ref)
    BY <2>1, <2>3
  <2>5. y.ref = x.ref
    BY <1>2, <1>3, <2>4, MemberOf
  <2> QED BY <2>1, <2>4, <2>5 DEF SlicesOf
<1>4. CASE recorded = None /\ inTree # {}
  <2>1. First(inTree) \in inTree
    <3> HIDE DEF inTree
    <3> QED BY <1>4, FirstIsOne
  <2>2. x.ref = First(inTree).ref
    BY <1>2, <1>4
  <2> QED BY <2>1, <2>2 DEF SlicesOf
<1> QED BY <1>1, <1>2, <1>3, <1>4

LEMMA ResultFits ==
    ASSUME NEW recs \in SUBSET Listed, OnePerPlace(recs), NEW unusable, NEW reg, MembersFit(reg),
           NEW exists, NEW globs
    PROVE  LET result == Result(recs, unusable, reg, exists, globs)
           IN  /\ MembersFit(result.slices) /\ result.candidates \in SUBSET Member
               /\ \A x \in recs : ~Vanishes(x, recs, reg, result)
               /\ exists => \A s \in Slice, r \in Repo : Keeps(recs, reg, result, s, r)
<1> DEFINE managed == Managed(recs, reg, exists)
           ignored == Ignored(recs, reg, exists, globs)
           by == groupByName(managed)
           ov == membershipOverrides(reg, managed)
           slices == Apply(by, ov)
           result == Result(recs, unusable, reg, exists, globs)
<1>1. /\ result.slices = slices
      /\ result.skipped = unusable \cup {x.place : x \in ignored \cup collisions(managed)}
      /\ result.candidates = {member(x) : x \in recs \ (managed \cup ignored)}
  BY DEF Result
<1>2. managed \in SUBSET recs /\ managed \in SUBSET Listed /\ OnePerPlace(managed)
  BY DEF Managed, OnePerPlace
<1> HIDE DEF result, managed, ignored
<1>3. MembersFit(slices)
  BY <1>2, GroupsFit, ApplyFits
<1>4. result.candidates \in SUBSET Member
  BY <1>1, MemberOf
<1>5. ASSUME NEW x \in recs, Vanishes(x, recs, reg, result) PROVE FALSE
  <2>1. /\ \A s \in Slice : slices[s][x.place.repo] # member(x)
        /\ x.place \notin result.skipped
        /\ member(x) \notin result.candidates
        /\ \A s \in SlicesOf(x, recs, reg) :
              LET m == slices[s][x.place.repo]
              IN  ~(m # None /\ m.place # x.place /\ NameOf[m.ref] = s)
    BY <1>1, <1>5 DEF Vanishes
  <2>2. x \in managed /\ x \notin collisions(managed)
    BY <1>1, <2>1
  <2>3. PICK s \in Slice :
            LET m == slices[s][x.place.repo]
            IN  \/ m = member(x)
                \/ /\ ov[s][x.place.repo] = x.ref
                   /\ m # None /\ m.place # x.place /\ NameOf[m.ref] = s
    BY <1>2, <2>2, ManagedIsShown
  <2>4. ov[s][x.place.repo] = x.ref => s \in SlicesOf(x, recs, reg)
    BY <1>2, <2>2, OverrideOfSlice
  <2> QED BY <2>1, <2>3, <2>4
<1>6. ASSUME exists, NEW s \in Slice, NEW r \in Repo PROVE Keeps(recs, reg, result, s, r)
  <2> DEFINE m == reg[s][r]
             shown == slices[s][r]
  <2>1. SUFFICES ASSUME m # None, NEW x \in recs, x.place = m.place, m.place \notin result.skipped
                 PROVE  shown # None /\ (shown.place = m.place \/ NameOf[shown.ref] = s)
    BY <1>1 DEF Keeps
  <2>2. m \in Entries(reg) /\ m \in Member /\ x.place.repo = r
    BY <2>1, EntriesAreMembers DEF MembersFit
  <2>3. x \in managed
    BY <2>1, <2>2 DEF Managed, registered, managed
  <2>4. x \notin collisions(managed)
    BY <1>1, <2>1
  <2>5. Match(r, m, managed) = member(x) /\ member(x) # None /\ member(x).ref = x.ref
        /\ member(x).place = x.place
    BY <1>2, <2>1, <2>3, MatchByPath, MemberOf
  <2>6. ov[s][r] = x.ref
    BY <2>1, <2>5 DEF membershipOverrides
  <2>7. by[NameOf[x.ref]][r] = member(x)
    BY <1>2, <2>2, <2>3, <2>4, ManagedIsShown
  <2>8. shown = member(x) \/ (shown # None /\ shown.place # x.place /\ NameOf[shown.ref] = s)
    BY <1>2, <2>2, <2>3, <2>6, <2>7, OverrideMoves
  <2> QED BY <2>1, <2>5, <2>8
<1> QED BY <1>1, <1>3, <1>4, <1>5, <1>6 DEF result

-----------------------------------------------------------------------------
(* The registry and the overrides.                                         *)

\* A detached worktree is restored once, under a registered branch.
LEMMA RestoredFit ==
    ASSUME NEW reg, MembersFit(reg), NEW detached \in SUBSET Place
    PROVE  LET restored == restoreRegisteredDetached(reg, detached)
           IN  /\ restored \in SUBSET Listed /\ OnePerPlace(restored)
               /\ \A x \in restored : x.place \in detached
<1> DEFINE found == {q \in detached : \E m \in Entries(reg) : m.place = q}
           refOf(p) == (CHOOSE m \in Entries(reg) : m.place = p).ref
           restored == {worktreeRec(p, refOf(p), TRUE) : p \in found}
<1>1. \A p \in found : (CHOOSE m \in Entries(reg) : m.place = p) \in Member
  BY EntriesAreMembers
<1>2. \A p \in found : refOf(p) \in Ref /\ p \in Place /\ p \in detached
  BY <1>1 DEF Member
<1> HIDE DEF refOf, found
<1>3. restored \in SUBSET Listed /\ \A x \in restored : x.place \in detached
  <2> SUFFICES ASSUME NEW x \in restored PROVE x \in Listed /\ x.place \in detached
    OBVIOUS
  <2>1. PICK p \in found : x = worktreeRec(p, refOf(p), TRUE)
    OBVIOUS
  <2> QED BY <1>2, <2>1 DEF worktreeRec, Listed
<1>4. OnePerPlace(restored)
  <2> SUFFICES ASSUME NEW x \in restored, NEW y \in restored, x.place = y.place PROVE x = y
    BY DEF OnePerPlace
  <2>1. PICK p \in found : x = worktreeRec(p, refOf(p), TRUE)
    OBVIOUS
  <2>2. PICK q \in found : y = worktreeRec(q, refOf(q), TRUE)
    OBVIOUS
  <2>3. p = q
    BY <2>1, <2>2 DEF worktreeRec
  <2> QED BY <2>1, <2>2, <2>3
<1>5. restored = restoreRegisteredDetached(reg, detached)
  BY DEF restoreRegisteredDetached, found, refOf
<1> QED BY <1>3, <1>4, <1>5

\* An entry goes only when its place was slis's own and is empty.
LEMMA ReconciledFits ==
    ASSUME NEW reg, MembersFit(reg), NEW recs \in SUBSET Listed, NEW empty
    PROVE  LET new == reconcileRegistry(reg, recs, empty)
           IN  /\ MembersFit(new)
               /\ \A s \in Slice, r \in Repo :
                     reg[s][r] # None /\ new[s][r] = None =>
                        underManagedTree(reg[s][r].place) /\ reg[s][r].place \in empty
<1> DEFINE e(s, r) == LET m == reg[s][r]
                      IN  IF m = None THEN None
                          ELSE IF Match(r, m, recs) # None THEN Match(r, m, recs)
                          ELSE IF underManagedTree(m.place) /\ m.place \in empty THEN None ELSE m
           new == reconcileRegistry(reg, recs, empty)
<1>1. new = [s \in Slice |-> [r \in Repo |-> e(s, r)]]
  BY DEF reconcileRegistry
<1>2. ASSUME NEW s \in Slice, NEW r \in Repo
      PROVE  /\ e(s, r) \in Member \cup {None}
             /\ e(s, r) # None => e(s, r).place.repo = r
             /\ reg[s][r] # None /\ e(s, r) = None =>
                   underManagedTree(reg[s][r].place) /\ reg[s][r].place \in empty
  <2>1. CASE reg[s][r] = None
    BY <2>1
  <2>2. CASE reg[s][r] # None
    <3>1. reg[s][r] \in Member /\ reg[s][r].place.repo = r
      BY <2>2 DEF MembersFit
    <3>2. Match(r, reg[s][r], recs) # None => /\ Match(r, reg[s][r], recs) \in Member
                                              /\ Match(r, reg[s][r], recs).place.repo = r
      BY <3>1, MatchFits
    <3> QED BY <2>2, <3>1, <3>2
  <2> QED BY <2>1, <2>2
<1> HIDE DEF e, new
<1>3. \A s \in Slice, r \in Repo : new[s][r] = e(s, r)
  BY <1>1
<1>4. new \in [Slice -> [Repo -> Member \cup {None}]]
  <2>1. \A s \in Slice : [r \in Repo |-> e(s, r)] \in [Repo -> Member \cup {None}]
    BY <1>2
  <2> QED BY <1>1, <2>1
<1>5. MembersFit(new)
  BY <1>2, <1>3, <1>4 DEF MembersFit
<1> QED BY <1>2, <1>3, <1>5 DEF new

\* A registration adds and replaces.
LEMMA RegisteredFits ==
    ASSUME NEW reg, MembersFit(reg), NEW slices, MembersFit(slices)
    PROVE  LET new == registerManagedSlices(reg, slices)
           IN  MembersFit(new) /\ \A s \in Slice, r \in Repo : reg[s][r] # None => new[s][r] # None
<1> DEFINE new == registerManagedSlices(reg, slices)
<1>1. /\ new = [s \in Slice |-> [r \in Repo |-> new[s][r]]]
      /\ \A s \in Slice, r \in Repo :
            \/ new[s][r] = reg[s][r]
            \/ new[s][r] = slices[s][r] /\ slices[s][r] # None
  BY DEF registerManagedSlices
<1> HIDE DEF new
<1>2. \A s \in Slice, r \in Repo : /\ new[s][r] \in Member \cup {None}
                                   /\ new[s][r] # None => new[s][r].place.repo = r
  BY <1>1 DEF MembersFit
<1>3. new \in [Slice -> [Repo -> Member \cup {None}]]
  BY <1>1, <1>2
<1>4. MembersFit(new)
  BY <1>2, <1>3 DEF MembersFit
<1> QED BY <1>1, <1>4 DEF new

\* Overrides, renames and folds move and hide members.
LEMMA ResolvedFits ==
    ASSUME NEW slices, MembersFit(slices), NEW ov, NEW gathered, NEW renames
    PROVE  MembersFit(Resolve(slices, ov, gathered, renames))
<1> DEFINE applied == Apply(slices, retargetMovedOverrideMembers(slices, ov, renames))
           new == ApplyFolds(applied, gathered)
<1>1. MembersFit(applied)
  BY ApplyFits
<1> HIDE DEF applied
<1>2. /\ new = [s \in Slice |-> [r \in Repo |-> new[s][r]]]
      /\ \A s \in Slice, r \in Repo : new[s][r] = applied[s][r] \/ new[s][r] = None
  BY DEF ApplyFolds
<1> HIDE DEF new
<1>3. \A s \in Slice, r \in Repo : /\ new[s][r] \in Member \cup {None}
                                   /\ new[s][r] # None => new[s][r].place.repo = r
  BY <1>1, <1>2 DEF MembersFit
<1>4. new \in [Slice -> [Repo -> Member \cup {None}]]
  BY <1>2, <1>3
<1>5. MembersFit(new)
  BY <1>3, <1>4 DEF MembersFit
<1> QED BY <1>5 DEF Resolve, new, applied

-----------------------------------------------------------------------------
(* Steps.                                                                  *)

LEMMA RefOfMember == ASSUME NEW m \in Member PROVE m.ref \in Ref
BY DEF Member

LEMMA FailureFits ==
    ASSUME FilesFit, Failure \/ UNCHANGED userSteps
    PROVE  userSteps' \in 0 .. MaxUserSteps
BY LifecycleAssumption DEF FilesFit, Failure

LEMMA Kept ==
    ASSUME LifecycleInvariant
    PROVE  /\ UNCHANGED disk => DiskFits'
           /\ registry' = registry /\ UNCHANGED <<overrides, lifecycles>>
                 /\ (Failure \/ UNCHANGED userSteps) => FilesFit'
<1>1. UNCHANGED disk => DiskFits'
  BY DEF LifecycleInvariant, DiskFits, disk
<1>2. ASSUME registry' = registry, UNCHANGED <<overrides, lifecycles>>,
             Failure \/ UNCHANGED userSteps
      PROVE  FilesFit'
  <2>1. userSteps' \in 0 .. MaxUserSteps
    BY <1>2, FailureFits DEF LifecycleInvariant
  <2> QED BY <1>2, <2>1 DEF LifecycleInvariant, FilesFit
<1> QED BY <1>1, <1>2

LEMMA CommandMoves ==
    ASSUME LifecycleInvariant, DiskFits', FilesFit', NEW c \in Command, NEW x,
           Become(c, x), CmdFits(x)
    PROVE  LifecycleInvariant'
<1>1. \A d \in Command : cmd'[d] = IF d = c THEN x ELSE cmd[d]
  BY DEF LifecycleInvariant, Become
<1>2. cmd' = [d \in Command |-> cmd'[d]]
  BY DEF LifecycleInvariant, Become
<1>3. \A d \in Command : CmdFits(cmd'[d])
  BY <1>1 DEF LifecycleInvariant
<1> QED BY <1>2, <1>3 DEF LifecycleInvariant

LEMMA NoCommandFits == CmdFits(NoCommand)
<1>1. NoCommand = [k \in CmdFields |-> NoCommand[k]]
  BY DEF NoCommand, CmdFields
<1>2. OnePerPlace({})
  BY DEF OnePerPlace
<1>3. /\ NoCommand.at = "idle" /\ NoCommand.recs = {}
      /\ NoCommand.detached = {} /\ NoCommand.read.slices = NoEntries
      /\ NoCommand.report.slices = NoEntries /\ NoCommand.report.candidates = {}
  BY DEF NoCommand, NoFile, NoReport
<1> QED BY <1>1, <1>2, <1>3, NoEntriesFit DEF CmdFits

\* A command ends, or goes to a place that asks nothing new of it.
LEMMA CommandEnds ==
    ASSUME LifecycleInvariant, DiskFits', FilesFit', NEW c \in Command, Finish(c)
    PROVE  LifecycleInvariant'
BY NoCommandFits, CommandMoves DEF Finish

LEMMA Proceeds ==
    ASSUME NEW x, CmdFits(x), x.at # "idle", NEW place \in {"collect", "read overrides", "read registry", "remove"},
           x.at = "write overrides" => x.op \notin {"group", "gather"},
           place = "remove" => x.op = "rm",
           place = "read registry" => x.op \in {"create", "import", "forget", "rm"}
    PROVE  CmdFits([x EXCEPT !.at = place])
<1> DEFINE y == [x EXCEPT !.at = place]
<1>1. x = [k \in CmdFields |-> x[k]]
  BY DEF CmdFits
<1>2. /\ y = [k \in CmdFields |-> y[k]] /\ y.at = place /\ y.op = x.op /\ y.recs = x.recs
      /\ y.detached = x.detached /\ y.read = x.read /\ y.report = x.report /\ y.ref = x.ref
      /\ y.done = x.done /\ y.other = x.other
  BY <1>1 DEF CmdFields
<1> HIDE DEF y
<1>3. CmdFits(y)
  BY <1>2 DEF CmdFits
<1> QED BY <1>3 DEF y

LEMMA LaunchFits ==
    ASSUME LifecycleInvariant, NEW c \in Command, LaunchCommand(c)
    PROVE  LifecycleInvariant'
<1>1. ASSUME NEW op, NEW s, NEW ref, NEW other, NEW place, Launch(c, op, s, ref, other, place),
             place \in {"prune", "create", "read registry", "read overrides"},
             place = "create" => op = "create", place = "read registry" => op = "forget",
             op = "create" => ref \in Ref, op \in {"group", "gather"} => other \in Slice
      PROVE  LifecycleInvariant'
  <2> DEFINE x == [NoCommand EXCEPT !.op = op, !.slice = s, !.ref = ref, !.other = other,
                                    !.at = place, !.todo = Repo]
  <2>1. /\ x = [k \in CmdFields |-> x[k]] /\ x.op = op /\ x.ref = ref /\ x.other = other
        /\ x.at = place /\ x.recs = {} /\ x.detached = {} /\ x.read.slices = NoEntries
        /\ x.report.slices = NoEntries /\ x.report.candidates = {} /\ x.done = {}
    BY DEF NoCommand, CmdFields, NoFile, NoReport
  <2>2. Become(c, x) /\ UNCHANGED disk /\ UNCHANGED <<registry, overrides, userSteps>>
        /\ lifecycles < MaxLifecycle /\ lifecycles' = lifecycles + 1
    BY <1>1 DEF Launch, files
  <2> HIDE DEF x
  <2>3. CmdFits(x)
    BY <1>1, <2>1, NoEntriesFit DEF CmdFits, OnePerPlace
  <2>4. lifecycles' \in 0 .. MaxLifecycle
    BY <2>2, LifecycleAssumption DEF LifecycleInvariant, FilesFit
  <2>5. FilesFit'
    BY <2>2, <2>4 DEF LifecycleInvariant, FilesFit
  <2> QED BY <2>2, <2>3, <2>5, Kept, CommandMoves
<1>2. ASSUME NEW op \in {"ls", "import"}, Launch(c, op, None, None, None, "prune")
      PROVE  LifecycleInvariant'
  BY <1>1, <1>2
<1>6. ASSUME NEW s \in Slice, NEW op \in {"forget"}, Launch(c, op, s, None, None, "read registry")
      PROVE  LifecycleInvariant'
  BY <1>1, <1>6
<1>7. ASSUME NEW s \in Slice, NEW op \in {"rm"}, Launch(c, op, s, None, None, "prune")
      PROVE  LifecycleInvariant'
  BY <1>1, <1>7
<1>3. ASSUME NEW b \in Ref, NEW op \in {"create"}, Launch(c, op, NameOf[b], b, None, "create")
      PROVE  LifecycleInvariant'
  BY <1>1, <1>3
<1>4. ASSUME NEW s \in Slice, NEW t \in Slice, NEW op \in {"group", "gather"},
             Launch(c, op, s, None, t, "prune")
      PROVE  LifecycleInvariant'
  BY <1>1, <1>4
<1>5. ASSUME NEW s \in Slice, NEW op \in {"ungroup", "scatter"},
             Launch(c, op, s, None, None, "read overrides")
      PROVE  LifecycleInvariant'
  BY <1>1, <1>5
<1> QED BY <1>2, <1>3, <1>4, <1>5, <1>6, <1>7 DEF LaunchCommand

\* git's records of managed worktrees that are gone go.
LEMMA PruneFits ==
    ASSUME LifecycleInvariant, NEW c \in Command, pruneStaleManagedWorktreeMetadata(c)
    PROVE  LifecycleInvariant'
<1>1. /\ cmd[c].at = "prune" /\ Proceed(c, "collect") /\ CmdFits(cmd[c])
      /\ UNCHANGED <<refState, registry, overrides, lifecycles>>
      /\ Failure \/ UNCHANGED userSteps
  BY DEF pruneStaleManagedWorktreeMetadata, ListingFails, Stage, files, LifecycleInvariant
<1>2. PICK failing \in SUBSET Repo :
         checkout' = [p \in Place |->
                IF underManagedTree(p) /\ content[p] = "gone" /\ p.repo \notin failing
                THEN None ELSE checkout[p]]
  BY DEF pruneStaleManagedWorktreeMetadata
<1>3. content' = [p \in Place |->
          IF underManagedTree(p) /\ content[p] = "empty" THEN "gone" ELSE content[p]]
  BY DEF pruneStaleManagedWorktreeMetadata
<1>4. DiskFits
  BY DEF LifecycleInvariant
<1>5. \A p \in Place : checkout'[p] = checkout[p] \/ checkout'[p] = None
  BY <1>2
<1>6. checkout' \in [Place -> Ref \cup {None, Detached}]
  BY <1>2, <1>4 DEF DiskFits
<1>7. content' \in [Place -> {"full", "fresh", "empty", "gone"}]
  BY <1>3, <1>4 DEF DiskFits
<1>8. DiskFits'
  BY <1>1, <1>4, <1>5, <1>6, <1>7, NoMember DEF DiskFits
<1>9. CmdFits([cmd[c] EXCEPT !.at = "collect"])
  BY <1>1, Proceeds
<1> QED BY <1>1, <1>8, <1>9, Kept, CommandMoves DEF Proceed

\* The listing has each healthy worktree once.
LEMMA CollectFits ==
    ASSUME LifecycleInvariant, NEW c \in Command, collect(c)
    PROVE  LifecycleInvariant'
<1>1. /\ cmd[c].at = "collect" /\ CmdFits(cmd[c]) /\ UNCHANGED disk
      /\ UNCHANGED <<registry, overrides, lifecycles>>
      /\ Failure \/ UNCHANGED userSteps
  BY DEF collect, ListingFails, Stage, files, LifecycleInvariant
<1>2. PICK failing \in SUBSET Repo :
         LET listed == {p \in Place : p.repo \notin failing /\ checkout[p] # None}
             healthy == {p \in listed : ~Prunable(p) /\ checkout[p] # Detached}
         IN  Become(c, [cmd[c] EXCEPT !.at = "load",
                !.recs = {worktreeRec(p, checkout[p], FALSE) : p \in healthy},
                !.detached = {p \in listed : ~Prunable(p) /\ checkout[p] = Detached},
                !.unusable = listed \ healthy])
  BY DEF collect
<1> DEFINE listed == {p \in Place : p.repo \notin failing /\ checkout[p] # None}
           healthy == {p \in listed : ~Prunable(p) /\ checkout[p] # Detached}
           recs == {worktreeRec(p, checkout[p], FALSE) : p \in healthy}
           detached == {p \in listed : ~Prunable(p) /\ checkout[p] = Detached}
           x == [cmd[c] EXCEPT !.at = "load", !.recs = recs, !.detached = detached,
                               !.unusable = listed \ healthy]
<1>3. healthy \in SUBSET Place /\ detached \in SUBSET Place /\ healthy \cap detached = {}
      /\ \A p \in healthy : checkout[p] \in Ref
  BY DEF LifecycleInvariant, DiskFits
<1>4. Become(c, x)
  BY <1>2
<1>5. /\ x = [k \in CmdFields |-> x[k]] /\ x.at = "load" /\ x.recs = recs /\ x.detached = detached
      /\ x.op = cmd[c].op /\ x.read = cmd[c].read /\ x.report = cmd[c].report
      /\ x.ref = cmd[c].ref /\ x.done = cmd[c].done /\ x.other = cmd[c].other
  BY <1>1 DEF CmdFits, CmdFields
<1> HIDE DEF x, detached, healthy, listed
<1>6. \A y \in recs : y \in Listed /\ y.place \in healthy
                      /\ y = [place |-> y.place, ref |-> checkout[y.place], restored |-> FALSE]
  <2> SUFFICES ASSUME NEW y \in recs
               PROVE  y \in Listed /\ y.place \in healthy
                      /\ y = [place |-> y.place, ref |-> checkout[y.place], restored |-> FALSE]
    OBVIOUS
  <2>1. PICK p \in healthy : y = worktreeRec(p, checkout[p], FALSE)
    OBVIOUS
  <2> QED BY <1>3, <2>1 DEF worktreeRec, Listed
<1> HIDE DEF recs
<1>7. recs \in SUBSET Listed /\ OnePerPlace(recs) /\ \A y \in recs : y.place \notin detached
  BY <1>3, <1>6 DEF OnePerPlace
<1>8. CmdFits(x)
  BY <1>1, <1>3, <1>5, <1>7 DEF CmdFits
<1> QED BY <1>1, <1>4, <1>8, Kept, CommandMoves

LEMMA LoadForReportFits ==
    ASSUME LifecycleInvariant, NEW c \in Command, LoadForReport(c)
    PROVE  LifecycleInvariant'
<1>1. PICK read \in {registry, NoFile, File(NoEntries)} :
        /\ RegistryLoaded(read)
        /\ LET restored == restoreRegisteredDetached(read.slices, cmd[c].detached)
           IN  Become(c, [cmd[c] EXCEPT !.at = "reconcile", !.read = read,
                  !.exists = (read.file = "ok"), !.recs = @ \cup restored,
                  !.unusable = @ \ {y.place : y \in restored}])
  BY DEF LoadForReport
<1> DEFINE restored == restoreRegisteredDetached(read.slices, cmd[c].detached)
           x == [cmd[c] EXCEPT !.at = "reconcile", !.read = read,
                   !.exists = (read.file = "ok"), !.recs = @ \cup restored,
                   !.unusable = @ \ {y.place : y \in restored}]
<1>2. /\ cmd[c].at = "load" /\ CmdFits(cmd[c]) /\ UNCHANGED disk
      /\ UNCHANGED <<overrides, lifecycles>> /\ Become(c, x)
  BY <1>1 DEF LoadForReport, Stage, LifecycleInvariant
<1>3. MembersFit(read.slices)
  BY NoEntriesFit DEF LifecycleInvariant, FilesFit, NoFile, File
<1>4. /\ x = [k \in CmdFields |-> x[k]] /\ x.at = "reconcile" /\ x.read = read
      /\ x.exists = (read.file = "ok") /\ x.recs = cmd[c].recs \cup restored
      /\ x.op = cmd[c].op /\ x.detached = cmd[c].detached /\ x.report = cmd[c].report
      /\ x.ref = cmd[c].ref /\ x.done = cmd[c].done /\ x.other = cmd[c].other
  BY <1>2 DEF CmdFits, CmdFields
<1>5. /\ restored \in SUBSET Listed /\ OnePerPlace(restored)
      /\ \A y \in restored : y.place \in cmd[c].detached
  BY <1>2, <1>3, RestoredFit DEF CmdFits
<1> HIDE DEF x, restored
<1>6. x.recs \in SUBSET Listed /\ OnePerPlace(x.recs)
  BY <1>2, <1>4, <1>5 DEF CmdFits, OnePerPlace
<1>7. CmdFits(x)
  BY <1>2, <1>3, <1>4, <1>6 DEF CmdFits
<1>8. /\ registry'.file \in {"none", "broken", "ok"} /\ MembersFit(registry'.slices)
      /\ Failure \/ UNCHANGED userSteps
  BY <1>1, NoEntriesFit DEF RegistryLoaded, LifecycleInvariant, FilesFit, NoFile
<1>9. userSteps' \in 0 .. MaxUserSteps
  BY <1>8, FailureFits DEF LifecycleInvariant
<1>10. FilesFit'
  BY <1>2, <1>8, <1>9 DEF LifecycleInvariant, FilesFit
<1> QED BY <1>2, <1>7, <1>10, Kept, CommandMoves

\* A write leaves what was written, or what the file is.
LEMMA SaveFits ==
    ASSUME LifecycleInvariant, NEW c \in Command, NEW slices, MembersFit(slices),
           Save(c, slices), UNCHANGED <<overrides, lifecycles, userSteps>>
    PROVE  FilesFit'
<1>1. CASE registry' = File(slices)
  BY <1>1 DEF LifecycleInvariant, FilesFit, File
<1>2. CASE UNCHANGED registry
  BY <1>2 DEF LifecycleInvariant, FilesFit
<1> QED BY <1>1, <1>2 DEF Save

LEMMA ReconcileFits ==
    ASSUME LifecycleInvariant, NEW c \in Command, Reconcile(c)
    PROVE  LifecycleInvariant'
<1> DEFINE was == cmd[c].read.slices
           reg == reconcileRegistry(was, cmd[c].recs, missingOrEmpty)
           x == [cmd[c] EXCEPT !.at = "save reconciled", !.write = reg, !.lost = missingOrEmpty]
           y == [cmd[c] EXCEPT !.at = "publish"]
<1>1. /\ cmd[c].at = "reconcile" /\ CmdFits(cmd[c])
      /\ UNCHANGED <<checkout, refState, registry, overrides, lifecycles, userSteps>>
      /\ \/ cmd[c].exists /\ Become(c, x)
         \/ Become(c, y)
  BY DEF Reconcile, Proceed, Stage, LifecycleInvariant, files
<1>2. DiskFits'
  <2>1. DiskFits
    BY DEF LifecycleInvariant
  <2>2. content' \in [Place -> {"full", "fresh", "empty", "gone"}]
    <3>1. \/ UNCHANGED content
          \/ \E emptied : content' = [p \in Place |->
                IF p \in emptied /\ content[p] = "empty" THEN "gone" ELSE content[p]]
      BY Zenon DEF Reconcile
    <3> QED BY <2>1, <3>1 DEF DiskFits
  <2> QED BY <1>1, <2>1, <2>2 DEF DiskFits
<1>3. FilesFit'
  BY <1>1, Kept
<1>4. /\ MembersFit(reg)
      /\ \A s \in Slice, r \in Repo :
            was[s][r] # None /\ reg[s][r] = None =>
               underManagedTree(was[s][r].place) /\ was[s][r].place \in missingOrEmpty
  <2>1. MembersFit(was) /\ cmd[c].recs \in SUBSET Listed
    BY <1>1 DEF CmdFits
  <2> HIDE DEF was
  <2> QED BY <2>1, ReconciledFits
<1>5. /\ x = [k \in CmdFields |-> x[k]] /\ x.at = "save reconciled" /\ x.read = cmd[c].read
      /\ x.write = reg /\ x.lost = missingOrEmpty
      /\ x.exists = cmd[c].exists /\ x.recs = cmd[c].recs
      /\ x.op = cmd[c].op /\ x.detached = cmd[c].detached /\ x.report = cmd[c].report
      /\ x.ref = cmd[c].ref /\ x.done = cmd[c].done /\ x.other = cmd[c].other
  BY <1>1 DEF CmdFits, CmdFields
<1>6. /\ y = [k \in CmdFields |-> y[k]] /\ y.at = "publish" /\ y.read = cmd[c].read
      /\ y.exists = cmd[c].exists /\ y.recs = cmd[c].recs
      /\ y.op = cmd[c].op /\ y.detached = cmd[c].detached /\ y.report = cmd[c].report
      /\ y.ref = cmd[c].ref /\ y.done = cmd[c].done /\ y.other = cmd[c].other
  BY <1>1 DEF CmdFits, CmdFields
<1> HIDE DEF reg, x, y
<1>7. ASSUME cmd[c].exists PROVE CmdFits(x)
  <2>1. /\ x.exists /\ MembersFit(x.write)
        /\ \A s \in Slice, r \in Repo :
              x.read.slices[s][r] # None /\ x.write[s][r] = None =>
                 /\ underManagedTree(x.read.slices[s][r].place)
                 /\ x.read.slices[s][r].place \in x.lost
    BY <1>4, <1>5, <1>7
  <2> QED BY <1>1, <1>5, <2>1 DEF CmdFits
<1>8. CmdFits(y)
  BY <1>1, <1>6 DEF CmdFits
<1> QED BY <1>1, <1>2, <1>3, <1>7, <1>8, CommandMoves

LEMMA SaveReconciledFits ==
    ASSUME LifecycleInvariant, NEW c \in Command, SaveReconciled(c)
    PROVE  LifecycleInvariant'
<1> DEFINE x == [cmd[c] EXCEPT !.at = "publish", !.read = File(cmd[c].write),
                               !.write = NoEntries, !.lost = {}]
<1>1. /\ cmd[c].at = "save reconciled" /\ CmdFits(cmd[c]) /\ UNCHANGED disk
      /\ UNCHANGED <<overrides, lifecycles, userSteps>>
      /\ Save(c, cmd[c].write) /\ Become(c, x)
  BY DEF SaveReconciled, Stage, LifecycleInvariant
<1>2. MembersFit(cmd[c].write) /\ cmd[c].exists
  BY <1>1 DEF CmdFits
<1>3. /\ x = [k \in CmdFields |-> x[k]] /\ x.at = "publish"
      /\ x.read.slices = cmd[c].write /\ x.read.file = "ok"
      /\ x.exists = cmd[c].exists /\ x.recs = cmd[c].recs
      /\ x.op = cmd[c].op /\ x.detached = cmd[c].detached /\ x.report = cmd[c].report
      /\ x.ref = cmd[c].ref /\ x.done = cmd[c].done /\ x.other = cmd[c].other
  BY <1>1 DEF CmdFits, CmdFields, File
<1> HIDE DEF x
<1>4. CmdFits(x)
  BY <1>1, <1>2, <1>3 DEF CmdFits
<1>5. FilesFit'
  BY <1>1, <1>2, SaveFits
<1> QED BY <1>1, <1>4, <1>5, Kept, CommandMoves

LEMMA ReportFits ==
    ASSUME LifecycleInvariant, NEW c \in Command, Report(c)
    PROVE  LifecycleInvariant'
<1> DEFINE was == cmd[c].read.slices
           result == Result(cmd[c].recs, cmd[c].unusable, was, cmd[c].exists, ignoreGlobs)
           before == IF cmd[c].exists THEN was ELSE result.slices
           reg == registerManagedSlices(before, result.slices)
           report == [slices |-> result.slices, skipped |-> result.skipped,
                      candidates |-> result.candidates, missing |-> missingMembers(reg, cmd[c].recs)]
           x == [cmd[c] EXCEPT !.at = "reported", !.report = report]
<1>1. /\ cmd[c].at = "publish" /\ CmdFits(cmd[c]) /\ UNCHANGED disk
      /\ UNCHANGED <<overrides, lifecycles, userSteps>> /\ Save(c, reg) /\ Become(c, x)
  BY DEF Report, Stage, LifecycleInvariant
<1>2. /\ MembersFit(result.slices) /\ result.candidates \in SUBSET Member
      /\ \A y \in cmd[c].recs : ~Vanishes(y, cmd[c].recs, was, result)
      /\ cmd[c].exists => \A s \in Slice, r \in Repo : Keeps(cmd[c].recs, was, result, s, r)
  BY <1>1, ResultFits DEF CmdFits
<1> HIDE DEF result
<1>3. MembersFit(reg)
  <2>1. MembersFit(before)
    BY <1>1, <1>2 DEF CmdFits
  <2> HIDE DEF before
  <2> QED BY <1>2, <2>1, RegisteredFits
<1>4. /\ report.slices = result.slices /\ report.skipped = result.skipped
      /\ report.candidates = result.candidates
  OBVIOUS
<1> HIDE DEF report, reg
<1>5. /\ x = [k \in CmdFields |-> x[k]] /\ x.at = "reported" /\ x.read = cmd[c].read
      /\ x.exists = cmd[c].exists /\ x.recs = cmd[c].recs
      /\ x.op = cmd[c].op /\ x.detached = cmd[c].detached /\ x.report = report
      /\ x.ref = cmd[c].ref /\ x.done = cmd[c].done /\ x.other = cmd[c].other
  BY <1>1 DEF CmdFits, CmdFields
<1> HIDE DEF x
<1>6. Faithful(x)
  <2>1. \A y \in x.recs : ~Vanishes(y, x.recs, x.read.slices, x.report)
    BY <1>2, <1>4, <1>5 DEF Vanishes
  <2>2. x.exists => \A s \in Slice, r \in Repo : Keeps(x.recs, x.read.slices, x.report, s, r)
    BY <1>2, <1>4, <1>5 DEF Keeps
  <2> QED BY <2>1, <2>2 DEF Faithful
<1>7. CmdFits(x)
  BY <1>1, <1>2, <1>4, <1>5, <1>6 DEF CmdFits
<1>8. FilesFit'
  BY <1>1, <1>3, SaveFits
<1>9. PICK y : y = x
  OBVIOUS
<1> QED BY <1>1, <1>7, <1>8, <1>9, Kept, CommandMoves

\* rm goes on with its slice as the overrides make it; import with the candidates.
LEMMA FindsFit ==
    ASSUME LifecycleInvariant, NEW c \in Command, ListSlices(c) \/ FindSlice(c) \/ importCmd(c)
    PROVE  LifecycleInvariant'
<1>1. /\ UNCHANGED <<disk, registry, overrides, lifecycles, userSteps>> /\ CmdFits(cmd[c])
      /\ DiskFits' /\ FilesFit'
  <2>1. UNCHANGED disk /\ UNCHANGED <<registry, overrides, lifecycles, userSteps>>
    BY DEF ListSlices, FindSlice, importCmd, files
  <2> QED BY <2>1, Kept DEF LifecycleInvariant
<1>2. CASE Finish(c)
  BY <1>1, <1>2, CommandEnds
<1>3. ASSUME NEW members,
             Become(c, [NoCommand EXCEPT !.op = "rm", !.slice = cmd[c].slice, !.at = "live check",
                           !.report.slices[cmd[c].slice] = Resolved(c)[cmd[c].slice],
                           !.todo = members])
      PROVE  LifecycleInvariant'
  <2> DEFINE s == cmd[c].slice
             new == Resolved(c)
             slices == [NoEntries EXCEPT ![s] = new[s]]
             report == [NoReport EXCEPT !.slices = slices]
             x == [NoCommand EXCEPT !.op = "rm", !.slice = s, !.at = "live check",
                                    !.report = report, !.todo = members]
  <2>1. Become(c, x)
    BY <1>3 DEF NoCommand, NoReport
  <2>2. MembersFit(new)
    BY <1>1, ResolvedFits DEF Resolved, CmdFits
  <2> HIDE DEF new
  <2>3. MembersFit(slices)
    <3>1. slices \in [Slice -> [Repo -> Member \cup {None}]]
      BY <2>2, NoEntriesFit DEF MembersFit
    <3>2. \A t \in Slice : slices[t] = NoEntries[t] \/ slices[t] = new[t]
      BY DEF NoEntries
    <3> HIDE DEF slices
    <3> QED BY <2>2, <3>1, <3>2, NoEntriesFit DEF MembersFit
  <2> HIDE DEF slices
  <2>4. /\ x = [k \in CmdFields |-> x[k]] /\ x.at = "live check" /\ x.op = "rm"
        /\ x.recs = {} /\ x.detached = {} /\ x.read.slices = NoEntries
        /\ x.report.slices = slices /\ x.report.candidates = {} /\ x.done = {}
    BY DEF NoCommand, CmdFields, NoFile, NoReport
  <2> HIDE DEF x
  <2>5. CmdFits(x)
    BY <2>3, <2>4, NoEntriesFit DEF CmdFits, OnePerPlace
  <2> QED BY <1>1, <2>1, <2>5, CommandMoves
<1>4. ASSUME NEW toImport \in SUBSET Member,
             Become(c, [NoCommand EXCEPT !.op = "import", !.at = "read registry", !.done = toImport])
      PROVE  LifecycleInvariant'
  <2> DEFINE x == [NoCommand EXCEPT !.op = "import", !.at = "read registry", !.done = toImport]
  <2>1. /\ x = [k \in CmdFields |-> x[k]] /\ x.at = "read registry" /\ x.op = "import"
        /\ x.recs = {} /\ x.detached = {} /\ x.read.slices = NoEntries
        /\ x.report.slices = NoEntries /\ x.report.candidates = {} /\ x.done = toImport
    BY DEF NoCommand, CmdFields, NoFile, NoReport
  <2> HIDE DEF x
  <2>2. CmdFits(x)
    BY <2>1, NoEntriesFit DEF CmdFits, OnePerPlace
  <2> QED BY <1>1, <1>4, <2>2, CommandMoves DEF x
<1>5. CASE ListSlices(c)
  BY <1>2, <1>5 DEF ListSlices
<1>6. CASE FindSlice(c)
  BY <1>2, <1>3, <1>6 DEF FindSlice
<1>7. CASE importCmd(c)
  <2>1. cmd[c].report.candidates \in SUBSET Member
    BY <1>1 DEF CmdFits
  <2> QED BY <1>2, <1>4, <1>7, <2>1 DEF importCmd
<1> QED BY <1>5, <1>6, <1>7

LEMMA LoadRegistryFits ==
    ASSUME LifecycleInvariant, NEW c \in Command, LoadRegistry(c)
    PROVE  LifecycleInvariant'
<1> DEFINE e(s, r) == IF Is(c, {"forget", "rm"})
                      THEN IF s = cmd[c].slice THEN None ELSE registry.slices[s][r]
                      ELSE IF Registering(c, s, r) # {} THEN CHOOSE m \in Registering(c, s, r) : TRUE
                      ELSE registry.slices[s][r]
           new == [s \in Slice |-> [r \in Repo |-> e(s, r)]]
           x == [cmd[c] EXCEPT !.at = "write registry", !.read = registry, !.write = new]
<1>1. /\ cmd[c].at = "read registry" /\ CmdFits(cmd[c]) /\ UNCHANGED disk
      /\ UNCHANGED <<registry, overrides, lifecycles>>
      /\ Failure \/ UNCHANGED userSteps
  BY DEF LoadRegistry, Stage, files, LifecycleInvariant
<1>2. DiskFits' /\ FilesFit'
  BY <1>1, Kept
<1>3. CASE Finish(c)
  BY <1>2, <1>3, CommandEnds
<1>4. CASE Become(c, x)
  <2>1. /\ x = [k \in CmdFields |-> x[k]] /\ x.at = "write registry" /\ x.read = registry
        /\ x.write = new /\ x.exists = cmd[c].exists /\ x.recs = cmd[c].recs
        /\ x.op = cmd[c].op /\ x.detached = cmd[c].detached /\ x.report = cmd[c].report
        /\ x.ref = cmd[c].ref /\ x.done = cmd[c].done /\ x.other = cmd[c].other
        /\ x.slice = cmd[c].slice
    BY <1>1 DEF CmdFits, CmdFields
  <2> HIDE DEF x
  <2>2. MembersFit(registry.slices)
    BY DEF LifecycleInvariant, FilesFit
  <2>3. ASSUME NEW s \in Slice, NEW r \in Repo
        PROVE  /\ e(s, r) \in Member \cup {None}
               /\ e(s, r) # None => e(s, r).place.repo = r
               /\ registry.slices[s][r] # None /\ e(s, r) = None =>
                     x.op \in {"forget", "rm"} /\ x.slice = s
    <3>1. CASE Is(c, {"forget", "rm"})
      <4>1. e(s, r) = IF s = cmd[c].slice THEN None ELSE registry.slices[s][r]
        BY <3>1
      <4>2. x.op \in {"forget", "rm"}
        BY <2>1, <3>1 DEF Is
      <4> HIDE DEF e
      <4>3. CASE s = cmd[c].slice
        BY <2>1, <4>1, <4>2, <4>3
      <4>4. CASE s # cmd[c].slice
        BY <2>2, <4>1, <4>4 DEF MembersFit
      <4> QED BY <4>3, <4>4
    <3>2. CASE ~Is(c, {"forget", "rm"}) /\ Registering(c, s, r) # {}
      <4>1. cmd[c].done \in SUBSET Member
        BY <1>1, <3>2 DEF CmdFits, Is
      <4>2. e(s, r) \in Registering(c, s, r)
        BY <3>2
      <4>3. e(s, r) \in Member /\ e(s, r).place.repo = r
        BY <4>1, <4>2 DEF Registering
      <4> QED BY <4>3, NoMember
    <3>3. CASE ~Is(c, {"forget", "rm"}) /\ Registering(c, s, r) = {}
      BY <2>2, <3>3 DEF MembersFit
    <3> QED BY <3>1, <3>2, <3>3
  <2> HIDE DEF e
  <2>4. \A s \in Slice : [r \in Repo |-> e(s, r)] \in [Repo -> Member \cup {None}]
    BY <2>3
  <2>5. MembersFit(new) /\ \A s \in Slice, r \in Repo : new[s][r] = e(s, r)
    BY <2>3, <2>4 DEF MembersFit
  <2> HIDE DEF new
  <2>6. CmdFits(x)
    <3>1. /\ MembersFit(x.read.slices) /\ MembersFit(x.write)
          /\ \A s \in Slice, r \in Repo :
                x.read.slices[s][r] # None /\ x.write[s][r] = None =>
                   x.op \in {"forget", "rm"} /\ x.slice = s
      <4>1. x.read.slices = registry.slices /\ x.write = new
        BY <2>1
      <4>2. \A s \in Slice, r \in Repo :
               x.read.slices[s][r] # None /\ x.write[s][r] = None =>
                  x.op \in {"forget", "rm"} /\ x.slice = s
        BY <2>3, <2>5, <4>1
      <4> QED BY <2>2, <2>5, <4>1, <4>2
    <3> QED BY <1>1, <2>1, <3>1 DEF CmdFits
  <2> QED BY <1>2, <1>4, <2>6, CommandMoves
<1> QED BY <1>3, <1>4 DEF LoadRegistry

LEMMA SaveRegistryFits ==
    ASSUME LifecycleInvariant, NEW c \in Command, SaveRegistry(c)
    PROVE  LifecycleInvariant'
<1>1. /\ cmd[c].at = "write registry" /\ CmdFits(cmd[c]) /\ UNCHANGED disk
      /\ UNCHANGED <<overrides, lifecycles, userSteps>> /\ Save(c, cmd[c].write) /\ Finish(c)
  BY DEF SaveRegistry, Stage, LifecycleInvariant
<1>2. MembersFit(cmd[c].write)
  BY <1>1 DEF CmdFits
<1>3. FilesFit'
  BY <1>1, <1>2, SaveFits
<1> QED BY <1>1, <1>3, Kept, CommandEnds

\* The fields of a command's record that its next steps depend on.
LEMMA CmdFacts ==
    ASSUME LifecycleInvariant, NEW c \in Command
    PROVE  /\ CmdFits(cmd[c]) /\ cmd[c] = [k \in CmdFields |-> cmd[c][k]]
           /\ DiskFits /\ FilesFit
BY DEF LifecycleInvariant, CmdFits

\* It goes on in its place, with what it has still to do and has done.
LEMMA GoesOn ==
    ASSUME NEW x, CmdFits(x), x.at \in {"create", "remove"}, NEW todo, NEW done,
           x.at = "create" => done \in SUBSET Member
    PROVE  CmdFits([x EXCEPT !.todo = todo, !.done = done])
<1> DEFINE y == [x EXCEPT !.todo = todo, !.done = done]
<1>1. x = [k \in CmdFields |-> x[k]]
  BY DEF CmdFits
<1>2. /\ y = [k \in CmdFields |-> y[k]] /\ y.at = x.at /\ y.op = x.op /\ y.recs = x.recs
      /\ y.detached = x.detached /\ y.read = x.read /\ y.report = x.report /\ y.ref = x.ref
      /\ y.done = done /\ y.other = x.other
  BY <1>1 DEF CmdFields
<1> HIDE DEF y
<1>3. y.op = "create" => y.at = "create" \/ y.at = "remove"
  BY <1>2
<1>4. CmdFits(y)
  BY <1>2 DEF CmdFits
<1> QED BY <1>4 DEF y

LEMMA CreateFits ==
    ASSUME LifecycleInvariant, NEW c \in Command, createFreshWorktree(c)
    PROVE  LifecycleInvariant'
<1>1. /\ cmd[c].at = "create" /\ cmd[c].op = "create" /\ CmdFits(cmd[c]) /\ DiskFits /\ FilesFit
      /\ cmd[c].ref \in Ref /\ cmd[c].done \in SUBSET Member /\ cmd[c].todo # {}
      /\ cmd[c] = [k \in CmdFields |-> cmd[c][k]]
      /\ UNCHANGED <<registry, overrides, lifecycles>>
  BY CmdFacts DEF createFreshWorktree, Stage, files, CmdFits
<1> DEFINE b == cmd[c].ref
           places(r) == {p \in Place : p.repo = r /\ p.tree = cmd[c].slice}
           elsewhere(r) == \E p \in Place : p.repo = r /\ checkout[p] = b
           Next(r) == [cmd[c] EXCEPT !.todo = @ \ {r}]
<1>2. PICK r \in cmd[c].todo :
        \/ \E p \in places(r) :
              /\ \/ checkout[p] = b /\ content[p] = "full" /\ UNCHANGED disk
                 \/ /\ ~elsewhere(r) /\ checkout[p] = None /\ content[p] # "full"
                    /\ checkout' = [checkout EXCEPT ![p] = b]
                    /\ content' = [content EXCEPT ![p] = "full"]
                    /\ refState' = [refState EXCEPT ![r][b] = IF @ = "absent" THEN "merged" ELSE @]
              /\ Become(c, [Next(r) EXCEPT !.done = @ \cup {RegistryMember(p, b)}])
              /\ UNCHANGED userSteps
        \/ cmd' = [cmd EXCEPT ![c] = Next(r)] /\ UNCHANGED <<disk, userSteps>>
        \/ Failure /\ cmd' = [cmd EXCEPT ![c] = Next(r)] /\ UNCHANGED disk
  BY DEF createFreshWorktree
<1>3. ASSUME cmd' = [cmd EXCEPT ![c] = Next(r)], UNCHANGED disk, Failure \/ UNCHANGED userSteps
      PROVE  LifecycleInvariant'
  <2>1. Next(r) = [cmd[c] EXCEPT !.todo = cmd[c].todo \ {r}, !.done = cmd[c].done]
    BY <1>1 DEF CmdFields
  <2> DEFINE x == [cmd[c] EXCEPT !.todo = cmd[c].todo \ {r}, !.done = cmd[c].done]
  <2>2. CmdFits(x)
    BY <1>1, GoesOn
  <2>3. Become(c, x)
    BY <1>3, <2>1 DEF Become
  <2> HIDE DEF x
  <2> QED BY <1>1, <1>3, <2>2, <2>3, Kept, CommandMoves
<1>4. ASSUME NEW p \in places(r), UNCHANGED userSteps,
             Become(c, [Next(r) EXCEPT !.done = @ \cup {RegistryMember(p, b)}]),
             \/ UNCHANGED disk
             \/ /\ ~elsewhere(r) /\ checkout' = [checkout EXCEPT ![p] = b]
                /\ content' = [content EXCEPT ![p] = "full"]
                /\ refState' = [refState EXCEPT ![r][b] = IF @ = "absent" THEN "merged" ELSE @]
      PROVE  LifecycleInvariant'
  <2> DEFINE done == cmd[c].done \cup {RegistryMember(p, b)}
             x == [cmd[c] EXCEPT !.todo = cmd[c].todo \ {r}, !.done = done]
  <2>1. p \in Place /\ p.repo = r /\ r \in Repo /\ b \in Ref
    BY <1>1, <1>4, GroupingAssumption
  <2>2. done \in SUBSET Member
    BY <1>1, <2>1 DEF RegistryMember, Member
  <2>3. Become(c, x)
    BY <1>1, <1>4 DEF CmdFields
  <2>4. CmdFits(x)
    BY <1>1, <2>2, GoesOn
  <2> HIDE DEF x
  <2>5. DiskFits'
    <3>1. CASE UNCHANGED disk
      BY <3>1, Kept
    <3>2. CASE /\ ~elsewhere(r) /\ checkout' = [checkout EXCEPT ![p] = b]
               /\ content' = [content EXCEPT ![p] = "full"]
               /\ refState' = [refState EXCEPT ![r][b] = IF @ = "absent" THEN "merged" ELSE @]
      <4>1. /\ checkout' \in [Place -> Ref \cup {None, Detached}]
            /\ content' \in [Place -> {"full", "fresh", "empty", "gone"}]
        BY <1>1, <2>1, <3>2 DEF DiskFits
      <4>2. refState' \in [Repo -> [Ref -> {"absent", "merged", "ahead"}]]
        BY <1>1, <2>1, <3>2 DEF DiskFits
      <4>3. \A q \in Place : checkout'[q] = IF q = p THEN b ELSE checkout[q]
        BY <1>1, <3>2 DEF DiskFits
      <4>4. \A q \in Place : q.repo = r => checkout[q] # b
        BY <3>2
      <4>5. \A q \in Repo, d \in Ref :
               /\ refState[q][d] # "absent" => refState'[q][d] # "absent"
               /\ refState'[r][b] # "absent"
        BY <1>1, <2>1, <3>2 DEF DiskFits
      <4> HIDE DEF b
      <4>6. ASSUME NEW q \in Place, checkout'[q] \in Ref
            PROVE  /\ refState'[q.repo][checkout'[q]] # "absent"
                   /\ \A t \in Place : q.repo = t.repo /\ q # t => checkout'[q] # checkout'[t]
        BY <1>1, <2>1, <4>3, <4>4, <4>5, <4>6, GroupingAssumption DEF DiskFits
      <4> QED BY <4>1, <4>2, <4>6 DEF DiskFits
    <3> QED BY <1>4, <3>1, <3>2
  <2> QED BY <1>1, <1>4, <2>3, <2>4, <2>5, Kept, CommandMoves
<1> QED BY <1>2, <1>3, <1>4

LEMMA CreatedAllFits ==
    ASSUME LifecycleInvariant, NEW c \in Command, CreatedAll(c)
    PROVE  LifecycleInvariant'
<1>1. /\ cmd[c].at = "create" /\ CmdFits(cmd[c]) /\ cmd[c].op = "create" /\ DiskFits' /\ FilesFit'
  BY CmdFacts, Kept DEF CreatedAll, Stage, files, CmdFits
<1>2. Proceed(c, "read registry") => LifecycleInvariant'
  BY <1>1, Proceeds, CommandMoves DEF Proceed
<1> QED BY <1>1, <1>2, CommandEnds DEF CreatedAll

LEMMA RemoveUnlessLiveFits ==
    ASSUME LifecycleInvariant, NEW c \in Command, RemoveUnlessLive(c)
    PROVE  LifecycleInvariant'
<1>1. /\ cmd[c].at = "live check" /\ CmdFits(cmd[c]) /\ cmd[c].op = "rm" /\ DiskFits' /\ FilesFit'
  BY CmdFacts, Kept DEF RemoveUnlessLive, Stage, files, CmdFits
<1>2. Proceed(c, "remove") => LifecycleInvariant'
  BY <1>1, Proceeds, CommandMoves DEF Proceed
<1> QED BY <1>1, <1>2, CommandEnds DEF RemoveUnlessLive

LEMMA KillSessionFits ==
    ASSUME LifecycleInvariant, NEW c \in Command, KillSession(c)
    PROVE  LifecycleInvariant'
<1>1. /\ cmd[c].at = "remove" /\ CmdFits(cmd[c]) /\ cmd[c].op = "rm" /\ DiskFits' /\ FilesFit'
  BY CmdFacts, Kept DEF KillSession, Stage, files, CmdFits
<1>2. Proceed(c, "read overrides") => LifecycleInvariant'
  BY <1>1, Proceeds, CommandMoves DEF Proceed
<1> QED BY <1>1, <1>2, CommandEnds DEF KillSession

\* A branch goes when it is checked out nowhere else.
LEMMA RemoveWorktreeFits ==
    ASSUME LifecycleInvariant, NEW c \in Command, RemoveWorktree(c)
    PROVE  LifecycleInvariant'
<1>1. /\ cmd[c].at = "remove" /\ CmdFits(cmd[c]) /\ DiskFits /\ FilesFit
      /\ cmd[c] = [k \in CmdFields |-> cmd[c][k]]
      /\ UNCHANGED <<registry, overrides, lifecycles>>
  BY CmdFacts DEF RemoveWorktree, Stage, files
<1> DEFINE m(r) == cmd[c].report.slices[cmd[c].slice][r]
<1>2. PICK r \in cmd[c].todo :
        \/ /\ checkout' = [checkout EXCEPT ![m(r).place] = None]
           /\ content' = [content EXCEPT ![m(r).place] = "gone"]
           /\ \/ /\ \A q \in Place \ {m(r).place} : q.repo = r => checkout[q] # m(r).ref
                 /\ refState' = [refState EXCEPT ![r][m(r).ref] = "absent"]
              \/ UNCHANGED refState
           /\ Become(c, [cmd[c] EXCEPT !.todo = @ \ {r}, !.done = @ \cup {m(r)}])
           /\ UNCHANGED userSteps
        \/ /\ Become(c, [cmd[c] EXCEPT !.todo = @ \ {r}]) /\ UNCHANGED disk
           /\ Failure \/ UNCHANGED userSteps
  BY DEF RemoveWorktree
<1>3. CASE /\ Become(c, [cmd[c] EXCEPT !.todo = @ \ {r}]) /\ UNCHANGED disk
           /\ Failure \/ UNCHANGED userSteps
  <2> DEFINE x == [cmd[c] EXCEPT !.todo = cmd[c].todo \ {r}, !.done = cmd[c].done]
  <2>1. Become(c, x)
    BY <1>1, <1>3 DEF CmdFields
  <2>2. CmdFits(x)
    BY <1>1, GoesOn
  <2> HIDE DEF x
  <2> QED BY <1>1, <1>3, <2>1, <2>2, Kept, CommandMoves
<1>4. CASE /\ checkout' = [checkout EXCEPT ![m(r).place] = None]
           /\ content' = [content EXCEPT ![m(r).place] = "gone"]
           /\ \/ /\ \A q \in Place \ {m(r).place} : q.repo = r => checkout[q] # m(r).ref
                 /\ refState' = [refState EXCEPT ![r][m(r).ref] = "absent"]
              \/ UNCHANGED refState
           /\ Become(c, [cmd[c] EXCEPT !.todo = @ \ {r}, !.done = @ \cup {m(r)}])
           /\ UNCHANGED userSteps
  <2> DEFINE p == m(r).place
             ref == m(r).ref
             done == cmd[c].done \cup {m(r)}
             x == [cmd[c] EXCEPT !.todo = cmd[c].todo \ {r}, !.done = done]
  <2>1. Become(c, x)
    BY <1>1, <1>4
  <2>2. CmdFits(x)
    BY <1>1, GoesOn
  <2> HIDE DEF x
  <2>3. DiskFits'
    <3>1. /\ checkout' = [checkout EXCEPT ![p] = None] /\ content' = [content EXCEPT ![p] = "gone"]
          /\ \/ /\ \A q \in Place \ {p} : q.repo = r => checkout[q] # ref
                /\ refState' = [refState EXCEPT ![r][ref] = "absent"]
             \/ UNCHANGED refState
      BY <1>4
    <3> HIDE DEF p, ref, m
    <3>2. /\ checkout' \in [Place -> Ref \cup {None, Detached}]
          /\ content' \in [Place -> {"full", "fresh", "empty", "gone"}]
      BY <1>1, <3>1 DEF DiskFits
    <3>3. refState' \in [Repo -> [Ref -> {"absent", "merged", "ahead"}]]
      BY <1>1, <3>1 DEF DiskFits
    <3>4. \A q \in Place : checkout'[q] = IF q = p THEN None ELSE checkout[q]
      BY <1>1, <3>1 DEF DiskFits
    <3>5. ASSUME NEW q \in Place, checkout'[q] \in Ref
          PROVE  /\ refState'[q.repo][checkout'[q]] # "absent"
                 /\ \A t \in Place : q.repo = t.repo /\ q # t => checkout'[q] # checkout'[t]
      <4>1. q # p /\ checkout'[q] = checkout[q] /\ q.repo \in Repo
        BY <3>4, <3>5, NoMember, GroupingAssumption
      <4>2. refState'[q.repo][checkout[q]] = refState[q.repo][checkout[q]]
        BY <1>1, <3>1, <3>5, <4>1 DEF DiskFits
      <4> QED BY <1>1, <3>4, <3>5, <4>1, <4>2, NoMember DEF DiskFits
    <3> QED BY <3>2, <3>3, <3>5 DEF DiskFits
  <2> QED BY <1>1, <1>4, <2>1, <2>2, <2>3, Kept, CommandMoves
<1> QED BY <1>2, <1>3, <1>4

-----------------------------------------------------------------------------
(* The overrides file.                                                     *)

LEMMA EditFits ==
    ASSUME LifecycleInvariant, NEW c \in Command, NEW ov, BranchesFit(ov), NEW gathered,
           Edit(c, ov, gathered), cmd[c].op \notin {"create", "import"},
           UNCHANGED <<disk, registry, overrides, lifecycles, userSteps>>
    PROVE  LifecycleInvariant'
<1> DEFINE slices == IF Is(c, {"rm"}) THEN cmd[c].report.slices ELSE NoEntries
           report == [NoReport EXCEPT !.slices = slices]
           x == [NoCommand EXCEPT !.op = cmd[c].op, !.slice = cmd[c].slice, !.done = cmd[c].done,
                    !.report = report, !.at = "write overrides", !.write = ov, !.folds = gathered]
<1>1. Become(c, x)
  BY DEF Edit, NoCommand, NoReport
<1>2. MembersFit(slices)
  BY CmdFacts, NoEntriesFit DEF CmdFits
<1> HIDE DEF slices
<1>3. /\ x = [k \in CmdFields |-> x[k]] /\ x.at = "write overrides" /\ x.op = cmd[c].op
      /\ x.recs = {} /\ x.detached = {} /\ x.read.slices = NoEntries /\ x.write = ov
      /\ x.report.slices = slices /\ x.report.candidates = {}
  BY DEF NoCommand, CmdFields, NoFile, NoReport
<1> HIDE DEF x
<1>4. CmdFits(x)
  BY <1>2, <1>3, NoEntriesFit DEF CmdFits, OnePerPlace
<1> QED BY <1>1, <1>4, Kept, CommandMoves

\* The overrides of one slice are replaced.
LEMMA OverridesReplaced ==
    ASSUME BranchesFit(overrides), NEW s, NEW f, s \in Slice => f \in [Repo -> Ref \cup {None}]
    PROVE  BranchesFit([overrides EXCEPT ![s] = f])
BY DEF BranchesFit

LEMMA GroupFits ==
    ASSUME LifecycleInvariant, NEW c \in Command, groupCmd(c) \/ gatherCmd(c)
    PROVE  LifecycleInvariant'
<1>1. /\ cmd[c].at = "reported" /\ cmd[c].op \in {"group", "gather"} /\ CmdFits(cmd[c])
      /\ UNCHANGED <<disk, registry, overrides, lifecycles, userSteps>>
      /\ DiskFits' /\ FilesFit' /\ BranchesFit(overrides)
  <2>1. /\ cmd[c].at = "reported" /\ cmd[c].op \in {"group", "gather"}
        /\ UNCHANGED disk /\ UNCHANGED <<registry, overrides, lifecycles, userSteps>>
    BY DEF groupCmd, gatherCmd, Stage, Is, files
  <2> QED BY <2>1, Kept, CmdFacts DEF FilesFit
<1> DEFINE s == cmd[c].slice
           of == GroupMembers(c)
<1>2. \A r \in Repo : of[r] # None => of[r] \in Member /\ of[r].ref \in Ref
  <2>1. cmd[c].other \in Slice
    BY <1>1 DEF CmdFits
  <2>2. MembersFit(Apply(cmd[c].report.slices, overrides))
    BY <1>1, ApplyFits DEF CmdFits
  <2>3. \A r \in Repo : of[r] = Apply(cmd[c].report.slices, overrides)[cmd[c].other][r]
    BY DEF GroupMembers
  <2>4. \A r \in Repo : of[r] # None => of[r] \in Member
    BY <2>1, <2>2, <2>3 DEF MembersFit
  <2> QED BY <2>4, RefOfMember
<1> HIDE DEF of
<1>3. Finish(c) => LifecycleInvariant'
  BY <1>1, CommandEnds
<1>4. s \in Slice => overrides[s] \in [Repo -> Ref \cup {None}]
  BY <1>1 DEF BranchesFit
<1>5. CASE groupCmd(c) /\ ~Finish(c)
  <2> DEFINE f == [r \in Repo |-> IF of[r] # None THEN of[r].ref ELSE overrides[s][r]]
             ov == [overrides EXCEPT ![s] = f]
  <2>1. Edit(c, ov, folds)
    BY <1>5 DEF groupCmd, of
  <2>2. s \in Slice => f \in [Repo -> Ref \cup {None}]
    BY <1>2, <1>4
  <2> HIDE DEF f
  <2>3. BranchesFit(ov)
    BY <1>1, <2>2, OverridesReplaced
  <2> HIDE DEF ov
  <2> QED BY <1>1, <2>1, <2>3, EditFits
<1>6. CASE gatherCmd(c) /\ ~Finish(c)
  <2> DEFINE On(r) == {g \in Gathered : g.repo = r /\ of[r] # None /\ of[r].ref \in g.folded \cup {g.tip}}
             stack == [r \in {q \in Repo : On(q) # {}} |-> CHOOSE g \in On(r) : TRUE]
             f == [r \in Repo |-> IF r \in DOMAIN stack THEN stack[r].tip ELSE overrides[s][r]]
             ov == [overrides EXCEPT ![s] = f]
  <2>1. \E gathered : Edit(c, ov, gathered)
    BY <1>6 DEF gatherCmd, of
  <2>2. \A r \in DOMAIN stack : stack[r].tip \in Ref
    <3> SUFFICES ASSUME NEW r \in DOMAIN stack PROVE stack[r].tip \in Ref
      OBVIOUS
    <3>1. stack[r] \in On(r)
      OBVIOUS
    <3> QED BY <3>1, LifecycleAssumption
  <2> HIDE DEF stack
  <2>3. s \in Slice => f \in [Repo -> Ref \cup {None}]
    BY <1>4, <2>2
  <2> HIDE DEF f
  <2>4. BranchesFit(ov)
    BY <1>1, <2>3, OverridesReplaced
  <2> HIDE DEF ov
  <2> QED BY <1>1, <2>1, <2>4, EditFits
<1> QED BY <1>3, <1>5, <1>6

LEMMA UngroupFits ==
    ASSUME LifecycleInvariant, NEW c \in Command,
           ungroupCmd(c) \/ scatterCmd(c) \/ clearSliceState(c)
    PROVE  LifecycleInvariant'
<1>1. /\ cmd[c].at = "read overrides" /\ cmd[c].op \in {"ungroup", "scatter", "rm"} /\ CmdFits(cmd[c])
      /\ UNCHANGED <<disk, registry, overrides, lifecycles, userSteps>>
      /\ DiskFits' /\ FilesFit' /\ BranchesFit(overrides)
  <2>1. /\ cmd[c].at = "read overrides" /\ cmd[c].op \in {"ungroup", "scatter", "rm"}
        /\ UNCHANGED disk /\ UNCHANGED <<registry, overrides, lifecycles, userSteps>>
    BY DEF ungroupCmd, scatterCmd, clearSliceState, Stage, Is, files
  <2> QED BY <2>1, Kept, CmdFacts DEF FilesFit
<1> DEFINE s == cmd[c].slice
           ov == [overrides EXCEPT ![s] = NoEntries[s]]
<1>2. BranchesFit(ov)
  <2>1. s \in Slice => NoEntries[s] \in [Repo -> Ref \cup {None}]
    BY DEF NoEntries
  <2> QED BY <1>1, <2>1, OverridesReplaced
<1>3. Finish(c) => LifecycleInvariant'
  BY <1>1, CommandEnds
<1>4. ASSUME NEW gathered, Edit(c, ov, gathered) PROVE LifecycleInvariant'
  BY <1>1, <1>2, <1>4, EditFits
<1>5. CASE ungroupCmd(c)
  BY <1>3, <1>4, <1>5 DEF ungroupCmd
<1>6. CASE scatterCmd(c)
  BY <1>3, <1>4, <1>6 DEF scatterCmd
<1>7. CASE clearSliceState(c)
  <2>1. cmd[c].op = "rm"
    BY <1>7 DEF clearSliceState, Is
  <2>2. Proceed(c, "read registry") => LifecycleInvariant'
    BY <1>1, <2>1, Proceeds, CommandMoves DEF Proceed
  <2> QED BY <1>3, <1>4, <1>7, <2>2 DEF clearSliceState, Afterwards
<1> QED BY <1>5, <1>6, <1>7

LEMMA SaveOverridesFits ==
    ASSUME LifecycleInvariant, NEW c \in Command, SaveOverrides(c)
    PROVE  LifecycleInvariant'
<1>1. /\ cmd[c].at = "write overrides" /\ CmdFits(cmd[c]) /\ FilesFit /\ BranchesFit(cmd[c].write)
      /\ overrides' = cmd[c].write /\ UNCHANGED disk /\ UNCHANGED <<registry, lifecycles, userSteps>>
  BY CmdFacts DEF SaveOverrides, Stage, CmdFits
<1>2. DiskFits' /\ FilesFit'
  BY <1>1, Kept DEF FilesFit
<1>3. Finish(c) => LifecycleInvariant'
  BY <1>2, CommandEnds
<1>4. ASSUME Proceed(c, "read registry"), cmd[c].op = "rm" PROVE LifecycleInvariant'
  BY <1>1, <1>2, <1>4, Proceeds, CommandMoves DEF Proceed
<1> QED BY <1>3, <1>4 DEF SaveOverrides, Afterwards, Is

-----------------------------------------------------------------------------
(* Users.                                                                  *)

\* Nothing changes for the commands.
LEMMA CommandsStay ==
    ASSUME LifecycleInvariant, UNCHANGED cmd, DiskFits', FilesFit'
    PROVE  LifecycleInvariant'
BY DEF LifecycleInvariant

LEMMA UserFits ==
    ASSUME LifecycleInvariant, UserStep
    PROVE  LifecycleInvariant'
<1>1. UNCHANGED <<cmd, registry, overrides, lifecycles>> /\ FilesFit' /\ DiskFits
  BY Kept DEF UserStep, files, LifecycleInvariant
<1>2. ASSUME NEW p \in Place, NEW b \in Ref \cup {Detached}, UserChecksOut(p, b)
      PROVE  DiskFits'
  <2>1. /\ checkout[p] # b /\ checkout' = [checkout EXCEPT ![p] = b] /\ UNCHANGED content
        /\ \A q \in Place : q.repo = p.repo => checkout[q] # b
        /\ refState' = IF b = Detached \/ refState[p.repo][b] # "absent" THEN refState
                       ELSE [refState EXCEPT ![p.repo][b] = "merged"]
    BY <1>2 DEF UserChecksOut
  <2>2. checkout' \in [Place -> Ref \cup {None, Detached}] /\ p.repo \in Repo
    BY <1>1, <2>1, GroupingAssumption DEF DiskFits
  <2>3. refState' \in [Repo -> [Ref -> {"absent", "merged", "ahead"}]]
    BY <1>1, <2>1, <2>2 DEF DiskFits
  <2>4. \A q \in Place : checkout'[q] = IF q = p THEN b ELSE checkout[q]
    BY <1>1, <2>1 DEF DiskFits
  <2>5. /\ \A q \in Repo, d \in Ref : refState[q][d] # "absent" => refState'[q][d] # "absent"
        /\ b \in Ref => refState'[p.repo][b] # "absent"
    BY <1>1, <2>1, <2>2, LifecycleAssumption DEF DiskFits
  <2>6. ASSUME NEW q \in Place, checkout'[q] \in Ref
        PROVE  /\ refState'[q.repo][checkout'[q]] # "absent"
               /\ \A t \in Place : q.repo = t.repo /\ q # t => checkout'[q] # checkout'[t]
    BY <1>1, <2>1, <2>4, <2>5, <2>6, GroupingAssumption DEF DiskFits
  <2> QED BY <1>1, <2>1, <2>2, <2>3, <2>6 DEF DiskFits
<1>3. ASSUME NEW p \in Place, NEW b \in Ref, UserRenames(p, b) PROVE DiskFits'
  <2> DEFINE old == checkout[p]
  <2>1. /\ old \in Ref /\ refState[p.repo][b] = "absent" /\ UNCHANGED content
        /\ checkout' = [checkout EXCEPT ![p] = b]
        /\ refState' = [refState EXCEPT ![p.repo][b] = refState[p.repo][old],
                                        ![p.repo][old] = "absent"]
    BY <1>3 DEF UserRenames
  <2>2. checkout' \in [Place -> Ref \cup {None, Detached}] /\ p.repo \in Repo
    BY <1>1, <2>1, GroupingAssumption DEF DiskFits
  <2>3. refState' \in [Repo -> [Ref -> {"absent", "merged", "ahead"}]]
    BY <1>1, <2>1, <2>2 DEF DiskFits
  <2>4. \A q \in Place : checkout'[q] = IF q = p THEN b ELSE checkout[q]
    BY <1>1, <2>1 DEF DiskFits
  <2>5. refState[p.repo][old] # "absent" /\ b # old
        /\ \A q \in Place : q.repo = p.repo /\ q # p => checkout[q] # old
    BY <1>1, <2>1 DEF DiskFits
  <2>6. \A q \in Place : q.repo = p.repo => checkout[q] # b
    BY <1>1, <1>3, <2>1 DEF DiskFits
  <2>7. \A q \in Repo, d \in Ref :
           refState'[q][d] = IF q = p.repo /\ d = old THEN "absent"
                             ELSE IF q = p.repo /\ d = b THEN refState[p.repo][old]
                             ELSE refState[q][d]
    BY <1>1, <2>1, <2>2, <2>5 DEF DiskFits
  <2> HIDE DEF old
  <2>8. ASSUME NEW q \in Place, checkout'[q] \in Ref
        PROVE  /\ refState'[q.repo][checkout'[q]] # "absent"
               /\ \A t \in Place : q.repo = t.repo /\ q # t => checkout'[q] # checkout'[t]
    BY <1>1, <2>4, <2>5, <2>6, <2>7, <2>8, GroupingAssumption DEF DiskFits
  <2> QED BY <1>1, <2>1, <2>2, <2>3, <2>8 DEF DiskFits
<1>4. ASSUME NEW p \in Place, NEW b \in Ref, UserAdds(p, b) PROVE DiskFits'
  <2>1. /\ checkout' = [checkout EXCEPT ![p] = b] /\ content' = [content EXCEPT ![p] = "full"]
        /\ \A q \in Place : q.repo = p.repo => checkout[q] # b
        /\ refState' = [refState EXCEPT ![p.repo][b] = "ahead"]
    BY <1>4 DEF UserAdds
  <2>2. /\ checkout' \in [Place -> Ref \cup {None, Detached}] /\ p.repo \in Repo
        /\ content' \in [Place -> {"full", "fresh", "empty", "gone"}]
    BY <1>1, <2>1, GroupingAssumption DEF DiskFits
  <2>3. refState' \in [Repo -> [Ref -> {"absent", "merged", "ahead"}]]
    BY <1>1, <2>1, <2>2 DEF DiskFits
  <2>4. \A q \in Place : checkout'[q] = IF q = p THEN b ELSE checkout[q]
    BY <1>1, <2>1 DEF DiskFits
  <2>5. /\ \A q \in Repo, d \in Ref : refState[q][d] # "absent" => refState'[q][d] # "absent"
        /\ refState'[p.repo][b] # "absent"
    BY <1>1, <2>1, <2>2 DEF DiskFits
  <2>6. ASSUME NEW q \in Place, checkout'[q] \in Ref
        PROVE  /\ refState'[q.repo][checkout'[q]] # "absent"
               /\ \A t \in Place : q.repo = t.repo /\ q # t => checkout'[q] # checkout'[t]
    BY <1>1, <2>1, <2>4, <2>5, <2>6, GroupingAssumption DEF DiskFits
  <2> QED BY <2>2, <2>3, <2>6 DEF DiskFits
<1>5. ASSUME NEW p \in Place, UserLoses(p) PROVE DiskFits'
  <2>1. PICK what \in {"gone", "fresh"} : content' = [content EXCEPT ![p] = what]
    BY <1>5 DEF UserLoses
  <2>2. UNCHANGED <<checkout, refState>> /\ content' \in [Place -> {"full", "fresh", "empty", "gone"}]
    BY <1>1, <1>5, <2>1 DEF UserLoses, DiskFits
  <2> QED BY <1>1, <2>2 DEF DiskFits
<1>6. DiskFits'
  BY <1>2, <1>3, <1>4, <1>5 DEF UserStep
<1> QED BY <1>1, <1>6, CommandsStay

-----------------------------------------------------------------------------
(* The theorems.                                                           *)

LEMMA LifecycleBegins == LifecycleInit => LifecycleInvariant
<1> SUFFICES ASSUME LifecycleInit PROVE LifecycleInvariant
  OBVIOUS
<1>1. checkout \in [Place -> Ref \cup {None, Detached}]
      /\ \A p, q \in Place :
            p.repo = q.repo /\ p # q /\ checkout[p] \in Ref => checkout[p] # checkout[q]
  BY LifecycleAssumption DEF LifecycleInit
<1>2. content \in [Place -> {"full", "fresh", "empty", "gone"}]
      /\ refState \in [Repo -> [Ref -> {"absent", "merged", "ahead"}]]
  BY DEF LifecycleInit
<1>3. ASSUME NEW p \in Place, checkout[p] \in Ref PROVE refState[p.repo][checkout[p]] = "ahead"
  BY <1>3, GroupingAssumption DEF LifecycleInit
<1>4. DiskFits
  BY <1>1, <1>2, <1>3 DEF DiskFits
<1>5. registry.file \in {"none", "broken", "ok"} /\ MembersFit(registry.slices)
  BY NoEntriesFit DEF LifecycleInit, NoFile, Broken
<1>6. 0 \in 0 .. MaxLifecycle /\ 0 \in 0 .. MaxUserSteps
  BY LifecycleAssumption
<1>7. FilesFit
  BY <1>5, <1>6, NoEntriesFit DEF FilesFit, LifecycleInit
<1>8. cmd = [c \in Command |-> cmd[c]] /\ \A c \in Command : CmdFits(cmd[c])
  BY NoCommandFits DEF LifecycleInit
<1> QED BY <1>4, <1>7, <1>8 DEF LifecycleInvariant

LEMMA LifecycleStep == LifecycleInvariant /\ [LifecycleNext]_lifecycleVars => LifecycleInvariant'
<1> SUFFICES ASSUME LifecycleInvariant, [LifecycleNext]_lifecycleVars PROVE LifecycleInvariant'
  OBVIOUS
<1>1. ASSUME NEW c \in Command,
             \/ LaunchCommand(c) \/ pruneStaleManagedWorktreeMetadata(c) \/ collect(c)
             \/ LoadForReport(c) \/ Reconcile(c) \/ SaveReconciled(c) \/ Report(c)
             \/ ListSlices(c) \/ FindSlice(c) \/ importCmd(c)
             \/ LoadRegistry(c) \/ SaveRegistry(c)
      PROVE  LifecycleInvariant'
  BY <1>1, LaunchFits, PruneFits, CollectFits, LoadForReportFits, ReconcileFits,
     SaveReconciledFits, ReportFits,
     FindsFit, LoadRegistryFits, SaveRegistryFits
<1>2. ASSUME NEW c \in Command,
             \/ createFreshWorktree(c) \/ CreatedAll(c)
             \/ RemoveUnlessLive(c) \/ RemoveWorktree(c) \/ KillSession(c)
             \/ groupCmd(c) \/ gatherCmd(c) \/ ungroupCmd(c) \/ scatterCmd(c) \/ clearSliceState(c)
             \/ SaveOverrides(c)
      PROVE  LifecycleInvariant'
  BY <1>2, CreateFits, CreatedAllFits, RemoveUnlessLiveFits, RemoveWorktreeFits,
     KillSessionFits, GroupFits, UngroupFits, SaveOverridesFits
<1>3. ASSUME NEW p \in Place, ignoreCmd(p) PROVE LifecycleInvariant'
  BY <1>3, Kept, CommandsStay DEF ignoreCmd, files
<1>4. ASSUME NEW s \in Slice, Activated(s) PROVE LifecycleInvariant'
  BY <1>4, Kept, CommandsStay DEF Activated, files
<1>5. CASE UNCHANGED lifecycleVars
  BY <1>5, Kept, CommandsStay DEF lifecycleVars, files
<1>6. ASSUME NEW p \in Place, GracePasses(p) PROVE LifecycleInvariant'
  <2>1. DiskFits' /\ FilesFit'
    BY <1>6, Kept DEF GracePasses, files, LifecycleInvariant, DiskFits
  <2> QED BY <1>6, <2>1, CommandsStay DEF GracePasses
<1> QED BY <1>1, <1>2, <1>3, <1>4, <1>5, <1>6, UserFits DEF LifecycleNext

\* The invariant of the commands that make, list, group and remove slices (Report,
\* create, rm, group, gather): what each has read and is about to write.
THEOREM LifecycleInvariantHolds == LifecycleSpec => []LifecycleInvariant
BY LifecycleBegins, LifecycleStep, PTL DEF LifecycleSpec

\* Whatever the commands, the users and failing listings do: no healthy worktree
\* vanishes from a report (discovery.Report, groupByName, Apply), and a registered one
\* is in the slice it was registered to.
THEOREM ReportsFaithful == LifecycleSpec => []ReportsAreFaithful
<1>1. LifecycleInvariant => ReportsAreFaithful
  <2> SUFFICES ASSUME LifecycleInvariant, NEW c \in Command, Stage(c, "reported")
               PROVE  /\ \A x \in cmd[c].recs : ~Vanishes(x, cmd[c].recs, cmd[c].read.slices, cmd[c].report)
                      /\ cmd[c].exists => \A s \in Slice, r \in Repo :
                            Keeps(cmd[c].recs, cmd[c].read.slices, cmd[c].report, s, r)
    BY DEF ReportsAreFaithful, NothingVanishes, RegisteredKeepsItsSlice, Vanishes, Keeps
  <2>1. Faithful(cmd[c])
    BY CmdFacts DEF CmdFits, Stage
  <2> QED BY <2>1 DEF Faithful
<1> QED BY <1>1, LifecycleInvariantHolds, PTL

\* Every variable keeps its type, and git has no branch checked out twice (create,
\* rm and what users do with git).
THEOREM LifecycleTypeCorrect == LifecycleSpec => []LifecycleTypeOK
<1>1. LifecycleInvariant => LifecycleTypeOK
  <2> SUFFICES ASSUME LifecycleInvariant PROVE LifecycleTypeOK
    OBVIOUS
  <2>1. Entries(registry.slices) \subseteq [place : Place, ref : Ref]
    BY EntriesAreMembers DEF LifecycleInvariant, FilesFit, Member
  <2>2. Entries(overrides) \subseteq Ref
    BY DEF LifecycleInvariant, FilesFit, BranchesFit, Entries
  <2> QED BY <2>1, <2>2 DEF LifecycleInvariant, DiskFits, FilesFit, LifecycleTypeOK
<1> QED BY <1>1, LifecycleInvariantHolds, PTL

\* What a step may do to a registration.
RegistrationKept ==
    \A s \in Slice, r \in Repo :
          LET m == registry.slices[s][r]
          IN  registry.file = "ok" /\ m # None /\ registry'.slices[s][r] = None =>
                 \E c \in Command : cmd'[c] # cmd[c] /\
                    \/ Is(c, {"forget", "rm"}) /\ cmd[c].slice = s
                    \/ underManagedTree(m.place) /\ m.place \in cmd[c].lost
                    \/ registry' = NoFile /\ userSteps' = userSteps + 1
                    \/ cmd[c].read # registry

\* A command that moves has another record.
LEMMA RecordChanges ==
    ASSUME LifecycleInvariant, NEW c \in Command, NEW x, Become(c, x), x.at # cmd[c].at
    PROVE  cmd'[c] # cmd[c]
BY DEF LifecycleInvariant, Become

LEMMA RegistryWritersKeep ==
    ASSUME LifecycleInvariant, NEW c \in Command,
           \/ LoadForReport(c) \/ Reconcile(c) \/ SaveReconciled(c) \/ Report(c)
           \/ SaveRegistry(c)
    PROVE  RegistrationKept
<1> SUFFICES ASSUME NEW s \in Slice, NEW r \in Repo, registry.file = "ok",
                    registry.slices[s][r] # None, registry'.slices[s][r] = None,
                    cmd[c].read = registry \/ LoadForReport(c)
             PROVE  \/ Is(c, {"forget", "rm"}) /\ cmd[c].slice = s
                    \/ /\ underManagedTree(registry.slices[s][r].place)
                       /\ registry.slices[s][r].place \in cmd[c].lost
                    \/ registry' = NoFile /\ userSteps' = userSteps + 1
  <2>1. cmd'[c] # cmd[c]
    <3>1. CmdFits(cmd[c]) /\ cmd[c] = [k \in CmdFields |-> cmd[c][k]]
      BY CmdFacts
    <3>2. CASE LoadForReport(c)
      BY <3>1, <3>2, RecordChanges DEF LoadForReport, Stage, CmdFields
    <3>3. CASE Reconcile(c)
      BY <3>1, <3>3, RecordChanges DEF Reconcile, Proceed, Stage, CmdFields
    <3>4. CASE SaveReconciled(c)
      BY <3>1, <3>4, RecordChanges DEF SaveReconciled, Stage, CmdFields
    <3>5. CASE Report(c)
      BY <3>1, <3>5, RecordChanges DEF Report, Stage, CmdFields
    <3>6. CASE SaveRegistry(c)
      BY <3>6, RecordChanges DEF SaveRegistry, Finish, Stage, NoCommand
    <3> QED BY <3>2, <3>3, <3>4, <3>5, <3>6
  <2> QED BY <2>1 DEF RegistrationKept
<1>1. CmdFits(cmd[c])
  BY CmdFacts
<1>2. CASE LoadForReport(c)
  <2>1. PICK read : RegistryLoaded(read)
    BY <1>2 DEF LoadForReport
  <2>2. registry' # registry
    OBVIOUS
  <2>3. registry' = NoFile /\ Failure
    BY <2>1, <2>2 DEF RegistryLoaded
  <2> QED BY <2>3 DEF Failure
<1>3. ~Reconcile(c)
  BY DEF Reconcile, files
<1>4. CASE SaveReconciled(c)
  <2>1. registry' = File(cmd[c].write) /\ cmd[c].at = "save reconciled"
    BY <1>4 DEF SaveReconciled, Save, Stage
  <2>2. cmd[c].write[s][r] = None /\ cmd[c].read = registry
    BY <1>4, <2>1 DEF File, LoadForReport, Stage
  <2> QED BY <1>1, <2>1, <2>2 DEF CmdFits
<1>5. CASE Report(c)
  <2> DEFINE was == cmd[c].read.slices
             result == Result(cmd[c].recs, cmd[c].unusable, was, cmd[c].exists, ignoreGlobs)
             reg == registerManagedSlices(IF cmd[c].exists THEN was ELSE result.slices, result.slices)
  <2>1. Save(c, reg) /\ cmd[c].at = "publish" /\ cmd[c].read = registry
    BY <1>5 DEF Report, Stage, LoadForReport
  <2>2. reg[s][r] = None
    <3> HIDE DEF reg
    <3>1. registry' = File(reg)
      BY <2>1 DEF Save
    <3> QED BY <3>1 DEF File
  <2>3. cmd[c].exists
    BY <1>1, <2>1, <2>2 DEF CmdFits
  <2>4. MembersFit(was) /\ MembersFit(result.slices)
    BY <1>1, ResultFits DEF CmdFits
  <2> HIDE DEF result
  <2>5. reg = registerManagedSlices(was, result.slices)
    BY <2>3
  <2>6. was[s][r] # None
    BY <2>1
  <2> HIDE DEF was, reg
  <2> QED BY <2>2, <2>4, <2>5, <2>6, RegisteredFits
<1>6. CASE SaveRegistry(c)
  <2>1. Save(c, cmd[c].write) /\ cmd[c].at = "write registry" /\ cmd[c].read = registry
    BY <1>6 DEF SaveRegistry, Stage, LoadForReport
  <2>2. registry' = File(cmd[c].write)
    BY <2>1 DEF Save
  <2>3. cmd[c].write[s][r] = None
    BY <2>2 DEF File
  <2>4. cmd[c].op \in {"forget", "rm"} /\ cmd[c].slice = s
    BY <1>1, <2>1, <2>3 DEF CmdFits
  <2> QED BY <2>4 DEF Is
<1> QED BY <1>2, <1>3, <1>4, <1>5, <1>6

\* A registration goes only by a command that is forget or rm of its slice, has found
\* its managed directory missing or empty (reconcileRegistry), cannot read the file
\* (quarantineBrokenRegistry), or writes back what is no longer there (SaveRegistry).
THEOREM RegistrationsKept == LifecycleSpec => RegistrationIsKept
<1>1. LifecycleInvariant /\ [LifecycleNext]_lifecycleVars => [RegistrationKept]_lifecycleVars
  <2> SUFFICES ASSUME LifecycleInvariant, LifecycleNext PROVE RegistrationKept
    OBVIOUS
  <2>1. UNCHANGED registry => RegistrationKept
    BY DEF RegistrationKept
  <2>2. ASSUME NEW c \in Command,
               \/ LaunchCommand(c) \/ pruneStaleManagedWorktreeMetadata(c) \/ collect(c)
               \/ ListSlices(c) \/ FindSlice(c) \/ importCmd(c) \/ LoadRegistry(c)
        PROVE  UNCHANGED registry
    BY <2>2 DEF LaunchCommand, Launch, pruneStaleManagedWorktreeMetadata, collect, ListSlices,
                FindSlice, importCmd, LoadRegistry, files
  <2>3. ASSUME NEW c \in Command,
               \/ createFreshWorktree(c) \/ CreatedAll(c)
               \/ RemoveUnlessLive(c) \/ RemoveWorktree(c) \/ KillSession(c)
        PROVE  UNCHANGED registry
    BY <2>3 DEF createFreshWorktree, CreatedAll, RemoveUnlessLive, RemoveWorktree,
       KillSession, files
  <2>4. ASSUME NEW c \in Command,
               \/ groupCmd(c) \/ gatherCmd(c) \/ ungroupCmd(c) \/ scatterCmd(c) \/ clearSliceState(c)
               \/ SaveOverrides(c)
        PROVE  UNCHANGED registry
    BY <2>4 DEF groupCmd, gatherCmd, ungroupCmd, scatterCmd, clearSliceState, SaveOverrides,
       files
  <2>5. ASSUME \/ \E p \in Place : ignoreCmd(p) \/ GracePasses(p)
               \/ UserStep
               \/ \E s \in Slice : Activated(s)
        PROVE  UNCHANGED registry
    BY <2>5 DEF ignoreCmd, GracePasses, UserStep, Activated, files
  <2> QED BY <2>1, <2>2, <2>3, <2>4, <2>5, RegistryWritersKeep DEF LifecycleNext
<1>2. RegistrationIsKept <=> [][RegistrationKept]_lifecycleVars
  BY DEF RegistrationIsKept, RegistrationKept
<1> QED BY <1>1, <1>2, LifecycleInvariantHolds, PTL DEF LifecycleSpec

=============================================================================
