----------------------------- MODULE JobsProofs -----------------------------
(***************************************************************************)
(* Proofs about the scheduled alert jobs, for any number of disks, licences, *)
(* servers, overlapping runs and faults: how often a channel is told of the  *)
(* same thing, when a page is marked resolved, and the types of the four     *)
(* jobs side by side.                                                        *)
(***************************************************************************)
EXTENDS MCJobs, SyncTrackingProofs

----------------------------------------------------------------------------
(* Counting runs                                                           *)

\* A part of a finite set of runs counts no more than the whole, and strictly less
\* when a run is missing from it.
LEMMA FewerRuns ==
  ASSUME NEW R, IsFiniteSet(R), NEW S \in SUBSET R
  PROVE  /\ IsFiniteSet(S) /\ Cardinality(S) \in Nat /\ Cardinality(R) \in Nat
         /\ Cardinality(S) <= Cardinality(R)
         /\ \A r \in R \ S : Cardinality(S) + 1 <= Cardinality(R)
<1>1. /\ IsFiniteSet(S) /\ Cardinality(S) \in Nat /\ Cardinality(R) \in Nat
      /\ Cardinality(S) <= Cardinality(R)
  BY FS_Subset, FS_CardinalityType
<1>2. ASSUME NEW r \in R \ S PROVE Cardinality(S) # Cardinality(R)
  BY <1>2, FS_Subset
<1> QED
  BY <1>1, <1>2

LEMMA OneRunMore ==
  ASSUME NEW R, IsFiniteSet(R), NEW S \in SUBSET R, NEW r \in R
  PROVE  /\ r \notin S => Cardinality(S \cup {r}) = Cardinality(S) + 1
         /\ r \in S => Cardinality(S \ {r}) = Cardinality(S) - 1
         /\ Cardinality(S) <= Cardinality(S \ {r}) + 1
         /\ Cardinality(S \cup {r}) <= Cardinality(S) + 1
<1>1. IsFiniteSet(S) /\ Cardinality(S) \in Nat
  BY FewerRuns
<1>2. Cardinality(S \cup {r}) = IF r \in S THEN Cardinality(S) ELSE Cardinality(S) + 1
  BY <1>1, FS_AddElement
<1>3. Cardinality(S \ {r}) = IF r \in S THEN Cardinality(S) - 1 ELSE Cardinality(S)
  BY <1>1, FS_RemoveElement
<1> QED
  BY <1>1, <1>2, <1>3

\* Runs that stand in two different places.
LEMMA DisjointRuns ==
  ASSUME NEW R, IsFiniteSet(R), NEW S \in SUBSET R, NEW T \in SUBSET R, S \cap T = {}
  PROVE  Cardinality(S) + Cardinality(T) <= Cardinality(R)
<1>1. /\ IsFiniteSet(S) /\ IsFiniteSet(T) /\ S \cup T \in SUBSET R
      /\ Cardinality(S) \in Nat /\ Cardinality(T) \in Nat
  BY FewerRuns
<1>2. Cardinality(S \cup T) = Cardinality(S) + Cardinality(T)
  BY <1>1, FS_Union, FS_EmptySet
<1> QED
  BY <1>1, <1>2, FewerRuns

----------------------------------------------------------------------------
(* Disk paging                                                             *)

LEMMA DiskRunsCounted ==
  ASSUME NEW d
  PROVE  /\ Cardinality(DiskRuns) \in Nat
         /\ Cardinality(AboutToPage(d)) \in Nat /\ Cardinality(HavePaged(d)) \in Nat
         /\ AboutToPage(d) \in SUBSET DiskRuns /\ HavePaged(d) \in SUBSET DiskRuns
         /\ Cardinality(AboutToPage(d)) <= Cardinality(DiskRuns)
         /\ Cardinality(AboutToPage(d)) + Cardinality(HavePaged(d)) <= Cardinality(DiskRuns)
<1>1. /\ AboutToPage(d) \in SUBSET DiskRuns /\ HavePaged(d) \in SUBSET DiskRuns
      /\ AboutToPage(d) \cap HavePaged(d) = {}
  BY DEF AboutToPage, HavePaged
<1> QED
  BY <1>1, DiskAssumption, FewerRuns, DisjointRuns

LEMMA InitDiskIInv == DiskInit => DiskIInv
<1> SUFFICES ASSUME DiskInit PROVE DiskIInv
  OBVIOUS
<1>1. DiskTypeOK
  BY DiskAssumption DEF DiskInit, DiskTypeOK
<1>2. RowsSound
  BY DEF DiskInit, RowsSound
<1>3. PagesSound
  <2> SUFFICES ASSUME NEW d \in Disks PROVE 0 <= Cardinality(HavePaged(d)) + 0
    BY DEF DiskInit, PagesSound, CoolingDown
  <2> QED
    BY DiskRunsCounted
<1> QED
  BY <1>1, <1>2, <1>3 DEF DiskIInv

\* The view shows a disk anew: rows change only in what they have seen of it.
LEMMA ShowsStep ==
  ASSUME DiskIInv, NEW d \in Disks, NEW s \in Snapshots \cup {Absent}, Shows(d, s)
  PROVE  DiskIInv'
<1> USE DEF DiskIInv, Shows, diskJob
<1> DEFINE shown(a) == IF a.disk = d /\ s.level = "below" THEN [a EXCEPT !.calm = TRUE] ELSE a
<1>1. open' = {shown(a) : a \in open}
  OBVIOUS
<1>2. \A a \in OpenRows : /\ shown(a) \in OpenRows
                          /\ shown(a).disk = a.disk /\ shown(a).fresh = a.fresh
                          /\ shown(a).readBy = a.readBy
                          /\ (a.calm => shown(a).calm)
                          /\ (a.disk = d /\ s.level = "below" => shown(a).calm)
  BY DEF OpenRows
<1> HIDE DEF shown
<1>3. open \subseteq OpenRows
  BY DEF DiskTypeOK
<1>4. DiskTypeOK'
  BY <1>1, <1>2, <1>3 DEF DiskTypeOK
<1>5. RowsSound'
  <2> SUFFICES ASSUME NEW a \in open,
                      current'[shown(a).disk].level = "below" \/ shown(a).readBy # {}
               PROVE  shown(a).calm
    BY <1>1 DEF RowsSound
  <2> QED
    BY <1>2, <1>3 DEF RowsSound, DiskTypeOK
<1>6. PagesSound'
  <2>1. \A e \in Disks : CoolingDown(e)' = CoolingDown(e)
    BY <1>1, <1>2, <1>3 DEF CoolingDown
  <2> QED
    BY <2>1 DEF PagesSound, AboutToPage, HavePaged
<1> QED
  BY <1>4, <1>5, <1>6

\* The cooldown of a disk has passed, and its window starts anew.
LEMMA CooldownStep ==
  ASSUME DiskIInv, NEW d \in Disks, CooldownPasses(d)
  PROVE  DiskIInv'
<1> USE DEF DiskIInv, CooldownPasses, diskJob
<1> DEFINE cooled(a) == IF a.disk = d THEN [a EXCEPT !.fresh = FALSE] ELSE a
<1>1. open' = {cooled(a) : a \in open}
  OBVIOUS
<1>2. \A a \in OpenRows : /\ cooled(a) \in OpenRows
                          /\ cooled(a).disk = a.disk /\ cooled(a).calm = a.calm
                          /\ cooled(a).readBy = a.readBy
                          /\ (cooled(a).fresh <=> a.fresh /\ a.disk # d)
  BY DEF OpenRows
<1> HIDE DEF cooled
<1>3. open \subseteq OpenRows
  BY DEF DiskTypeOK
<1>4. DiskTypeOK'
  BY <1>1, <1>2, <1>3, DiskAssumption DEF DiskTypeOK
<1>5. RowsSound'
  BY <1>1, <1>2, <1>3 DEF RowsSound
<1>6. PagesSound'
  <2> SUFFICES ASSUME NEW e \in Disks
               PROVE  IF CoolingDown(e)'
                      THEN pages'[e] + Cardinality(AboutToPage(e)) <= Cardinality(DiskRuns) + diskFaults
                      ELSE pages'[e] <= Cardinality(HavePaged(e)) + diskFaults
    BY DEF PagesSound, AboutToPage, HavePaged
  <2>1. CASE e = d
    <3>1. ~CoolingDown(e)' /\ pages'[e] = 0
      BY <1>1, <1>2, <1>3, <2>1 DEF CoolingDown, DiskTypeOK
    <3> QED
      BY <3>1, DiskRunsCounted DEF DiskTypeOK
  <2>2. CASE e # d
    <3>1. CoolingDown(e)' = CoolingDown(e) /\ pages'[e] = pages[e]
      BY <1>1, <1>2, <1>3, <2>2 DEF CoolingDown, DiskTypeOK
    <3> QED
      BY <3>1 DEF PagesSound
  <2> QED
    BY <2>1, <2>2
<1> QED
  BY <1>4, <1>5, <1>6

\* The run reads who breaches: only disks without a page on record.
LEMMA ReadBreachesStep ==
  ASSUME DiskIInv, NEW r \in DiskRuns, ReadBreaches(r)
  PROVE  DiskIInv'
<1> USE DEF DiskIInv, ReadBreaches
<1>1. DiskTypeOK'
  BY DEF DiskTypeOK
<1>2. RowsSound'
  BY DEF RowsSound
<1>3. PagesSound'
  <2> SUFFICES ASSUME NEW d \in Disks
               PROVE  IF CoolingDown(d)
                      THEN pages[d] + Cardinality(AboutToPage(d)') <= Cardinality(DiskRuns) + diskFaults
                      ELSE pages[d] <= Cardinality(HavePaged(d)') + diskFaults
    BY DEF PagesSound, CoolingDown
  <2>1. HavePaged(d)' = HavePaged(d)
    BY DEF HavePaged, DiskTypeOK
  <2>2. CoolingDown(d) => AboutToPage(d)' = AboutToPage(d)
    BY DEF CoolingDown, AboutToPage, Breaching, DiskTypeOK
  <2> QED
    BY <2>1, <2>2 DEF PagesSound
<1> QED
  BY <1>1, <1>2, <1>3

\* The run reads what has recovered: rows whose disk the view shows below critical.
LEMMA ReadResolutionsStep ==
  ASSUME DiskIInv, NEW r \in DiskRuns, ReadResolutions(r)
  PROVE  DiskIInv'
<1> USE DEF DiskIInv
<1> DEFINE recovered == {a \in open : Recovered(a)}
           marked(a) == [a EXCEPT !.readBy = @ \cup {r}]
<1>1. /\ diskStage[r] = "read"
      /\ diskStage' = [diskStage EXCEPT ![r] =
                         IF breaches[r] = {} /\ recovered = {} THEN "idle" ELSE "posting"]
      /\ open' = (open \ recovered) \cup {marked(a) : a \in recovered}
      /\ UNCHANGED <<current, breaches, attempts, pages, windows, diskFaults>>
  BY DEF ReadResolutions
<1>2. \A a \in OpenRows : /\ marked(a) \in OpenRows
                          /\ marked(a).disk = a.disk /\ marked(a).fresh = a.fresh
                          /\ marked(a).calm = a.calm
  BY DEF OpenRows
<1> HIDE DEF marked
<1>3. open \subseteq OpenRows
  BY DEF DiskTypeOK
<1>4. DiskTypeOK'
  BY <1>1, <1>2, <1>3 DEF DiskTypeOK
<1>5. RowsSound'
  <2>1. \A a \in recovered : a.calm /\ a \in OpenRows
    BY <1>3 DEF RowsSound, Recovered
  <2> QED
    BY <1>1, <1>2, <1>3, <2>1 DEF RowsSound
<1>6. PagesSound'
  <2>1. \A d \in Disks : CoolingDown(d)' = CoolingDown(d)
    BY <1>1, <1>2, <1>3 DEF CoolingDown
  <2>2. \A d \in Disks : AboutToPage(d)' = AboutToPage(d) /\ HavePaged(d)' = HavePaged(d)
    BY <1>1 DEF AboutToPage, HavePaged, DiskTypeOK
  <2> QED
    BY <1>1, <2>1, <2>2 DEF PagesSound
<1> QED
  BY <1>4, <1>5, <1>6

\* What the end of a run leaves: its rows unread, its lists empty.
LEMMA UnreadRows ==
  ASSUME NEW r \in DiskRuns, NEW rows \in SUBSET OpenRows
  PROVE  /\ Unread(r, rows) \in SUBSET OpenRows
         /\ \A b \in Unread(r, rows) : \E a \in rows :
              /\ b.disk = a.disk /\ b.fresh = a.fresh /\ b.calm = a.calm
              /\ b.readBy = a.readBy \ {r}
         /\ \A a \in rows : \E b \in Unread(r, rows) :
              b.disk = a.disk /\ b.fresh = a.fresh /\ b.calm = a.calm
<1> DEFINE unread(a) == [a EXCEPT !.readBy = @ \ {r}]
<1>1. Unread(r, rows) = {unread(a) : a \in rows}
  BY DEF Unread
<1>2. \A a \in OpenRows : /\ unread(a) \in OpenRows
                          /\ unread(a).disk = a.disk /\ unread(a).fresh = a.fresh
                          /\ unread(a).calm = a.calm /\ unread(a).readBy = a.readBy \ {r}
  BY DEF OpenRows
<1> HIDE DEF unread
<1> QED
  BY <1>1, <1>2

LEMMA EndRunTypes ==
  ASSUME DiskTypeOK, NEW r \in DiskRuns, EndRun(r)
  PROVE  /\ diskStage' \in [DiskRuns -> {"idle", "read", "posting", "posted", "recorded"}]
         /\ breaches' \in [DiskRuns -> SUBSET Disks]
         /\ attempts' \in [DiskRuns -> 0..(Retries - 1)]
         /\ \A d : /\ AboutToPage(d)' = AboutToPage(d) \ {r}
                   /\ HavePaged(d)' = HavePaged(d) \ {r}
BY DiskAssumption DEF DiskTypeOK, EndRun, AboutToPage, HavePaged

\* A card counts once for each disk it is about.
LEMMA CardTypes ==
  ASSUME DiskTypeOK, NEW ds \in SUBSET Disks, CardAbout(ds)
  PROVE  /\ pages' \in [Disks -> Nat]
         /\ \A d \in Disks : pages'[d] = pages[d] + (IF d \in ds THEN 1 ELSE 0)
BY DEF DiskTypeOK, CardAbout

\* The webhook answers: a run about to page has paged.
LEMMA PostStep ==
  ASSUME DiskIInv, NEW r \in DiskRuns, Post(r)
  PROVE  DiskIInv'
<1> USE DEF DiskIInv
<1>1. /\ diskStage[r] = "posting" /\ diskStage' = [diskStage EXCEPT ![r] = "posted"]
      /\ UNCHANGED <<current, open, breaches, attempts, windows, diskFaults>>
      /\ breaches[r] \in SUBSET Disks
  BY DEF Post, DiskTypeOK
<1>2. /\ pages' \in [Disks -> Nat]
      /\ \A d \in Disks : pages'[d] = pages[d] + (IF d \in breaches[r] THEN 1 ELSE 0)
  BY <1>1, CardTypes DEF Post
<1>3. DiskTypeOK'
  BY <1>1, <1>2 DEF DiskTypeOK
<1>4. RowsSound'
  BY <1>1 DEF RowsSound
<1>5. PagesSound'
  <2> SUFFICES ASSUME NEW d \in Disks
               PROVE  IF CoolingDown(d)
                      THEN pages'[d] + Cardinality(AboutToPage(d)') <= Cardinality(DiskRuns) + diskFaults
                      ELSE pages'[d] <= Cardinality(HavePaged(d)') + diskFaults
    BY <1>1 DEF PagesSound, CoolingDown
  <2>1. pages[d] \in Nat /\ diskFaults \in Nat
    BY DEF DiskTypeOK
  <2>2. CASE d \in breaches[r]
    <3>1. /\ r \in AboutToPage(d) /\ r \notin HavePaged(d)
          /\ AboutToPage(d)' = AboutToPage(d) \ {r} /\ HavePaged(d)' = HavePaged(d) \cup {r}
      BY <1>1, <2>2 DEF AboutToPage, HavePaged, DiskTypeOK
    <3>2. /\ Cardinality(AboutToPage(d)') = Cardinality(AboutToPage(d)) - 1
          /\ Cardinality(HavePaged(d)') = Cardinality(HavePaged(d)) + 1
      BY <3>1, DiskRunsCounted, OneRunMore, DiskAssumption
    <3> QED
      BY <1>2, <2>1, <2>2, <3>2, DiskRunsCounted DEF PagesSound
  <2>3. CASE d \notin breaches[r]
    <3>1. AboutToPage(d)' = AboutToPage(d) /\ HavePaged(d)' = HavePaged(d)
      BY <1>1, <2>3 DEF AboutToPage, HavePaged, DiskTypeOK
    <3> QED
      BY <1>2, <2>1, <2>3, <3>1 DEF PagesSound
  <2> QED
    BY <2>2, <2>3
<1> QED
  BY <1>3, <1>4, <1>5

\* A fault pays for a page that is not recorded and for a run that ends early.
LEMMA FaultPays ==
  ASSUME DiskIInv, NEW r \in DiskRuns, NEW d \in Disks,
         pages'[d] \in Nat, pages'[d] <= pages[d] + 1,
         diskFaults' = diskFaults + 1,
         \/ pages'[d] = pages[d]
         \/ r \in AboutToPage(d),
         CoolingDown(d)' = CoolingDown(d),
         \/ AboutToPage(d)' = AboutToPage(d) /\ HavePaged(d)' = HavePaged(d)
         \/ AboutToPage(d)' = AboutToPage(d) \ {r} /\ HavePaged(d)' = HavePaged(d) \ {r}
  PROVE  IF CoolingDown(d)'
         THEN pages'[d] + Cardinality(AboutToPage(d)') <= Cardinality(DiskRuns) + diskFaults'
         ELSE pages'[d] <= Cardinality(HavePaged(d)') + diskFaults'
<1>1. pages[d] \in Nat /\ diskFaults \in Nat
  BY DEF DiskIInv, DiskTypeOK
<1>2. /\ Cardinality(AboutToPage(d)') \in Nat /\ Cardinality(HavePaged(d)') \in Nat
      /\ Cardinality(AboutToPage(d)') <= Cardinality(AboutToPage(d))
      /\ Cardinality(HavePaged(d)) <= Cardinality(HavePaged(d)') + 1
      /\ r \in AboutToPage(d) => Cardinality(HavePaged(d)') = Cardinality(HavePaged(d))
  <2>1. AboutToPage(d) \ {r} \in SUBSET AboutToPage(d) /\ HavePaged(d) \ {r} \in SUBSET DiskRuns
        /\ IsFiniteSet(AboutToPage(d))
    BY DiskRunsCounted, DiskAssumption, FewerRuns
  <2>2. Cardinality(AboutToPage(d) \ {r}) <= Cardinality(AboutToPage(d))
        /\ Cardinality(AboutToPage(d) \ {r}) \in Nat /\ Cardinality(HavePaged(d) \ {r}) \in Nat
    BY <2>1, FewerRuns, DiskAssumption
  <2>3. Cardinality(HavePaged(d)) <= Cardinality(HavePaged(d) \ {r}) + 1
    BY DiskRunsCounted, OneRunMore, DiskAssumption
  <2>4. r \in AboutToPage(d) => HavePaged(d) \ {r} = HavePaged(d)
    BY DEF AboutToPage, HavePaged
  <2>5. /\ Cardinality(AboutToPage(d)) \in Nat /\ Cardinality(HavePaged(d)) \in Nat
        /\ Cardinality(AboutToPage(d)) + Cardinality(HavePaged(d)) <= Cardinality(DiskRuns)
    BY DiskRunsCounted
  <2>6. CASE AboutToPage(d)' = AboutToPage(d) /\ HavePaged(d)' = HavePaged(d)
    BY <2>5, <2>6
  <2>7. CASE AboutToPage(d)' = AboutToPage(d) \ {r} /\ HavePaged(d)' = HavePaged(d) \ {r}
    BY <2>2, <2>3, <2>4, <2>5, <2>7
  <2> QED
    BY <2>6, <2>7
<1> QED
  BY <1>1, <1>2, DiskRunsCounted DEF DiskIInv, PagesSound

\* The end of a run by an exception or with its agent.
LEMMA RunLost ==
  ASSUME DiskIInv, NEW r \in DiskRuns, EndRun(r), open' = Unread(r, open),
         diskFaults < DiskFaults, diskFaults' = diskFaults + 1,
         pages' \in [Disks -> Nat],
         \A d \in Disks : \/ pages'[d] = pages[d]
                          \/ r \in AboutToPage(d) /\ pages'[d] = pages[d] + 1,
         UNCHANGED <<current, windows>>
  PROVE  DiskIInv'
<1> USE DEF DiskIInv
<1>1. open \in SUBSET OpenRows
  BY DEF DiskTypeOK
<1>2. /\ open' \in SUBSET OpenRows
      /\ \A b \in open' : \E a \in open :
           b.disk = a.disk /\ b.fresh = a.fresh /\ b.calm = a.calm /\ b.readBy = a.readBy \ {r}
      /\ \A a \in open : \E b \in open' : b.disk = a.disk /\ b.fresh = a.fresh
  BY <1>1, UnreadRows
<1>3. DiskTypeOK'
  BY <1>2, EndRunTypes, DiskAssumption DEF DiskTypeOK
<1>4. RowsSound'
  BY <1>2 DEF RowsSound
<1>5. PagesSound'
  <2> SUFFICES ASSUME NEW d \in Disks
               PROVE  IF CoolingDown(d)'
                      THEN pages'[d] + Cardinality(AboutToPage(d)') <= Cardinality(DiskRuns) + diskFaults'
                      ELSE pages'[d] <= Cardinality(HavePaged(d)') + diskFaults'
    BY DEF PagesSound
  <2>1. CoolingDown(d)' = CoolingDown(d)
    BY <1>2 DEF CoolingDown
  <2>2. AboutToPage(d)' = AboutToPage(d) \ {r} /\ HavePaged(d)' = HavePaged(d) \ {r}
    BY EndRunTypes
  <2>3. pages'[d] \in Nat /\ pages[d] \in Nat
    BY DEF DiskTypeOK
  <2>4. pages'[d] <= pages[d] + 1 /\ (pages'[d] = pages[d] \/ r \in AboutToPage(d))
    BY <2>3
  <2> QED
    BY <2>1, <2>2, <2>3, <2>4, FaultPays
<1> QED
  BY <1>3, <1>4, <1>5

LEMMA PostTimesOutStep ==
  ASSUME DiskIInv, NEW r \in DiskRuns, PostTimesOut(r)
  PROVE  DiskIInv'
<1> USE DEF DiskIInv
<1>1. /\ diskStage[r] = "posting" /\ diskFaults < DiskFaults /\ diskFaults' = diskFaults + 1
      /\ UNCHANGED <<current, windows>>
      /\ breaches[r] \in SUBSET Disks
  BY DEF PostTimesOut, DiskTypeOK
<1>2. /\ pages' \in [Disks -> Nat]
      /\ \A d \in Disks : \/ pages'[d] = pages[d]
                          \/ r \in AboutToPage(d) /\ pages'[d] = pages[d] + 1
  <2>1. CASE UNCHANGED pages
    BY <2>1 DEF DiskTypeOK
  <2>2. CASE CardAbout(breaches[r])
    <3>1. /\ pages' \in [Disks -> Nat]
          /\ \A d \in Disks : pages'[d] = pages[d] + (IF d \in breaches[r] THEN 1 ELSE 0)
      BY <1>1, <2>2, CardTypes
    <3>2. \A d \in Disks : pages[d] \in Nat
      BY DEF DiskTypeOK
    <3> QED
      BY <1>1, <3>1, <3>2 DEF AboutToPage
  <2> QED
    BY <2>1, <2>2 DEF PostTimesOut
<1>3. CASE attempts[r] + 1 = Retries
  <2>1. EndRun(r) /\ open' = Unread(r, open)
    BY <1>3 DEF PostTimesOut
  <2> QED
    BY <1>1, <1>2, <2>1, RunLost
<1>4. CASE attempts[r] + 1 # Retries
  <2>1. attempts' = [attempts EXCEPT ![r] = attempts[r] + 1] /\ UNCHANGED <<diskStage, breaches, open>>
    BY <1>4 DEF PostTimesOut
  <2>2. DiskTypeOK'
    BY <1>1, <1>2, <1>4, <2>1, DiskAssumption DEF DiskTypeOK
  <2>3. RowsSound'
    BY <1>1, <2>1 DEF RowsSound
  <2>4. PagesSound'
    <3> SUFFICES ASSUME NEW d \in Disks
                 PROVE  IF CoolingDown(d)'
                        THEN pages'[d] + Cardinality(AboutToPage(d)') <= Cardinality(DiskRuns) + diskFaults'
                        ELSE pages'[d] <= Cardinality(HavePaged(d)') + diskFaults'
      BY DEF PagesSound
    <3>1. /\ CoolingDown(d)' = CoolingDown(d)
          /\ AboutToPage(d)' = AboutToPage(d) /\ HavePaged(d)' = HavePaged(d)
      BY <2>1 DEF CoolingDown, AboutToPage, HavePaged
    <3>2. pages'[d] \in Nat /\ pages[d] \in Nat
      BY <1>2 DEF DiskTypeOK
    <3>3. pages'[d] <= pages[d] + 1 /\ (pages'[d] = pages[d] \/ r \in AboutToPage(d))
      BY <1>2, <3>2
    <3> QED
      BY <1>1, <3>1, <3>2, <3>3, FaultPays
  <2> QED
    BY <2>2, <2>3, <2>4
<1> QED
  BY <1>3, <1>4

LEMMA RunDiesStep ==
  ASSUME DiskIInv, NEW r \in DiskRuns, RunDies(r)
  PROVE  DiskIInv'
<1>1. pages' \in [Disks -> Nat] /\ \A d \in Disks : pages'[d] = pages[d]
  BY DEF RunDies, DiskIInv, DiskTypeOK
<1> QED
  BY <1>1, RunLost DEF RunDies

\* The pages of the card are on record: from now on only those who had read the
\* disk as breaching page it, and whoever has paged it no longer will.
LEMMA RecordBreachStep ==
  ASSUME DiskIInv, NEW r \in DiskRuns, RecordBreachAlerts(r)
  PROVE  DiskIInv'
<1> USE DEF DiskIInv
<1> DEFINE newRow(d) == [disk |-> d, fresh |-> TRUE, readBy |-> {}, calm |-> current[d].level = "below"]
<1>1. /\ diskStage[r] = "posted"
      /\ open' = open \cup {newRow(d) : d \in breaches[r]}
      /\ diskStage' = [diskStage EXCEPT ![r] = "recorded"]
      /\ UNCHANGED <<current, breaches, attempts, pages, windows, diskFaults>>
      /\ breaches[r] \in SUBSET Disks
  BY DEF RecordBreachAlerts, DiskTypeOK
<1>2. \A d \in Disks : /\ newRow(d) \in OpenRows
                       /\ newRow(d).disk = d /\ newRow(d).fresh /\ newRow(d).readBy = {}
                       /\ (newRow(d).calm <=> current[d].level = "below")
  BY DEF OpenRows
<1> HIDE DEF newRow
<1>3. DiskTypeOK'
  BY <1>1, <1>2 DEF DiskTypeOK
<1>4. RowsSound'
  BY <1>1, <1>2 DEF RowsSound
<1>5. PagesSound'
  <2> SUFFICES ASSUME NEW d \in Disks
               PROVE  IF CoolingDown(d)'
                      THEN pages[d] + Cardinality(AboutToPage(d)') <= Cardinality(DiskRuns) + diskFaults
                      ELSE pages[d] <= Cardinality(HavePaged(d)') + diskFaults
    BY <1>1 DEF PagesSound
  <2>1. pages[d] \in Nat /\ diskFaults \in Nat
    BY DEF DiskTypeOK
  <2>2. AboutToPage(d)' = AboutToPage(d)
    BY <1>1 DEF AboutToPage, DiskTypeOK
  <2>3. pages[d] + Cardinality(AboutToPage(d)) <= Cardinality(DiskRuns) + diskFaults
    BY <2>1, DiskRunsCounted DEF PagesSound
  <2>4. CASE d \in breaches[r]
    <3>1. CoolingDown(d)'
      BY <1>1, <1>2, <2>4 DEF CoolingDown
    <3> QED
      BY <2>2, <2>3, <3>1
  <2>5. CASE d \notin breaches[r]
    <3>1. HavePaged(d)' = HavePaged(d)
      BY <1>1, <2>5 DEF HavePaged, DiskTypeOK
    <3>2. CoolingDown(d) => CoolingDown(d)'
      BY <1>1 DEF CoolingDown
    <3> QED
      BY <2>2, <2>3, <3>1, <3>2 DEF PagesSound
  <2> QED
    BY <2>4, <2>5
<1> QED
  BY <1>3, <1>4, <1>5

\* Rows the run had read are resolved; the window of their disks is over.
LEMMA RecordResolutionsStep ==
  ASSUME DiskIInv, NEW r \in DiskRuns, RecordResolutions(r)
  PROVE  DiskIInv'
<1> USE DEF DiskIInv
<1> DEFINE closed == {a \in open : Resolves(r, a)}
<1>1. /\ diskStage[r] = "recorded"
      /\ open' = Unread(r, open \ closed)
      /\ pages' = [d \in Disks |-> IF \E a \in closed : a.disk = d THEN 0 ELSE pages[d]]
      /\ EndRun(r)
      /\ UNCHANGED <<current, windows, diskFaults>>
  BY DEF RecordResolutions
<1> DEFINE kept == open \ closed
<1>2. kept \in SUBSET OpenRows /\ kept = open \ closed
  BY DEF DiskTypeOK
<1> HIDE DEF closed, kept
<1>3. /\ open' \in SUBSET OpenRows
      /\ \A b \in open' : \E a \in kept :
           b.disk = a.disk /\ b.fresh = a.fresh /\ b.calm = a.calm /\ b.readBy = a.readBy \ {r}
      /\ \A a \in kept : \E b \in open' : b.disk = a.disk /\ b.fresh = a.fresh
  BY <1>1, <1>2, UnreadRows
<1>4. DiskTypeOK'
  <2>1. pages' \in [Disks -> Nat]
    BY <1>1 DEF DiskTypeOK
  <2> QED
    BY <1>1, <1>3, <2>1, EndRunTypes DEF DiskTypeOK
<1>5. RowsSound'
  <2> SUFFICES ASSUME NEW b \in open', current[b.disk].level = "below" \/ b.readBy # {}
               PROVE  b.calm
    BY <1>1 DEF RowsSound
  <2> PICK a \in open : /\ b.disk = a.disk /\ b.calm = a.calm
                        /\ b.readBy = a.readBy \ {r}
    BY <1>2, <1>3
  <2> QED
    BY DEF RowsSound
<1>6. PagesSound'
  <2> SUFFICES ASSUME NEW d \in Disks
               PROVE  IF CoolingDown(d)'
                      THEN pages'[d] + Cardinality(AboutToPage(d)') <= Cardinality(DiskRuns) + diskFaults
                      ELSE pages'[d] <= Cardinality(HavePaged(d)') + diskFaults
    BY <1>1 DEF PagesSound
  <2>1. pages[d] \in Nat /\ diskFaults \in Nat
    BY DEF DiskTypeOK
  <2>2. AboutToPage(d)' = AboutToPage(d) /\ HavePaged(d)' = HavePaged(d)
    BY <1>1, EndRunTypes DEF AboutToPage, HavePaged
  <2>3. CASE \E a \in closed : a.disk = d
    BY <1>1, <2>1, <2>2, <2>3, DiskRunsCounted
  <2>4. CASE ~\E a \in closed : a.disk = d
    <3>1. CoolingDown(d)' = CoolingDown(d)
      BY <1>2, <1>3, <2>4 DEF CoolingDown
    <3> QED
      BY <1>1, <2>2, <2>4, <3>1 DEF PagesSound
  <2> QED
    BY <2>3, <2>4
<1> QED
  BY <1>4, <1>5, <1>6

LEMMA DiskNextStep == DiskIInv /\ [DiskNext]_diskVars => DiskIInv'
<1> SUFFICES ASSUME DiskIInv, [DiskNext]_diskVars PROVE DiskIInv'
  OBVIOUS
<1>1. ASSUME NEW d \in Disks, NEW s \in Snapshots, SyncDisk(d, s) PROVE DiskIInv'
  BY <1>1, ShowsStep DEF SyncDisk
<1>2. ASSUME NEW d \in Disks, CleanupDiskSnapshots(d) PROVE DiskIInv'
  BY <1>2, ShowsStep DEF CleanupDiskSnapshots
<1>3. ASSUME NEW d \in Disks, CooldownPasses(d) PROVE DiskIInv'
  BY <1>3, CooldownStep
<1>4. ASSUME NEW r \in DiskRuns, DiskRunStep(r) \/ PostTimesOut(r) \/ RunDies(r) PROVE DiskIInv'
  BY <1>4, ReadBreachesStep, ReadResolutionsStep, PostStep, RecordBreachStep,
     RecordResolutionsStep, PostTimesOutStep, RunDiesStep DEF DiskRunStep
<1>5. CASE UNCHANGED diskVars
  BY <1>5 DEF diskVars, diskJob, DiskIInv, DiskTypeOK, RowsSound, PagesSound,
     CoolingDown, AboutToPage, HavePaged
<1> QED
  BY <1>1, <1>2, <1>3, <1>4, <1>5 DEF DiskNext

LEMMA DiskInvariance == DiskInit /\ [][DiskNext]_diskVars => []DiskIInv
BY InitDiskIInv, DiskNextStep, PTL

\* Within a cooldown window a disk is paged once, plus once per run that overlaps
\* and once per post or run that was lost (BREACH_QUERY, record_breach_alerts).
THEOREM DiskPagedOnce == DiskSpec => []PagedOncePerWindow
<1>1. DiskIInv => PagedOncePerWindow
  <2> SUFFICES ASSUME DiskIInv, NEW d \in Disks
               PROVE  pages[d] <= Cardinality(DiskRuns) + diskFaults
    BY DEF PagedOncePerWindow
  <2>1. pages[d] \in Nat /\ diskFaults \in Nat
    BY DEF DiskIInv, DiskTypeOK
  <2> QED
    BY <2>1, DiskRunsCounted DEF DiskIInv, PagesSound
<1> QED
  BY DiskInvariance, <1>1, PTL DEF DiskSpec

\* A row that has not seen its disk recover outlives every step but the one in
\* which it does.
RecoveryFirst ==
  \A a \in open : ~a.calm =>
    \/ current'[a.disk].level = "below"
    \/ \E b \in open' : b.disk = a.disk /\ ~b.calm

LEMMA RecoveryFirstStep == DiskIInv /\ [DiskNext]_diskVars => RecoveryFirst
<1> SUFFICES ASSUME DiskIInv, [DiskNext]_diskVars, NEW a \in open, ~a.calm
             PROVE  \/ current'[a.disk].level = "below"
                    \/ \E b \in open' : b.disk = a.disk /\ ~b.calm
  BY DEF RecoveryFirst
<1>1. /\ a \in OpenRows /\ a.readBy = {} /\ open \in SUBSET OpenRows
      /\ a.disk \in Disks /\ current[a.disk].level # "below"
  BY DEF DiskIInv, RowsSound, DiskTypeOK, OpenRows
<1>2. CASE a \in open'
  BY <1>2
<1>3. ASSUME NEW d \in Disks, NEW s \in Snapshots \cup {Absent}, Shows(d, s)
      PROVE  \/ current'[a.disk].level = "below"
             \/ \E b \in open' : b.disk = a.disk /\ ~b.calm
  <2>1. CASE a.disk = d /\ s.level = "below"
    BY <1>1, <1>3, <2>1 DEF Shows, DiskIInv, DiskTypeOK
  <2>2. CASE ~(a.disk = d /\ s.level = "below")
    BY <1>3, <2>2 DEF Shows
  <2> QED
    BY <2>1, <2>2
<1>4. ASSUME NEW d \in Disks, CooldownPasses(d)
      PROVE  \E b \in open' : b.disk = a.disk /\ ~b.calm
  <2> DEFINE b == IF a.disk = d THEN [a EXCEPT !.fresh = FALSE] ELSE a
  <2>1. b \in open'
    BY <1>4 DEF CooldownPasses
  <2>2. b.disk = a.disk /\ ~b.calm
    BY <1>1 DEF OpenRows
  <2> QED
    BY <2>1, <2>2
<1>5. ASSUME NEW r \in DiskRuns, NEW rows \in SUBSET open, a \in rows, open' = Unread(r, rows)
      PROVE  \E b \in open' : b.disk = a.disk /\ ~b.calm
  <2>1. rows \in SUBSET OpenRows
    BY <1>1
  <2> QED
    BY <1>5, <2>1, UnreadRows
<1>6. ASSUME NEW r \in DiskRuns, DiskRunStep(r) \/ PostTimesOut(r) \/ RunDies(r), a \notin open'
      PROVE  \E b \in open' : b.disk = a.disk /\ ~b.calm
  <2>1. CASE ReadResolutions(r)
    <3>1. ~Recovered(a)
      BY <1>1 DEF Recovered
    <3> QED
      BY <1>6, <2>1, <3>1 DEF ReadResolutions
  <2>2. CASE RecordResolutions(r)
    <3> DEFINE rows == open \ {c \in open : Resolves(r, c)}
    <3>1. a \in rows
      BY <1>1 DEF Resolves
    <3>2. rows \in SUBSET open /\ open' = Unread(r, rows)
      BY <2>2 DEF RecordResolutions
    <3> HIDE DEF rows
    <3> QED
      BY <1>5, <3>1, <3>2
  <2>3. CASE open' = Unread(r, open)
    BY <1>5, <2>3
  <2>4. CASE open \subseteq open'
    BY <1>6, <2>4
  <2> QED
    BY <1>6, <2>1, <2>2, <2>3, <2>4
       DEF DiskRunStep, ReadBreaches, Post, RecordBreachAlerts, PostTimesOut, RunDies
<1> QED
  BY <1>2, <1>3, <1>4, <1>6 DEF DiskNext, SyncDisk, CleanupDiskSnapshots, diskVars

\* A page is marked resolved only after its disk has been seen below critical
\* since it was recorded, whatever else resolves, dies or pages beside it.
THEOREM PagesResolvedAfterRecovery == DiskSpec => ResolvedAfterRecovery
<1>1. DiskIInv /\ [DiskNext]_diskVars => [RecoveryFirst]_diskVars
  BY RecoveryFirstStep
<1>2. DiskInit /\ [][DiskNext]_diskVars => [][RecoveryFirst]_diskVars
  BY <1>1, DiskInvariance, PTL
<1> QED
  BY <1>2, PTL DEF DiskSpec, ResolvedAfterRecovery, RecoveryFirst

----------------------------------------------------------------------------
(* Patch exclusions                                                        *)

LEMMA ExclusionRunsCounted ==
  ASSUME NEW s
  PROVE  /\ Cardinality(ExclusionRuns) \in Nat
         /\ Cardinality(AboutToAnnounce(s)) \in Nat /\ Cardinality(HaveAnnounced(s)) \in Nat
         /\ AboutToAnnounce(s) \in SUBSET ExclusionRuns /\ HaveAnnounced(s) \in SUBSET ExclusionRuns
         /\ Cardinality(AboutToAnnounce(s)) <= Cardinality(ExclusionRuns)
         /\ Cardinality(AboutToAnnounce(s)) + Cardinality(HaveAnnounced(s)) <= Cardinality(ExclusionRuns)
<1>1. /\ AboutToAnnounce(s) \in SUBSET ExclusionRuns /\ HaveAnnounced(s) \in SUBSET ExclusionRuns
      /\ AboutToAnnounce(s) \cap HaveAnnounced(s) = {}
  BY DEF AboutToAnnounce, HaveAnnounced
<1> QED
  BY <1>1, ExclusionAssumption, FewerRuns, DisjointRuns

LEMMA InitExclusionIInv == ExclusionInit => ExclusionIInv
<1> SUFFICES ASSUME ExclusionInit PROVE ExclusionIInv
  OBVIOUS
<1>1. ExclusionTypeOK
  BY ExclusionAssumption DEF ExclusionInit, ExclusionTypeOK
<1>2. CardsSound
  <2> SUFFICES ASSUME NEW s \in Servers
               PROVE  /\ ~RecentlyAlerted(s)
                      /\ 0 <= Cardinality(HaveAnnounced(s)) + 0
    BY DEF ExclusionInit, CardsSound
  <2>1. ~RecentlyAlerted(s)
    BY DEF ExclusionInit, RecentlyAlerted, Suppressed
  <2> QED
    BY <2>1, ExclusionRunsCounted
<1> QED
  BY <1>1, <1>2 DEF ExclusionIInv

\* What an operator or the calendar does: a server whose exclusion stays the
\* present one, with its notification as it was, keeps its cards or starts anew.
LEMMA OperatorStep ==
  ASSUME ExclusionIInv, ExclusionTypeOK', UNCHANGED <<exclusionJob, exclusionFaults>>,
         \A s \in Servers :
           \/ weekCards'[s] = 0
           \/ weekCards'[s] = weekCards[s] /\ count'[s] = count[s]
              /\ RecentlyAlerted(s)' = RecentlyAlerted(s)
  PROVE  ExclusionIInv'
<1> USE DEF ExclusionIInv, exclusionJob
<1> SUFFICES ASSUME NEW s \in Servers
             PROVE  IF RecentlyAlerted(s)'
                    THEN weekCards'[s] + Cardinality(AboutToAnnounce(s)')
                           <= Cardinality(ExclusionRuns) + exclusionFaults
                    ELSE weekCards'[s] <= Cardinality(HaveAnnounced(s)') + exclusionFaults
  BY DEF CardsSound
<1>1. exclusionFaults \in Nat
  BY DEF ExclusionTypeOK
<1>2. /\ Cardinality(HaveAnnounced(s)') \in Nat /\ Cardinality(AboutToAnnounce(s)') \in Nat
      /\ Cardinality(AboutToAnnounce(s)') <= Cardinality(ExclusionRuns)
      /\ Cardinality(ExclusionRuns) \in Nat
  <2>1. AboutToAnnounce(s)' \in SUBSET ExclusionRuns /\ HaveAnnounced(s)' \in SUBSET ExclusionRuns
    BY DEF AboutToAnnounce, HaveAnnounced
  <2> QED
    BY <2>1, FewerRuns, ExclusionAssumption
<1>3. CASE weekCards'[s] = 0
  BY <1>1, <1>2, <1>3
<1>4. CASE weekCards'[s] = weekCards[s] /\ count'[s] = count[s]
           /\ RecentlyAlerted(s)' = RecentlyAlerted(s)
  <2>1. AboutToAnnounce(s)' = AboutToAnnounce(s) /\ HaveAnnounced(s)' = HaveAnnounced(s)
    BY <1>4 DEF AboutToAnnounce, HaveAnnounced, Active
  <2> QED
    BY <1>4, <2>1 DEF CardsSound
<1> QED
  BY <1>3, <1>4

LEMMA ExcludeStep ==
  ASSUME ExclusionIInv, NEW ss \in SUBSET Servers, NEW until \in Until, Exclude(ss, until)
  PROVE  ExclusionIInv'
<1> USE DEF ExclusionIInv, Exclude, exclusionJob
<1>1. ExclusionTypeOK'
  BY ExclusionAssumption DEF ExclusionTypeOK, Until
<1>2. ASSUME NEW s \in Servers
      PROVE  \/ weekCards'[s] = 0
             \/ weekCards'[s] = weekCards[s] /\ count'[s] = count[s]
                /\ RecentlyAlerted(s)' = RecentlyAlerted(s)
  BY DEF RecentlyAlerted, Active, Suppressed
<1> QED
  BY <1>1, <1>2, OperatorStep

LEMMA HoldStep ==
  ASSUME ExclusionIInv, NEW s \in Servers,
         (\E until \in Until : Extend(s, until)) \/ Remove(s) \/ HoldRunsOut(s)
  PROVE  ExclusionIInv'
<1> USE DEF ExclusionIInv, exclusionJob
<1>1. /\ hold[s] # "none" /\ hold' \in [Servers -> {"none", "held", "due"}]
      /\ \A t \in Servers : t # s => hold'[t] = hold[t]
      /\ told' \in SUBSET Servers
      /\ UNCHANGED <<count, alerted, exclusionJob, weekCards, exclusionFaults>>
  BY DEF Extend, Remove, HoldRunsOut, ExclusionTypeOK, Until
<1>2. ExclusionTypeOK'
  BY <1>1 DEF ExclusionTypeOK
<1>3. \A t \in Servers : RecentlyAlerted(t)' = RecentlyAlerted(t)
  BY <1>1 DEF RecentlyAlerted, Active, Suppressed
<1> QED
  BY <1>1, <1>2, <1>3, OperatorStep

LEMMA WeekStep ==
  ASSUME ExclusionIInv, NEW i \in Ids, WeekPasses(i)
  PROVE  ExclusionIInv'
<1> USE DEF ExclusionIInv, WeekPasses, exclusionJob
<1>1. ExclusionTypeOK'
  BY DEF ExclusionTypeOK
<1>2. ASSUME NEW s \in Servers
      PROVE  \/ weekCards'[s] = 0
             \/ weekCards'[s] = weekCards[s] /\ count'[s] = count[s]
                /\ RecentlyAlerted(s)' = RecentlyAlerted(s)
  <2>1. CASE i = Active(s)
    BY <2>1
  <2>2. CASE i # Active(s)
    BY <2>2 DEF RecentlyAlerted, Active, Suppressed, ExclusionTypeOK
  <2> QED
    BY <2>1, <2>2
<1> QED
  BY <1>1, <1>2, OperatorStep

\* The query leaves out what was announced within the week.
LEMMA ReadExpiredStep ==
  ASSUME ExclusionIInv, NEW r \in ExclusionRuns, ReadExpired(r)
  PROVE  ExclusionIInv'
<1> USE DEF ExclusionIInv
<1> DEFINE due == {i \in {Active(s) : s \in {t \in Servers : hold[t] = "due"}} : ~Suppressed(i)}
<1>1. /\ exclusionStage[r] = "idle" /\ due # {}
      /\ exclusionStage' = [exclusionStage EXCEPT ![r] = "posting"]
      /\ expired' = [expired EXCEPT ![r] = due]
      /\ UNCHANGED <<hold, count, alerted, told, weekCards, exclusionFaults>>
  BY DEF ReadExpired
<1>2. due \in SUBSET Ids
  BY ExclusionAssumption DEF Ids, Active, ExclusionTypeOK
<1>3. \A s \in Servers : RecentlyAlerted(s) => Active(s) \notin due
  BY DEF RecentlyAlerted
<1> HIDE DEF due
<1>4. ExclusionTypeOK'
  BY <1>1, <1>2 DEF ExclusionTypeOK
<1>5. CardsSound'
  <2> SUFFICES ASSUME NEW s \in Servers
               PROVE  IF RecentlyAlerted(s)
                      THEN weekCards[s] + Cardinality(AboutToAnnounce(s)')
                             <= Cardinality(ExclusionRuns) + exclusionFaults
                      ELSE weekCards[s] <= Cardinality(HaveAnnounced(s)') + exclusionFaults
    BY <1>1 DEF CardsSound, RecentlyAlerted, Active, Suppressed
  <2>1. HaveAnnounced(s)' = HaveAnnounced(s)
    BY <1>1 DEF HaveAnnounced, Active, ExclusionTypeOK
  <2>2. RecentlyAlerted(s) => AboutToAnnounce(s)' = AboutToAnnounce(s)
    BY <1>1, <1>3 DEF AboutToAnnounce, Active, ExclusionTypeOK
  <2> QED
    BY <2>1, <2>2 DEF CardsSound
<1> QED
  BY <1>4, <1>5

LEMMA ArrivalTypes ==
  ASSUME ExclusionTypeOK, NEW r \in ExclusionRuns, CardArrives(r)
  PROVE  /\ told' \in SUBSET Servers /\ weekCards' \in [Servers -> Nat]
         /\ \A s \in Servers :
              weekCards'[s] = IF Active(s) \in expired[r] THEN weekCards[s] + 1 ELSE weekCards[s]
BY DEF ExclusionTypeOK, CardArrives

LEMMA PostExpiredStep ==
  ASSUME ExclusionIInv, NEW r \in ExclusionRuns, PostExpired(r)
  PROVE  ExclusionIInv'
<1> USE DEF ExclusionIInv
<1>1. /\ exclusionStage[r] = "posting"
      /\ exclusionStage' = [exclusionStage EXCEPT ![r] = "posted"]
      /\ UNCHANGED <<hold, count, alerted, expired, exclusionFaults>>
  BY DEF PostExpired
<1>2. /\ told' \in SUBSET Servers /\ weekCards' \in [Servers -> Nat]
      /\ \A s \in Servers :
           weekCards'[s] = IF Active(s) \in expired[r] THEN weekCards[s] + 1 ELSE weekCards[s]
  BY ArrivalTypes DEF PostExpired
<1>3. ExclusionTypeOK'
  BY <1>1, <1>2 DEF ExclusionTypeOK
<1>4. CardsSound'
  <2> SUFFICES ASSUME NEW s \in Servers
               PROVE  IF RecentlyAlerted(s)
                      THEN weekCards'[s] + Cardinality(AboutToAnnounce(s)')
                             <= Cardinality(ExclusionRuns) + exclusionFaults
                      ELSE weekCards'[s] <= Cardinality(HaveAnnounced(s)') + exclusionFaults
    BY <1>1 DEF CardsSound, RecentlyAlerted, Active, Suppressed
  <2>1. weekCards[s] \in Nat /\ exclusionFaults \in Nat
    BY DEF ExclusionTypeOK
  <2>2. CASE Active(s) \in expired[r]
    <3>1. /\ r \in AboutToAnnounce(s) /\ r \notin HaveAnnounced(s)
          /\ AboutToAnnounce(s)' = AboutToAnnounce(s) \ {r}
          /\ HaveAnnounced(s)' = HaveAnnounced(s) \cup {r}
      <4>1. r \in AboutToAnnounce(s) /\ r \notin HaveAnnounced(s)
        BY <1>1, <2>2 DEF AboutToAnnounce, HaveAnnounced
      <4>2. AboutToAnnounce(s)' = AboutToAnnounce(s) \ {r}
        BY <1>1, <2>2 DEF AboutToAnnounce, Active, ExclusionTypeOK
      <4>3. HaveAnnounced(s)' = HaveAnnounced(s) \cup {r}
        BY <1>1, <2>2 DEF HaveAnnounced, Active, ExclusionTypeOK
      <4> QED BY <4>1, <4>2, <4>3
    <3>2. /\ Cardinality(AboutToAnnounce(s)') = Cardinality(AboutToAnnounce(s)) - 1
          /\ Cardinality(HaveAnnounced(s)') = Cardinality(HaveAnnounced(s)) + 1
      <4>1. /\ IsFiniteSet(ExclusionRuns) /\ AboutToAnnounce(s) \in SUBSET ExclusionRuns
            /\ HaveAnnounced(s) \in SUBSET ExclusionRuns
        BY ExclusionRunsCounted, ExclusionAssumption
      <4>2. Cardinality(AboutToAnnounce(s) \ {r}) = Cardinality(AboutToAnnounce(s)) - 1
        BY <3>1, <4>1, OneRunMore
      <4>3. Cardinality(HaveAnnounced(s) \cup {r}) = Cardinality(HaveAnnounced(s)) + 1
        BY <3>1, <4>1, OneRunMore
      <4> QED BY <3>1, <4>2, <4>3
    <3> QED
      BY <1>2, <2>1, <2>2, <3>2, ExclusionRunsCounted DEF CardsSound
  <2>3. CASE Active(s) \notin expired[r]
    <3>1. AboutToAnnounce(s)' = AboutToAnnounce(s) /\ HaveAnnounced(s)' = HaveAnnounced(s)
      BY <1>1, <2>3 DEF AboutToAnnounce, HaveAnnounced, Active, ExclusionTypeOK
    <3> QED
      BY <1>2, <2>1, <2>3, <3>1 DEF CardsSound
  <2> QED
    BY <2>2, <2>3
<1> QED
  BY <1>3, <1>4

\* A lost post or run: its fault pays for the card that may have arrived and for
\* the card that will not be recorded.
LEMMA RunCutOff ==
  ASSUME ExclusionIInv, NEW r \in ExclusionRuns,
         exclusionFaults < ExclusionFaults, exclusionFaults' = exclusionFaults + 1,
         UNCHANGED <<hold, count, alerted>>,
         EndExclusionRun(r) \/ UNCHANGED exclusionJob,
         \/ UNCHANGED <<told, weekCards>>
         \/ exclusionStage[r] = "posting" /\ CardArrives(r)
  PROVE  ExclusionIInv'
<1> USE DEF ExclusionIInv
<1>1. /\ told' \in SUBSET Servers /\ weekCards' \in [Servers -> Nat]
      /\ \A s \in Servers : \/ weekCards'[s] = weekCards[s]
                            \/ weekCards'[s] = weekCards[s] + 1 /\ r \in AboutToAnnounce(s)
  <2>1. CASE UNCHANGED <<told, weekCards>>
    BY <2>1 DEF ExclusionTypeOK
  <2>2. CASE exclusionStage[r] = "posting" /\ CardArrives(r)
    BY <2>2, ArrivalTypes DEF AboutToAnnounce
  <2> QED
    BY <2>1, <2>2
<1>2. ExclusionTypeOK'
  BY <1>1, ExclusionAssumption DEF ExclusionTypeOK, EndExclusionRun, exclusionJob
<1>3. CardsSound'
  <2> SUFFICES ASSUME NEW s \in Servers
               PROVE  IF RecentlyAlerted(s)
                      THEN weekCards'[s] + Cardinality(AboutToAnnounce(s)')
                             <= Cardinality(ExclusionRuns) + (exclusionFaults + 1)
                      ELSE weekCards'[s] <= Cardinality(HaveAnnounced(s)') + (exclusionFaults + 1)
    BY <1>2 DEF CardsSound, RecentlyAlerted, Active, Suppressed, ExclusionTypeOK
  <2>1. weekCards[s] \in Nat /\ exclusionFaults \in Nat
    BY DEF ExclusionTypeOK
  <2>2. \/ AboutToAnnounce(s)' = AboutToAnnounce(s) /\ HaveAnnounced(s)' = HaveAnnounced(s)
        \/ /\ AboutToAnnounce(s)' = AboutToAnnounce(s) \ {r}
           /\ HaveAnnounced(s)' = HaveAnnounced(s) \ {r}
    BY DEF AboutToAnnounce, HaveAnnounced, Active, EndExclusionRun, exclusionJob, ExclusionTypeOK
  <2>3. /\ Cardinality(AboutToAnnounce(s)') \in Nat /\ Cardinality(HaveAnnounced(s)') \in Nat
        /\ Cardinality(AboutToAnnounce(s)') <= Cardinality(AboutToAnnounce(s))
        /\ Cardinality(HaveAnnounced(s)) <= Cardinality(HaveAnnounced(s)') + 1
        /\ r \in AboutToAnnounce(s) => Cardinality(HaveAnnounced(s)') = Cardinality(HaveAnnounced(s))
    <3>1. /\ AboutToAnnounce(s) \ {r} \in SUBSET AboutToAnnounce(s)
          /\ HaveAnnounced(s) \ {r} \in SUBSET ExclusionRuns
          /\ IsFiniteSet(AboutToAnnounce(s))
      BY ExclusionRunsCounted, ExclusionAssumption, FewerRuns
    <3>2. /\ Cardinality(AboutToAnnounce(s) \ {r}) <= Cardinality(AboutToAnnounce(s))
          /\ Cardinality(AboutToAnnounce(s) \ {r}) \in Nat
          /\ Cardinality(HaveAnnounced(s) \ {r}) \in Nat
      BY <3>1, FewerRuns, ExclusionAssumption
    <3>3. Cardinality(HaveAnnounced(s)) <= Cardinality(HaveAnnounced(s) \ {r}) + 1
      BY ExclusionRunsCounted, OneRunMore, ExclusionAssumption
    <3>4. r \in AboutToAnnounce(s) => HaveAnnounced(s) \ {r} = HaveAnnounced(s)
      BY DEF AboutToAnnounce, HaveAnnounced
    <3>5. Cardinality(AboutToAnnounce(s)) \in Nat /\ Cardinality(HaveAnnounced(s)) \in Nat
      BY ExclusionRunsCounted
    <3>6. CASE AboutToAnnounce(s)' = AboutToAnnounce(s) /\ HaveAnnounced(s)' = HaveAnnounced(s)
      BY <3>5, <3>6
    <3>7. CASE /\ AboutToAnnounce(s)' = AboutToAnnounce(s) \ {r}
               /\ HaveAnnounced(s)' = HaveAnnounced(s) \ {r}
      BY <3>2, <3>3, <3>4, <3>5, <3>7
    <3> QED
      BY <2>2, <3>6, <3>7
  <2> QED
    BY <1>1, <2>1, <2>3, ExclusionRunsCounted DEF CardsSound
<1> QED
  BY <1>2, <1>3

\* The notification is on record for every exclusion the run had read.
LEMMA RecordExpiredStep ==
  ASSUME ExclusionIInv, NEW r \in ExclusionRuns, RecordExpired(r)
  PROVE  ExclusionIInv'
<1> USE DEF ExclusionIInv
<1>1. /\ exclusionStage[r] = "posted"
      /\ alerted' = [i \in Ids |-> IF i \in expired[r] THEN "recently" ELSE alerted[i]]
      /\ exclusionStage' = [exclusionStage EXCEPT ![r] = "idle"]
      /\ expired' = [expired EXCEPT ![r] = {}]
      /\ UNCHANGED <<hold, count, told, weekCards, exclusionFaults>>
      /\ expired[r] \in SUBSET Ids
  BY DEF RecordExpired, EndExclusionRun, ExclusionTypeOK
<1>2. ExclusionTypeOK'
  BY <1>1 DEF ExclusionTypeOK
<1>3. CardsSound'
  <2> SUFFICES ASSUME NEW s \in Servers
               PROVE  IF RecentlyAlerted(s)'
                      THEN weekCards[s] + Cardinality(AboutToAnnounce(s)')
                             <= Cardinality(ExclusionRuns) + exclusionFaults
                      ELSE weekCards[s] <= Cardinality(HaveAnnounced(s)') + exclusionFaults
    BY <1>1 DEF CardsSound
  <2>1. weekCards[s] \in Nat /\ exclusionFaults \in Nat
    BY DEF ExclusionTypeOK
  <2>2. AboutToAnnounce(s)' = AboutToAnnounce(s)
    BY <1>1 DEF AboutToAnnounce, Active, ExclusionTypeOK
  <2>3. weekCards[s] + Cardinality(AboutToAnnounce(s)) <= Cardinality(ExclusionRuns) + exclusionFaults
    BY <2>1, ExclusionRunsCounted DEF CardsSound
  <2>4. CASE Active(s) \in expired[r]
    <3>1. RecentlyAlerted(s)'
      BY <1>1, <2>4 DEF RecentlyAlerted, Active, Suppressed
    <3> QED
      BY <2>2, <2>3, <3>1
  <2>5. CASE Active(s) \notin expired[r]
    <3>1. /\ HaveAnnounced(s)' = HaveAnnounced(s)
          /\ RecentlyAlerted(s)' = RecentlyAlerted(s)
      BY <1>1, <2>5 DEF HaveAnnounced, RecentlyAlerted, Suppressed, Active, ExclusionTypeOK
    <3> QED
      BY <2>2, <3>1 DEF CardsSound
  <2> QED
    BY <2>4, <2>5
<1> QED
  BY <1>2, <1>3

LEMMA ExclusionNextStep == ExclusionIInv /\ [ExclusionNext]_exclusionVars => ExclusionIInv'
<1> SUFFICES ASSUME ExclusionIInv, [ExclusionNext]_exclusionVars PROVE ExclusionIInv'
  OBVIOUS
<1>1. ASSUME NEW r \in ExclusionRuns,
             ExclusionRunStep(r) \/ PostExpiredFails(r) \/ ExclusionRunDies(r)
      PROVE  ExclusionIInv'
  <2>1. CASE PostExpiredFails(r)
    BY <2>1, RunCutOff DEF PostExpiredFails
  <2>2. CASE ExclusionRunDies(r)
    BY <2>2, RunCutOff DEF ExclusionRunDies
  <2> QED
    BY <1>1, <2>1, <2>2, ReadExpiredStep, PostExpiredStep, RecordExpiredStep DEF ExclusionRunStep
<1>2. CASE UNCHANGED exclusionVars
  BY <1>2 DEF exclusionVars, exclusionJob, ExclusionIInv, ExclusionTypeOK, CardsSound,
     RecentlyAlerted, Suppressed, Active, AboutToAnnounce, HaveAnnounced
<1> QED
  BY <1>1, <1>2, ExcludeStep, HoldStep, WeekStep DEF ExclusionNext

LEMMA ExclusionInvariance == ExclusionInit /\ [][ExclusionNext]_exclusionVars => []ExclusionIInv
BY InitExclusionIInv, ExclusionNextStep, PTL

\* In a week an exclusion is announced once, plus once per run that overlaps and
\* once per post or run that was lost, whatever operators do in between.
THEOREM ExclusionAnnouncedOnce == ExclusionSpec => []AnnouncedOncePerWeek
<1>1. ExclusionIInv => AnnouncedOncePerWeek
  <2> SUFFICES ASSUME ExclusionIInv, NEW s \in Servers
               PROVE  weekCards[s] <= Cardinality(ExclusionRuns) + exclusionFaults
    BY DEF AnnouncedOncePerWeek
  <2>1. weekCards[s] \in Nat /\ exclusionFaults \in Nat
    BY DEF ExclusionIInv, ExclusionTypeOK
  <2> QED
    BY <2>1, ExclusionRunsCounted DEF ExclusionIInv, CardsSound
<1> QED
  BY ExclusionInvariance, <1>1, PTL DEF ExclusionSpec

----------------------------------------------------------------------------
(* Licence renewals                                                        *)

LEMMA LicenceRunsCounted ==
  ASSUME NEW l, NEW t
  PROVE  /\ Cardinality(LicenceRuns) \in Nat
         /\ AboutToFire(l, t) \in SUBSET LicenceRuns /\ HaveFired(l, t) \in SUBSET LicenceRuns
         /\ Failing \in SUBSET LicenceRuns /\ Overwriters(l, t) \in SUBSET Failing
         /\ Cardinality(AboutToFire(l, t)) \in Nat /\ Cardinality(HaveFired(l, t)) \in Nat
         /\ Cardinality(Overwriters(l, t)) \in Nat /\ Cardinality(Failing) \in Nat
         /\ Cardinality(AboutToFire(l, t)) <= Cardinality(LicenceRuns)
         /\ Cardinality(AboutToFire(l, t)) + Cardinality(HaveFired(l, t)) <= Cardinality(LicenceRuns)
         /\ Cardinality(Overwriters(l, t)) <= Cardinality(Failing)
<1>1. /\ AboutToFire(l, t) \in SUBSET LicenceRuns /\ HaveFired(l, t) \in SUBSET LicenceRuns
      /\ AboutToFire(l, t) \cap HaveFired(l, t) = {}
      /\ Failing \in SUBSET LicenceRuns /\ Overwriters(l, t) \in SUBSET Failing
  BY DEF AboutToFire, HaveFired, Failing, Overwriters
<1>2. IsFiniteSet(Failing)
  BY <1>1, LicenceAssumption, FewerRuns
<1> QED
  BY <1>1, <1>2, LicenceAssumption, FewerRuns, DisjointRuns

LEMMA FailingCounted ==
  /\ IsFiniteSet(Failing) /\ Cardinality(Failing) \in Nat /\ Failing \in SUBSET LicenceRuns
<1>1. Failing \in SUBSET LicenceRuns
  BY DEF Failing
<1> QED
  BY <1>1, LicenceAssumption, FewerRuns

\* Rounds paid for by the faults that no failed run still holds.
LEMMA RoundsArePaid ==
  ASSUME LicenceTypeOK, FailuresPaid, NEW l \in Licences, NEW t \in Thresholds
  PROVE  /\ licenceFaults - Cardinality(Overwriters(l, t)) \in Nat
         /\ EarlierRounds(l, t) \in Nat
<1>1. licenceFaults - Cardinality(Overwriters(l, t)) \in Nat
  BY LicenceRunsCounted DEF LicenceTypeOK, FailuresPaid
<1>2. \A m, n \in Nat : m * n \in Nat
  OBVIOUS
<1> QED
  BY <1>1, <1>2, LicenceRunsCounted DEF EarlierRounds

\* Another fault, or a failed run less, makes room for a round.
LEMMA AnotherRound ==
  ASSUME LicenceTypeOK, FailuresPaid, NEW l \in Licences, NEW t \in Thresholds,
         NEW k \in {0, 1, 2},
         licenceFaults' - Cardinality(Overwriters(l, t)')
           = (licenceFaults - Cardinality(Overwriters(l, t))) + k
  PROVE  EarlierRounds(l, t)' = EarlierRounds(l, t) + k * Cardinality(LicenceRuns)
<1>1. \A m, n \in Nat : m * (n + 1) = m * n + m /\ m * (n + 2) = m * n + 2 * m
  OBVIOUS
<1>2. licenceFaults - Cardinality(Overwriters(l, t)) \in Nat /\ Cardinality(LicenceRuns) \in Nat
  BY RoundsArePaid, LicenceRunsCounted
<1>3. EarlierRounds(l, t)'
        = Cardinality(LicenceRuns) * (licenceFaults' - Cardinality(Overwriters(l, t)'))
  BY DEF EarlierRounds
<1>4. CASE k = 0
  BY <1>2, <1>3, <1>4, RoundsArePaid DEF EarlierRounds
<1>5. CASE k = 1
  BY <1>1, <1>2, <1>3, <1>5 DEF EarlierRounds
<1>6. CASE k = 2
  BY <1>1, <1>2, <1>3, <1>6 DEF EarlierRounds
<1> QED
  BY <1>4, <1>5, <1>6

\* What FiringsSound says of one pair.
FiringSound(l, t) ==
  IF alerts[l][t] = "sent"
  THEN cards[l][t] + Cardinality(AboutToFire(l, t)) <= Cardinality(LicenceRuns) + EarlierRounds(l, t)
  ELSE cards[l][t] <= Cardinality(HaveFired(l, t)) + EarlierRounds(l, t)

LEMMA PerPair == FiringsSound <=> \A l \in Licences, t \in Thresholds : FiringSound(l, t)
BY DEF FiringsSound, FiringSound

LEMMA InitLicenceIInv == LicenceInit => LicenceIInv
<1> SUFFICES ASSUME LicenceInit PROVE LicenceIInv
  OBVIOUS
<1>1. LicenceTypeOK
  BY LicenceAssumption DEF LicenceInit, LicenceTypeOK, Crossed, Thresholds, NoAlerts, NoCards, NoneListed
<1>2. Failing = {}
  BY DEF Failing, LicenceInit
<1>3. FailuresPaid
  BY <1>2, FS_EmptySet DEF FailuresPaid, LicenceInit
<1>4. FiringsSound
  <2> SUFFICES ASSUME NEW l \in Licences, NEW t \in Thresholds
               PROVE  FiringSound(l, t)
    BY PerPair
  <2>1. alerts[l][t] = "none" /\ cards[l][t] = 0
    BY DEF LicenceInit, NoAlerts, NoCards
  <2> QED
    BY <1>1, <1>3, <2>1, RoundsArePaid, LicenceRunsCounted DEF FiringSound
<1> QED
  BY <1>1, <1>3, <1>4 DEF LicenceIInv

\* A pair whose row, cards and runs are as they were stays sound, with or without
\* another fault.
LEMMA PairUntouched ==
  ASSUME LicenceIInv, LicenceTypeOK', NEW l \in Licences, NEW t \in Thresholds,
         \/ licenceFaults' = licenceFaults
         \/ licenceFaults' = licenceFaults + 1,
         alerts'[l][t] = alerts[l][t], cards'[l][t] = cards[l][t],
         Overwriters(l, t)' = Overwriters(l, t),
         HaveFired(l, t)' = HaveFired(l, t),
         alerts[l][t] = "sent" => AboutToFire(l, t)' = AboutToFire(l, t)
  PROVE  FiringSound(l, t)'
<1>1. licenceFaults \in Nat /\ cards[l][t] \in Nat
  BY DEF LicenceIInv, LicenceTypeOK
<1>2. /\ Cardinality(Overwriters(l, t)) \in Nat /\ Cardinality(LicenceRuns) \in Nat
      /\ Cardinality(AboutToFire(l, t)) \in Nat /\ Cardinality(HaveFired(l, t)) \in Nat
  BY LicenceRunsCounted
<1>3. EarlierRounds(l, t) \in Nat /\ EarlierRounds(l, t) <= EarlierRounds(l, t)'
      /\ EarlierRounds(l, t)' \in Nat
  <2>1. CASE licenceFaults' = licenceFaults
    BY <2>1, RoundsArePaid DEF EarlierRounds, LicenceIInv
  <2>2. CASE licenceFaults' = licenceFaults + 1
    <3>1. EarlierRounds(l, t)' = EarlierRounds(l, t) + 1 * Cardinality(LicenceRuns)
      BY <1>1, <1>2, <2>2, AnotherRound DEF LicenceIInv
    <3> QED
      BY <1>2, <3>1, RoundsArePaid DEF LicenceIInv
  <2> QED
    BY <2>1, <2>2
<1>4. FiringSound(l, t)
  BY PerPair DEF LicenceIInv
<1> QED
  BY <1>1, <1>2, <1>3, <1>4 DEF FiringSound

\* What administrators and the calendar do touches no run and no row.
LEMMA AdministratorStep ==
  ASSUME LicenceIInv, LicenceTypeOK', UNCHANGED <<alerts, job, cycle, cards>>,
         \/ licenceFaults' = licenceFaults
         \/ licenceFaults' = licenceFaults + 1
  PROVE  LicenceIInv'
<1> USE DEF job
<1>1. Failing' = Failing
  BY DEF Failing
<1>2. FailuresPaid'
  BY <1>1, FailingCounted DEF FailuresPaid, LicenceIInv, LicenceTypeOK
<1>3. ASSUME NEW l \in Licences, NEW t \in Thresholds PROVE FiringSound(l, t)'
  <2>1. /\ Overwriters(l, t)' = Overwriters(l, t) /\ HaveFired(l, t)' = HaveFired(l, t)
        /\ AboutToFire(l, t)' = AboutToFire(l, t)
    BY DEF Overwriters, Failing, HaveFired, AboutToFire, Lists
  <2> QED
    BY <2>1, PairUntouched
<1>4. FiringsSound'
  BY <1>3 DEF FiringsSound, FiringSound
<1> QED
  BY <1>2, <1>4 DEF LicenceIInv

LEMMA LicensingStep ==
  ASSUME LicenceIInv,
         \/ \E l \in Licences, t \in Crossed : Create(l, t) \/ Patch(l, t)
         \/ \E l \in Licences : Delete(l) \/ TimePasses(l)
         \/ \E q \in Renewers, l \in Licences : RenewRead(q, l)
         \/ \E q \in Renewers : RenewFails(q)
  PROVE  LicenceIInv'
<1>1. LicenceTypeOK
  BY DEF LicenceIInv
<1>2. /\ LicenceTypeOK' /\ UNCHANGED <<alerts, job, cycle, cards>>
      /\ licenceFaults' = licenceFaults \/ licenceFaults' = licenceFaults + 1
  <2>1. ASSUME NEW l \in Licences, NEW t \in Crossed, Create(l, t) \/ Patch(l, t)
        PROVE  LicenceTypeOK'
    <3>1. CASE Create(l, t)
      BY <1>1, <3>1 DEF LicenceTypeOK, Create, job
    <3>2. CASE Patch(l, t)
      BY <1>1, <3>2 DEF LicenceTypeOK, Patch, job
    <3> QED BY <2>1, <3>1, <3>2
  <2>2. ASSUME NEW l \in Licences, Delete(l) \/ TimePasses(l)
        PROVE  LicenceTypeOK'
    <3>1. CASE Delete(l)
      BY <1>1, <3>1 DEF LicenceTypeOK, Delete, job
    <3>2. CASE TimePasses(l)
      <4>1. crossed[l] + 1 \in Crossed
        BY <1>1, <3>2, LicenceAssumption DEF LicenceTypeOK, TimePasses, Crossed
      <4> QED
        BY <1>1, <3>2, <4>1 DEF LicenceTypeOK, TimePasses, job
    <3> QED
      BY <2>2, <3>1, <3>2
  <2>3. ASSUME NEW q \in Renewers, NEW l \in Licences, RenewRead(q, l)
        PROVE  LicenceTypeOK'
    BY <1>1, <2>3 DEF LicenceTypeOK, RenewRead, job
  <2>4. ASSUME NEW q \in Renewers, RenewFails(q)
        PROVE  LicenceTypeOK'
    BY <1>1, <2>4, LicenceAssumption DEF LicenceTypeOK, RenewFails, job
  <2>5. UNCHANGED <<alerts, job, cycle, cards>>
    BY DEF Create, Patch, Delete, TimePasses, RenewRead, RenewFails
  <2>6. licenceFaults' = licenceFaults \/ licenceFaults' = licenceFaults + 1
    BY DEF Create, Patch, Delete, TimePasses, RenewRead, RenewFails
  <2> QED
    BY <2>1, <2>2, <2>3, <2>4, <2>5, <2>6
<1> QED
  BY <1>2, AdministratorStep

\* A renewal starts a cycle: no row, no card.
LEMMA RenewCommitStep ==
  ASSUME LicenceIInv, NEW q \in Renewers, NEW u \in Crossed, RenewCommit(q, u)
  PROVE  LicenceIInv'
<1> USE DEF LicenceIInv, job
<1>0. PICK m \in Licences : m = renewing[q]
  BY DEF RenewCommit, LicenceTypeOK
<1>1. /\ cycle[m] < MaxRenewals
      /\ crossed' = [crossed EXCEPT ![m] = u] /\ alerts' = [alerts EXCEPT ![m] = NoAlerts]
      /\ cycle' = [cycle EXCEPT ![m] = cycle[m] + 1] /\ cards' = [cards EXCEPT ![m] = NoCards]
      /\ overtaken' = {o \in overtaken : o[1] # m}
      /\ renewing' = [renewing EXCEPT ![q] = NoLicence]
      /\ UNCHANGED <<licence, job, licenceFaults>>
  BY <1>0 DEF RenewCommit, ClearedAlerts
<1>2. LicenceTypeOK'
  <2>1. /\ NoAlerts \in [Thresholds -> {"none", "failed", "sent"}]
        /\ NoCards \in [Thresholds -> Nat]
    BY DEF NoAlerts, NoCards
  <2>2. /\ crossed' \in [Licences -> Crossed]
        /\ alerts' \in [Licences -> [Thresholds -> {"none", "failed", "sent"}]]
        /\ cards' \in [Licences -> [Thresholds -> Nat]]
    BY <1>1, <2>1 DEF LicenceTypeOK
  <2>3. cycle' \in [Licences -> 0..MaxRenewals]
    <3>1. cycle[m] + 1 \in 0..MaxRenewals
      BY <1>1, LicenceAssumption DEF LicenceTypeOK
    <3> QED BY <1>1, <3>1 DEF LicenceTypeOK
  <2>4. renewing' \in [Renewers -> Licences \cup {NoLicence}]
    BY <1>1 DEF LicenceTypeOK
  <2>5. overtaken' \in SUBSET (Licences \X Thresholds)
    BY <1>1 DEF LicenceTypeOK
  <2> QED BY <1>1, <2>2, <2>3, <2>4, <2>5 DEF LicenceTypeOK
<1>3. Failing' = Failing
  BY <1>1 DEF Failing
<1>4. FailuresPaid'
  BY <1>1, <1>3 DEF FailuresPaid
<1>5. ASSUME NEW l \in Licences, NEW t \in Thresholds PROVE FiringSound(l, t)'
  <2>1. CASE l = m
    <3>1. alerts'[l][t] = "none" /\ cards'[l][t] = 0
      BY <1>1, <2>1 DEF LicenceTypeOK, NoAlerts, NoCards
    <3>2. Overwriters(l, t)' = Overwriters(l, t)
      BY <1>1 DEF Overwriters, Failing
    <3>3. EarlierRounds(l, t)' \in Nat
      BY <1>1, <3>2, RoundsArePaid DEF EarlierRounds
    <3>4. Cardinality(HaveFired(l, t)') \in Nat
      BY FewerRuns, LicenceAssumption DEF HaveFired
    <3> QED
      BY <3>1, <3>3, <3>4 DEF FiringSound
  <2>2. CASE l # m
    <3>1. alerts'[l][t] = alerts[l][t] /\ cards'[l][t] = cards[l][t] /\ cycle'[l] = cycle[l]
      BY <1>1, <2>2 DEF LicenceTypeOK
    <3>2. /\ Overwriters(l, t)' = Overwriters(l, t) /\ HaveFired(l, t)' = HaveFired(l, t)
          /\ AboutToFire(l, t)' = AboutToFire(l, t)
      BY <1>1, <3>1 DEF Overwriters, Failing, HaveFired, AboutToFire, Lists
    <3> QED
      BY <1>1, <1>2, <3>1, <3>2, PairUntouched
  <2> QED
    BY <2>1, <2>2
<1>6. FiringsSound'
  BY <1>5 DEF FiringsSound, FiringSound
<1> QED
  BY <1>2, <1>4, <1>6

LEMMA SelectLicencesStep ==
  ASSUME LicenceIInv, NEW r \in LicenceRuns, SelectLicences(r)
  PROVE  LicenceIInv'
<1> USE DEF LicenceIInv
<1> DEFINE found == [l \in Licences |-> IF licence[l] = "active" THEN crossed[l] ELSE 0]
<1>1. /\ licenceStage[r] = "idle"
      /\ licenceStage' = [licenceStage EXCEPT ![r] = "selected"]
      /\ listed' = [listed EXCEPT ![r] = found]
      /\ readCycle' = [readCycle EXCEPT ![r] = cycle]
      /\ UNCHANGED <<licence, crossed, alerts, renewing, cycle, cards, overtaken, licenceFaults>>
  BY DEF SelectLicences
<1>2. found \in [Licences -> Crossed]
  BY LicenceAssumption DEF LicenceTypeOK, Crossed
<1> HIDE DEF found
<1>3. LicenceTypeOK'
  BY <1>1, <1>2 DEF LicenceTypeOK
<1>4. Failing' = Failing
  BY <1>1 DEF Failing, LicenceTypeOK
<1>5. ASSUME NEW l \in Licences, NEW t \in Thresholds PROVE FiringSound(l, t)'
  <2>1. /\ Overwriters(l, t)' = Overwriters(l, t) /\ HaveFired(l, t)' = HaveFired(l, t)
        /\ AboutToFire(l, t)' = AboutToFire(l, t)
    BY <1>1 DEF Overwriters, Failing, HaveFired, AboutToFire, Lists, LicenceTypeOK
  <2> QED
    BY <1>1, <1>3, <2>1, PairUntouched
<1>6. FiringsSound'
  BY <1>5 DEF FiringsSound, FiringSound
<1> QED
  BY <1>1, <1>3, <1>4, <1>6 DEF FailuresPaid

\* The second query: a pair that is marked sent is dropped.
LEMMA DropAlreadySentStep ==
  ASSUME LicenceIInv, NEW r \in LicenceRuns, DropAlreadySent(r)
  PROVE  LicenceIInv'
<1> USE DEF LicenceIInv
<1> DEFINE pending == [l \in Licences |-> IF AlreadySent(l, listed[r][l]) THEN 0 ELSE listed[r][l]]
<1>1. /\ licenceStage[r] = "selected"
      /\ listed' = [listed EXCEPT ![r] = pending]
      /\ licenceStage' = [licenceStage EXCEPT ![r] = IF pending = NoneListed THEN "idle" ELSE "posting"]
      /\ readCycle' = [readCycle EXCEPT ![r] = IF pending = NoneListed THEN NoneListed ELSE readCycle[r]]
      /\ UNCHANGED <<licence, crossed, alerts, renewing, cycle, cards, overtaken, licenceFaults>>
  BY DEF DropAlreadySent
<1>2. pending \in [Licences -> Crossed] /\ NoneListed \in [Licences -> 0..MaxRenewals]
  BY LicenceAssumption DEF LicenceTypeOK, Crossed, NoneListed
<1>3. \A l \in Licences, t \in Thresholds : alerts[l][t] = "sent" => pending[l] # t
  BY LicenceAssumption DEF AlreadySent, LicenceTypeOK, Crossed, Thresholds
<1> HIDE DEF pending
<1>4. LicenceTypeOK'
  BY <1>1, <1>2 DEF LicenceTypeOK
<1>5. Failing' = Failing
  BY <1>1 DEF Failing, LicenceTypeOK
<1>6. ASSUME NEW l \in Licences, NEW t \in Thresholds PROVE FiringSound(l, t)'
  <2>1. /\ Overwriters(l, t)' = Overwriters(l, t) /\ HaveFired(l, t)' = HaveFired(l, t)
    BY <1>1 DEF Overwriters, Failing, HaveFired, Lists, LicenceTypeOK
  <2>2. alerts[l][t] = "sent" => AboutToFire(l, t)' = AboutToFire(l, t)
    BY <1>1, <1>3 DEF AboutToFire, Lists, LicenceTypeOK
  <2> QED
    BY <1>1, <1>4, <2>1, <2>2, PairUntouched
<1>7. FiringsSound'
  BY <1>6 DEF FiringsSound, FiringSound
<1> QED
  BY <1>1, <1>4, <1>5, <1>7 DEF FailuresPaid

\* A card counts once for each pair the run lists in the present cycle.
LEMMA DeliveryTypes ==
  ASSUME LicenceTypeOK, NEW r \in LicenceRuns, CardDelivered(r)
  PROVE  /\ cards' \in [Licences -> [Thresholds -> Nat]]
         /\ \A l \in Licences, t \in Thresholds :
              cards'[l][t] = IF Lists(r, l, t) THEN cards[l][t] + 1 ELSE cards[l][t]
BY DEF LicenceTypeOK, CardDelivered, Lists

LEMMA PostLicencesStep ==
  ASSUME LicenceIInv, NEW r \in LicenceRuns, PostLicences(r)
  PROVE  LicenceIInv'
<1> USE DEF LicenceIInv
<1>1. /\ licenceStage[r] = "posting" /\ licenceStage' = [licenceStage EXCEPT ![r] = "sent"]
      /\ UNCHANGED <<licence, crossed, alerts, listed, readCycle, renewing, cycle, overtaken, licenceFaults>>
  BY DEF PostLicences
<1>2. /\ cards' \in [Licences -> [Thresholds -> Nat]]
      /\ \A l \in Licences, t \in Thresholds :
           cards'[l][t] = IF Lists(r, l, t) THEN cards[l][t] + 1 ELSE cards[l][t]
  BY DeliveryTypes DEF PostLicences
<1>3. LicenceTypeOK'
  BY <1>1, <1>2 DEF LicenceTypeOK
<1>4. Failing' = Failing
  BY <1>1 DEF Failing, LicenceTypeOK
<1>5. ASSUME NEW l \in Licences, NEW t \in Thresholds PROVE FiringSound(l, t)'
  <2>1. Overwriters(l, t)' = Overwriters(l, t)
    BY <1>1, <1>4 DEF Overwriters
  <2>2. CASE ~Lists(r, l, t)
    <3>1. HaveFired(l, t)' = HaveFired(l, t) /\ AboutToFire(l, t)' = AboutToFire(l, t)
      BY <1>1, <2>2 DEF HaveFired, AboutToFire, Lists, LicenceTypeOK
    <3> QED
      BY <1>1, <1>2, <1>3, <2>1, <2>2, <3>1, PairUntouched
  <2>3. CASE Lists(r, l, t)
    <3>1. /\ r \in AboutToFire(l, t) /\ r \notin HaveFired(l, t)
          /\ AboutToFire(l, t)' = AboutToFire(l, t) \ {r}
          /\ HaveFired(l, t)' = HaveFired(l, t) \cup {r}
      <4>1. r \in AboutToFire(l, t) /\ r \notin HaveFired(l, t)
        BY <1>1, <2>3 DEF HaveFired, AboutToFire
      <4>2. AboutToFire(l, t)' = AboutToFire(l, t) \ {r}
        BY <1>1, <2>3 DEF AboutToFire, Lists, LicenceTypeOK
      <4>3. HaveFired(l, t)' = HaveFired(l, t) \cup {r}
        BY <1>1, <2>3 DEF HaveFired, Lists, LicenceTypeOK
      <4> QED BY <4>1, <4>2, <4>3
    <3>2. /\ Cardinality(AboutToFire(l, t)') = Cardinality(AboutToFire(l, t)) - 1
          /\ Cardinality(HaveFired(l, t)') = Cardinality(HaveFired(l, t)) + 1
          /\ Cardinality(AboutToFire(l, t)) \in Nat /\ Cardinality(HaveFired(l, t)) \in Nat
          /\ Cardinality(LicenceRuns) \in Nat
      <4>1. /\ IsFiniteSet(LicenceRuns) /\ AboutToFire(l, t) \in SUBSET LicenceRuns
            /\ HaveFired(l, t) \in SUBSET LicenceRuns /\ Cardinality(LicenceRuns) \in Nat
            /\ Cardinality(AboutToFire(l, t)) \in Nat /\ Cardinality(HaveFired(l, t)) \in Nat
        BY LicenceRunsCounted, LicenceAssumption
      <4>2. Cardinality(AboutToFire(l, t) \ {r}) = Cardinality(AboutToFire(l, t)) - 1
        BY <3>1, <4>1, OneRunMore
      <4>3. Cardinality(HaveFired(l, t) \cup {r}) = Cardinality(HaveFired(l, t)) + 1
        BY <3>1, <4>1, OneRunMore
      <4> QED BY <3>1, <4>1, <4>2, <4>3
    <3>3. EarlierRounds(l, t)' = EarlierRounds(l, t) /\ EarlierRounds(l, t) \in Nat
      BY <1>1, <2>1, RoundsArePaid DEF EarlierRounds
    <3>4. cards'[l][t] = cards[l][t] + 1 /\ cards[l][t] \in Nat
      BY <1>2, <2>3 DEF LicenceTypeOK
    <3>5. FiringSound(l, t)
      BY PerPair
    <3> QED
      BY <1>1, <3>2, <3>3, <3>4, <3>5 DEF FiringSound
  <2> QED
    BY <2>2, <2>3
<1>6. FiringsSound'
  BY <1>5 DEF FiringsSound, FiringSound
<1> QED
  BY <1>1, <1>3, <1>4, <1>6 DEF FailuresPaid

\* A failed attempt: its fault pays for the card that may have arrived, or for the
\* round that the failed run will start.
LEMMA PostLicencesFailsStep ==
  ASSUME LicenceIInv, NEW r \in LicenceRuns, PostLicencesFails(r)
  PROVE  LicenceIInv'
<1> USE DEF LicenceIInv
<1>1. /\ licenceStage[r] = "posting"
      /\ licenceFaults < LicenceFaults /\ licenceFaults' = licenceFaults + 1
      /\ UNCHANGED <<licence, crossed, alerts, listed, readCycle, renewing, cycle, overtaken>>
      /\ licenceFaults \in Nat
  BY DEF PostLicencesFails, LicenceTypeOK
<1>2. /\ cards' \in [Licences -> [Thresholds -> Nat]]
      /\ \A l \in Licences, t \in Thresholds :
           \/ cards'[l][t] = cards[l][t]
           \/ Lists(r, l, t) /\ cards'[l][t] = cards[l][t] + 1
  <2>1. CASE UNCHANGED cards
    BY <2>1 DEF LicenceTypeOK
  <2>2. CASE CardDelivered(r)
    BY <2>2, DeliveryTypes
  <2> QED
    BY <2>1, <2>2 DEF PostLicencesFails
<1>3. \/ licenceStage' = licenceStage
      \/ licenceStage' = [licenceStage EXCEPT ![r] = "failed"]
  BY DEF PostLicencesFails
<1>4. LicenceTypeOK'
  BY <1>1, <1>2, <1>3, LicenceAssumption DEF LicenceTypeOK
<1>5. FailuresPaid'
  <2>1. r \notin Failing /\ (Failing' = Failing \/ Failing' = Failing \cup {r})
    BY <1>1, <1>3 DEF Failing, LicenceTypeOK
  <2>2. Cardinality(Failing \cup {r}) = Cardinality(Failing) + 1
    BY <2>1, FailingCounted, FS_AddElement
  <2> QED
    BY <1>1, <2>1, <2>2, FailingCounted DEF FailuresPaid
<1>6. ASSUME NEW l \in Licences, NEW t \in Thresholds PROVE FiringSound(l, t)'
  <2>0. /\ Cardinality(Overwriters(l, t)) \in Nat /\ Cardinality(LicenceRuns) \in Nat
        /\ Cardinality(AboutToFire(l, t)) \in Nat /\ Cardinality(HaveFired(l, t)) \in Nat
        /\ AboutToFire(l, t) \in SUBSET LicenceRuns /\ HaveFired(l, t) \in SUBSET LicenceRuns
        /\ Overwriters(l, t) \in SUBSET LicenceRuns
        /\ EarlierRounds(l, t) \in Nat /\ cards[l][t] \in Nat /\ FiringSound(l, t)
    BY LicenceRunsCounted, RoundsArePaid, PerPair DEF LicenceTypeOK
  <2>1. CASE licenceStage' = licenceStage
    <3>1. /\ Overwriters(l, t)' = Overwriters(l, t) /\ HaveFired(l, t)' = HaveFired(l, t)
          /\ AboutToFire(l, t)' = AboutToFire(l, t)
      BY <1>1, <2>1 DEF Overwriters, Failing, HaveFired, AboutToFire, Lists
    <3>2. EarlierRounds(l, t)' = EarlierRounds(l, t) + 1 * Cardinality(LicenceRuns)
      BY <1>1, <2>0, <3>1, AnotherRound
    <3>3. 1 <= Cardinality(LicenceRuns)
      <4>1. {} \in SUBSET LicenceRuns /\ r \in LicenceRuns \ {}
        OBVIOUS
      <4> QED
        BY <4>1, FewerRuns, FS_EmptySet, LicenceAssumption
    <3> QED
      BY <1>1, <1>2, <2>0, <3>1, <3>2, <3>3 DEF FiringSound
  <2>2. CASE licenceStage' = [licenceStage EXCEPT ![r] = "failed"] /\ listed[r][l] = t
    <3>1. r \notin Overwriters(l, t) /\ Overwriters(l, t)' = Overwriters(l, t) \cup {r}
      BY <1>1, <2>2 DEF Overwriters, Failing, LicenceTypeOK
    <3>2. Cardinality(Overwriters(l, t)') = Cardinality(Overwriters(l, t)) + 1
      BY <2>0, <3>1, OneRunMore, LicenceAssumption
    <3>3. EarlierRounds(l, t)' = EarlierRounds(l, t) + 0 * Cardinality(LicenceRuns)
      BY <1>1, <2>0, <3>2, AnotherRound
    <3>4. CASE Lists(r, l, t)
      <4>1. /\ r \in AboutToFire(l, t) /\ r \notin HaveFired(l, t)
            /\ AboutToFire(l, t)' = AboutToFire(l, t) \ {r}
            /\ HaveFired(l, t)' = HaveFired(l, t) \cup {r}
        <5>1. r \in AboutToFire(l, t) /\ r \notin HaveFired(l, t)
          BY <1>1, <3>4 DEF HaveFired, AboutToFire
        <5>2. AboutToFire(l, t)' = AboutToFire(l, t) \ {r}
          BY <1>1, <2>2, <3>4 DEF AboutToFire, Lists, LicenceTypeOK
        <5>3. HaveFired(l, t)' = HaveFired(l, t) \cup {r}
          BY <1>1, <2>2, <3>4 DEF HaveFired, Lists, LicenceTypeOK
        <5> QED BY <5>1, <5>2, <5>3
      <4>2. Cardinality(AboutToFire(l, t) \ {r}) = Cardinality(AboutToFire(l, t)) - 1
        BY <2>0, <4>1, OneRunMore, LicenceAssumption
      <4>3. Cardinality(HaveFired(l, t) \cup {r}) = Cardinality(HaveFired(l, t)) + 1
        BY <2>0, <4>1, OneRunMore, LicenceAssumption
      <4> QED
        BY <1>1, <1>2, <2>0, <3>3, <4>1, <4>2, <4>3 DEF FiringSound
    <3>5. CASE ~Lists(r, l, t)
      <4>1. AboutToFire(l, t)' = AboutToFire(l, t) /\ HaveFired(l, t)' = HaveFired(l, t)
        BY <1>1, <2>2, <3>5 DEF HaveFired, AboutToFire, Lists, LicenceTypeOK
      <4> QED
        BY <1>1, <1>2, <2>0, <3>3, <3>5, <4>1 DEF FiringSound
    <3> QED
      BY <3>4, <3>5
  <2>3. CASE licenceStage' = [licenceStage EXCEPT ![r] = "failed"] /\ listed[r][l] # t
    <3>1. /\ Overwriters(l, t)' = Overwriters(l, t) /\ HaveFired(l, t)' = HaveFired(l, t)
          /\ AboutToFire(l, t)' = AboutToFire(l, t)
      BY <1>1, <2>3 DEF Overwriters, Failing, HaveFired, AboutToFire, Lists, LicenceTypeOK
    <3>2. cards'[l][t] = cards[l][t]
      BY <1>2, <2>3 DEF Lists
    <3> QED
      BY <1>1, <1>4, <3>1, <3>2, PairUntouched
  <2> QED
    BY <1>3, <2>1, <2>2, <2>3
<1>7. FiringsSound'
  BY <1>6 DEF FiringsSound, FiringSound
<1> QED
  BY <1>4, <1>5, <1>7

\* The end of a run takes it out of every set.
LEMMA EndLicenceRunTypes ==
  ASSUME LicenceTypeOK, NEW r \in LicenceRuns, EndLicenceRun(r)
  PROVE  /\ licenceStage' \in [LicenceRuns -> {"idle", "selected", "posting", "sent", "failed"}]
         /\ listed' \in [LicenceRuns -> [Licences -> Crossed]]
         /\ readCycle' \in [LicenceRuns -> [Licences -> 0..MaxRenewals]]
         /\ Failing' = Failing \ {r}
         /\ \A l \in Licences, t \in Thresholds : Overwriters(l, t)' = Overwriters(l, t) \ {r}
         /\ UNCHANGED cycle =>
              \A l \in Licences, t \in Thresholds :
                /\ HaveFired(l, t)' = HaveFired(l, t) \ {r}
                /\ AboutToFire(l, t)' = AboutToFire(l, t) \ {r}
<1>1. NoneListed \in [Licences -> Crossed] /\ NoneListed \in [Licences -> 0..MaxRenewals]
  BY LicenceAssumption DEF NoneListed, Crossed
<1> QED
  BY <1>1 DEF LicenceTypeOK, EndLicenceRun, Failing, Overwriters, HaveFired, AboutToFire, Lists

\* The run records its pairs: a sent one ends the round, a failed one starts one.
LEMMA RecordAlertsStep ==
  ASSUME LicenceIInv, NEW r \in LicenceRuns, RecordAlerts(r)
  PROVE  LicenceIInv'
<1> USE DEF LicenceIInv
<1>1. /\ licenceStage[r] \in {"sent", "failed"}
      /\ alerts' = [l \in Licences |-> [t \in Thresholds |->
                      IF listed[r][l] = t THEN licenceStage[r] ELSE alerts[l][t]]]
      /\ overtaken' \in SUBSET (Licences \X Thresholds)
      /\ EndLicenceRun(r)
      /\ UNCHANGED <<licence, crossed, renewing, cycle, cards, licenceFaults>>
  BY DEF RecordAlerts, OvertakenAfter, LicenceTypeOK
<1>2. LicenceTypeOK'
  BY <1>1, EndLicenceRunTypes DEF LicenceTypeOK
<1>3. FailuresPaid'
  <2>1. Failing' \in SUBSET Failing
    BY <1>1, EndLicenceRunTypes
  <2>2. Cardinality(Failing') <= Cardinality(Failing) /\ Cardinality(Failing') \in Nat
    BY <2>1, FailingCounted, FewerRuns
  <2> QED
    BY <1>1, <2>2, FailingCounted DEF FailuresPaid, LicenceTypeOK
<1>4. ASSUME NEW l \in Licences, NEW t \in Thresholds PROVE FiringSound(l, t)'
  <2>0. /\ Cardinality(Overwriters(l, t)) \in Nat /\ Cardinality(LicenceRuns) \in Nat
        /\ Cardinality(AboutToFire(l, t)) \in Nat /\ Cardinality(HaveFired(l, t)) \in Nat
        /\ Cardinality(AboutToFire(l, t)) + Cardinality(HaveFired(l, t)) <= Cardinality(LicenceRuns)
        /\ HaveFired(l, t) \in SUBSET LicenceRuns /\ Overwriters(l, t) \in SUBSET LicenceRuns
        /\ EarlierRounds(l, t) \in Nat /\ cards[l][t] \in Nat /\ FiringSound(l, t)
        /\ licenceFaults \in Nat
    BY LicenceRunsCounted, RoundsArePaid, PerPair DEF LicenceTypeOK
  <2>1. /\ Overwriters(l, t)' = Overwriters(l, t) \ {r}
        /\ HaveFired(l, t)' = HaveFired(l, t) \ {r}
        /\ AboutToFire(l, t)' = AboutToFire(l, t)
    BY <1>1, EndLicenceRunTypes DEF AboutToFire
  <2>2. CASE listed[r][l] = t /\ licenceStage[r] = "sent"
    <3>1. alerts'[l][t] = "sent" /\ cards'[l][t] = cards[l][t]
      BY <1>1, <2>2
    <3>2. Overwriters(l, t)' = Overwriters(l, t)
      BY <2>1, <2>2 DEF Overwriters, Failing
    <3>3. EarlierRounds(l, t)' = EarlierRounds(l, t)
      BY <1>1, <3>2 DEF EarlierRounds
    <3> QED
      BY <2>0, <2>1, <3>1, <3>3 DEF FiringSound
  <2>3. CASE listed[r][l] = t /\ licenceStage[r] = "failed"
    <3>1. alerts'[l][t] = "failed" /\ cards'[l][t] = cards[l][t]
      BY <1>1, <2>3
    <3>2. r \in Overwriters(l, t)
      BY <2>3 DEF Overwriters, Failing
    <3>3. Cardinality(Overwriters(l, t)') = Cardinality(Overwriters(l, t)) - 1
      BY <2>0, <2>1, <3>2, OneRunMore, LicenceAssumption
    <3>4. EarlierRounds(l, t)' = EarlierRounds(l, t) + 1 * Cardinality(LicenceRuns)
      BY <1>1, <2>0, <3>3, AnotherRound
    <3>5. /\ Cardinality(HaveFired(l, t)') \in Nat
          /\ Cardinality(HaveFired(l, t)) <= Cardinality(HaveFired(l, t)') + 1
      BY <2>0, <2>1, OneRunMore, FewerRuns, LicenceAssumption
    <3>6. 1 <= Cardinality(LicenceRuns)
      <4>1. {} \in SUBSET LicenceRuns /\ r \in LicenceRuns \ {}
        OBVIOUS
      <4> QED
        BY <4>1, FewerRuns, FS_EmptySet, LicenceAssumption
    <3> QED
      BY <2>0, <3>1, <3>4, <3>5, <3>6 DEF FiringSound
  <2>4. CASE listed[r][l] # t
    <3>1. alerts'[l][t] = alerts[l][t] /\ cards'[l][t] = cards[l][t]
      BY <1>1, <2>4
    <3>2. Overwriters(l, t)' = Overwriters(l, t) /\ HaveFired(l, t)' = HaveFired(l, t)
      BY <2>1, <2>4 DEF Overwriters, HaveFired, Lists
    <3> QED
      BY <1>1, <1>2, <2>1, <3>1, <3>2, PairUntouched
  <2> QED
    BY <1>1, <2>2, <2>3, <2>4
<1>5. FiringsSound'
  BY <1>4 DEF FiringsSound, FiringSound
<1> QED
  BY <1>2, <1>3, <1>5

\* A run is lost: its fault pays for the cards it will not record.
LEMMA LicenceRunDiesStep ==
  ASSUME LicenceIInv, NEW r \in LicenceRuns, LicenceRunDies(r)
  PROVE  LicenceIInv'
<1> USE DEF LicenceIInv
<1>1. /\ licenceFaults < LicenceFaults /\ licenceFaults' = licenceFaults + 1
      /\ EndLicenceRun(r)
      /\ UNCHANGED <<licence, crossed, alerts, renewing, cycle, cards, overtaken>>
      /\ licenceFaults \in Nat
  BY DEF LicenceRunDies, LicenceTypeOK
<1>2. LicenceTypeOK'
  BY <1>1, EndLicenceRunTypes, LicenceAssumption DEF LicenceTypeOK
<1>3. FailuresPaid'
  <2>1. Failing' \in SUBSET Failing
    BY <1>1, EndLicenceRunTypes
  <2>2. Cardinality(Failing') <= Cardinality(Failing) /\ Cardinality(Failing') \in Nat
    BY <2>1, FailingCounted, FewerRuns
  <2> QED
    BY <1>1, <2>2, FailingCounted DEF FailuresPaid
<1>4. ASSUME NEW l \in Licences, NEW t \in Thresholds PROVE FiringSound(l, t)'
  <2>0. /\ Cardinality(Overwriters(l, t)) \in Nat /\ Cardinality(LicenceRuns) \in Nat
        /\ Cardinality(AboutToFire(l, t)) \in Nat /\ Cardinality(HaveFired(l, t)) \in Nat
        /\ AboutToFire(l, t) \in SUBSET LicenceRuns
        /\ HaveFired(l, t) \in SUBSET LicenceRuns /\ Overwriters(l, t) \in SUBSET LicenceRuns
        /\ EarlierRounds(l, t) \in Nat /\ cards[l][t] \in Nat /\ FiringSound(l, t)
    BY LicenceRunsCounted, RoundsArePaid, PerPair DEF LicenceTypeOK
  <2>1. /\ Overwriters(l, t)' = Overwriters(l, t) \ {r}
        /\ HaveFired(l, t)' = HaveFired(l, t) \ {r}
        /\ AboutToFire(l, t)' = AboutToFire(l, t) \ {r}
    BY <1>1, EndLicenceRunTypes
  <2>2. \/ Cardinality(Overwriters(l, t)') = Cardinality(Overwriters(l, t))
        \/ Cardinality(Overwriters(l, t)') = Cardinality(Overwriters(l, t)) - 1
    <3>1. CASE r \in Overwriters(l, t)
      BY <2>0, <2>1, <3>1, OneRunMore, LicenceAssumption
    <3>2. CASE r \notin Overwriters(l, t)
      <4>1. Overwriters(l, t)' = Overwriters(l, t)
        BY <2>1, <3>2
      <4> QED
        BY <4>1
    <3> QED
      BY <3>1, <3>2
  <2>3. \/ EarlierRounds(l, t)' = EarlierRounds(l, t) + 1 * Cardinality(LicenceRuns)
        \/ EarlierRounds(l, t)' = EarlierRounds(l, t) + 2 * Cardinality(LicenceRuns)
    <3>1. CASE Cardinality(Overwriters(l, t)') = Cardinality(Overwriters(l, t))
      BY <1>1, <2>0, <3>1, AnotherRound
    <3>2. CASE Cardinality(Overwriters(l, t)') = Cardinality(Overwriters(l, t)) - 1
      BY <1>1, <2>0, <3>2, AnotherRound
    <3> QED
      BY <2>2, <3>1, <3>2
  <2>4. /\ Cardinality(HaveFired(l, t)') \in Nat /\ Cardinality(AboutToFire(l, t)') \in Nat
        /\ Cardinality(HaveFired(l, t)) <= Cardinality(HaveFired(l, t)') + 1
        /\ Cardinality(AboutToFire(l, t)') <= Cardinality(AboutToFire(l, t))
    <3>1. /\ HaveFired(l, t)' \in SUBSET LicenceRuns /\ AboutToFire(l, t)' \in SUBSET AboutToFire(l, t)
          /\ IsFiniteSet(AboutToFire(l, t))
      BY <2>0, <2>1, FewerRuns, LicenceAssumption
    <3>2. Cardinality(HaveFired(l, t)) <= Cardinality(HaveFired(l, t) \ {r}) + 1
      BY <2>0, OneRunMore, LicenceAssumption
    <3> QED
      BY <2>1, <3>1, <3>2, FewerRuns, LicenceAssumption
  <2>5. 1 <= Cardinality(LicenceRuns)
    <3>1. {} \in SUBSET LicenceRuns /\ r \in LicenceRuns \ {}
      OBVIOUS
    <3> QED
      BY <3>1, FewerRuns, FS_EmptySet, LicenceAssumption
  <2> QED
    BY <1>1, <2>0, <2>3, <2>4, <2>5 DEF FiringSound
<1>5. FiringsSound'
  BY <1>4 DEF FiringsSound, FiringSound
<1> QED
  BY <1>2, <1>3, <1>5

LEMMA LicenceNextStep == LicenceIInv /\ [LicenceNext]_licenceVars => LicenceIInv'
<1> SUFFICES ASSUME LicenceIInv, [LicenceNext]_licenceVars PROVE LicenceIInv'
  OBVIOUS
<1>1. ASSUME NEW r \in LicenceRuns, LicenceRunStep(r) \/ PostLicencesFails(r) \/ LicenceRunDies(r)
      PROVE  LicenceIInv'
  BY <1>1, SelectLicencesStep, DropAlreadySentStep, PostLicencesStep, RecordAlertsStep,
     PostLicencesFailsStep, LicenceRunDiesStep DEF LicenceRunStep
<1>2. CASE UNCHANGED licenceVars
  <2>1. LicenceTypeOK'
    BY <1>2 DEF licenceVars, job, LicenceIInv, LicenceTypeOK
  <2> QED
    BY <1>2, <2>1, AdministratorStep DEF licenceVars
<1> QED
  BY <1>1, <1>2, LicensingStep, RenewCommitStep DEF LicenceNext

LEMMA LicenceInvariance == LicenceInit /\ [][LicenceNext]_licenceVars => []LicenceIInv
BY InitLicenceIInv, LicenceNextStep, PTL

\* In a licence's cycle each threshold is announced at most once per run that
\* overlaps, and as often again for each post, run or request that was lost.
THEOREM ThresholdsFireOnce == LicenceSpec => []ThresholdFiresOnce
<1>1. LicenceIInv => ThresholdFiresOnce
  <2> SUFFICES ASSUME LicenceIInv, NEW l \in Licences, NEW t \in Thresholds
               PROVE  cards[l][t] <= Cardinality(LicenceRuns) * (1 + licenceFaults)
    BY DEF ThresholdFiresOnce
  <2> DEFINE n == Cardinality(LicenceRuns)
             e == Cardinality(Overwriters(l, t))
  <2>1. /\ n \in Nat /\ e \in Nat /\ licenceFaults \in Nat /\ licenceFaults - e \in Nat
        /\ Cardinality(AboutToFire(l, t)) \in Nat
        /\ Cardinality(HaveFired(l, t)) \in Nat /\ Cardinality(HaveFired(l, t)) <= n
        /\ cards[l][t] \in Nat /\ FiringSound(l, t)
    BY LicenceRunsCounted, RoundsArePaid, PerPair DEF LicenceIInv, LicenceTypeOK
  <2>2. EarlierRounds(l, t) = n * (licenceFaults - e) /\ EarlierRounds(l, t) \in Nat
    BY RoundsArePaid DEF EarlierRounds, LicenceIInv
  <2>3. cards[l][t] <= n + EarlierRounds(l, t)
    BY <2>1, <2>2 DEF FiringSound
  <2>4. n * (1 + licenceFaults) = n + n * (licenceFaults - e) + n * e /\ n * e \in Nat
    <3> HIDE DEF n, e
    <3>1. \A k, f, x \in Nat : f - x \in Nat =>
            k * (1 + f) = k + k * (f - x) + k * x /\ k * x \in Nat
      OBVIOUS
    <3> QED
      BY <2>1, <3>1
  <2> QED
    BY <2>1, <2>2, <2>3, <2>4
<1> QED
  BY LicenceInvariance, <1>1, PTL DEF LicenceSpec

----------------------------------------------------------------------------
(* The four jobs side by side                                              *)

\* Every variable of the four jobs keeps its type in the behaviours that run one
\* of them and leave the others as they begin.
THEOREM JobsTypeCorrect == MCSpec => []TypeOK
<1>1. MCInit => SyncInit /\ DiskInit /\ LicenceInit /\ ExclusionInit
  BY DEF MCInit
<1>2. [MCNext]_allVars => /\ [SyncNext]_syncVars /\ [DiskNext]_diskVars
                          /\ [LicenceNext]_licenceVars /\ [ExclusionNext]_exclusionVars
  BY DEF MCNext, allVars, OnlySync, OnlyDisks, OnlyLicences, OnlyExclusions
<1>3. CountInv /\ DiskIInv /\ LicenceIInv /\ ExclusionIInv => TypeOK
  BY DEF CountInv, DiskIInv, LicenceIInv, ExclusionIInv, TypeOK
<1> QED
  BY <1>1, <1>2, <1>3, CountInit, CountStep, DiskInvariance, LicenceInvariance,
     ExclusionInvariance, PTL DEF MCSpec

=============================================================================
