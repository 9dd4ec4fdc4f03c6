-------------------------- MODULE Processes_proofs --------------------------
(***************************************************************************)
(* Theorems about processes that end and start: uploads and migrations,    *)
(* for any number of uploads, processes and any two releases.              *)
(***************************************************************************)
EXTENDS Boot, Uploads, TLAPS
-----------------------------------------------------------------------------
(***************************************************************************)
(* Processes that start: one migrates at a time.                           *)
(***************************************************************************)

Places == {"down", "migrating", "running", "seeding", "up"}

BootTypes ==
  /\ recorded \subseteq Migrations
  /\ effects \in [Migrations -> Nat]
  /\ image \in [Processes -> FirstRelease .. LastRelease]
  /\ at \in [Processes -> Places]
  /\ pending \in [Processes -> SUBSET Migrations]
  /\ demo \in Nat

(* The recorded migrations are the first r. *)
Prefix == \E r \in Nat : recorded = 1 .. r

Effective == \A m \in Migrations : effects[m] = IF m \in recorded THEN 1 ELSE 0

(* What p has left is the last of its files, and all before it is recorded.  *)
LeftFrom(p, k) ==
  k >= 1 /\ pending[p] = k .. image[p] /\ 1 .. (k - 1) \subseteq recorded

InOrder ==
  \A p \in Processes :
    /\ at[p] \in {"migrating", "running"} => \E k \in Nat : LeftFrom(p, k)
    /\ at[p] = "running" => pending[p] # {}
    /\ at[p] \in {"seeding", "up"} => Files(p) \subseteq recorded

(* Unless it is crowded, who seeds finds the shop empty of demo listings.    *)
Quiet ==
  \/ crowded \/ demo = 0
  \/ demo = 1 /\ \A p \in Processes : at[p] # "seeding"

BootInv == BootTypes /\ Prefix /\ Effective /\ InOrder /\ Quiet

-----------------------------------------------------------------------------
(* The next file of a process is the first it has left. *)
LEMMA LeastOf ==
  ASSUME NEW k \in Nat, NEW n \in Nat, k <= n
  PROVE  (CHOOSE m \in k .. n : \A x \in k .. n : m <= x) = k
<1> DEFINE Least(m) == m \in k .. n /\ \A x \in k .. n : m <= x
<1>1. Least(k)
  OBVIOUS
<1>2. ASSUME NEW m, Least(m) PROVE m = k
  <2>1. m \in k .. n /\ m <= k
    BY <1>1, <1>2
  <2>2. QED
    BY <2>1
<1>3. Least(CHOOSE m : Least(m))
  BY <1>1
<1>4. (CHOOSE m \in k .. n : \A x \in k .. n : m <= x) = CHOOSE m : Least(m)
  OBVIOUS
<1> HIDE DEF Least
<1>5. QED
  BY <1>2, <1>3, <1>4

LEMMA FirstLeft ==
  ASSUME NEW p \in Processes, NEW k \in Nat, NEW n \in Nat,
         pending[p] = k .. n, pending[p] # {}
  PROVE  Next1(p) = k /\ k <= n
<1>1. k <= n
  OBVIOUS
<1>2. QED
  BY <1>1, LeastOf DEF Next1

LEMMA BootInitInv == BootInit => BootInv
<1> SUFFICES ASSUME BootInit PROVE BootInv
  OBVIOUS
<1> USE BootAssumption DEF BootInit
<1>1. BootTypes
  <2>1. FirstRelease \in FirstRelease .. LastRelease
    BY BootAssumption
  <2>2. QED
    BY <2>1 DEF BootTypes, Places
<1>2. recorded = 1 .. 0
  BY DEF BootInit
<1>3. Prefix
  BY <1>2 DEF Prefix
<1>4. Effective /\ InOrder /\ Quiet
  BY DEF Effective, InOrder, Quiet
<1>5. QED
  BY <1>1, <1>3, <1>4 DEF BootInv

(* Committing the first file that is left extends what is recorded by one.  *)
LEMMA PrefixExtends ==
  ASSUME NEW r \in Nat, NEW k \in Nat, k >= 1, 1 .. (k - 1) \subseteq 1 .. r, k \notin 1 .. r
  PROVE  (1 .. r) \cup {k} = 1 .. k
<1>1. r < k
  OBVIOUS
<1>2. k - 1 \in 0 .. r
  <2>1. CASE k = 1
    BY <2>1
  <2>2. CASE k > 1
    <3>1. k - 1 \in 1 .. (k - 1)
      BY <2>2
    <3>2. QED
      BY <3>1
  <2>3. QED
    BY <2>1, <2>2
<1>3. r = k - 1
  BY <1>1, <1>2
<1>4. \A m : m \in (1 .. r) \cup {k} <=> m \in 1 .. k
  BY <1>3
<1>5. QED
  BY <1>4

LEMMA CommitExtends ==
  ASSUME BootInv, NEW p \in Processes, at[p] = "running"
  PROVE  \E k \in Migrations :
           /\ Next1(p) = k /\ LeftFrom(p, k) /\ k <= image[p]
           /\ pending[p] \ {k} = (k + 1) .. image[p]
           /\ k \notin recorded => recorded \cup {k} = 1 .. k
<1>1. PICK k \in Nat : LeftFrom(p, k)
  BY DEF BootInv, InOrder
<1>2. pending[p] # {}
  BY DEF BootInv, InOrder
<1>3. image[p] \in FirstRelease .. LastRelease
  BY DEF BootInv, BootTypes
<1>4. image[p] \in Nat /\ image[p] <= LastRelease /\ LastRelease \in Nat
  BY <1>3, BootAssumption
<1>5. pending[p] = k .. image[p]
  BY <1>1 DEF LeftFrom
<1>6. Next1(p) = k /\ k <= image[p]
  BY <1>2, <1>4, <1>5, FirstLeft
<1>7. k \in Migrations
  BY <1>1, <1>4, <1>6 DEF LeftFrom, Migrations
<1>8. \A m : m \in pending[p] \ {k} <=> m \in (k + 1) .. image[p]
  BY <1>4, <1>5
<1>9. pending[p] \ {k} = (k + 1) .. image[p]
  BY <1>8
<1>10. PICK r \in Nat : recorded = 1 .. r
  BY DEF BootInv, Prefix
<1>11. k \notin recorded => recorded \cup {k} = 1 .. k
  BY <1>1, <1>10, PrefixExtends DEF LeftFrom
<1>12. QED
  BY <1>1, <1>6, <1>7, <1>9, <1>11

-----------------------------------------------------------------------------
(* One step per action, and under it one per conjunct it can disturb.        *)
LEMMA BootStepInv == BootInv /\ [BootNext]_bootVars => BootInv'
<1> SUFFICES ASSUME BootInv, [BootNext]_bootVars PROVE BootInv'
  OBVIOUS
<1> USE DEF Places
<1>0. BootTypes /\ Prefix /\ Effective /\ InOrder /\ Quiet
  BY DEF BootInv
<1>1. ASSUME NEW p \in Processes, Start(p) PROVE BootInv'
  <2>1. Files(p) \ recorded \subseteq Migrations
    BY <1>0, BootAssumption DEF BootTypes, Files, Migrations
  <2>2. BootTypes' /\ Prefix' /\ Effective' /\ Quiet'
    BY <1>1, <1>0, <2>1 DEF BootTypes, Prefix, Effective, Quiet, Start, Moves
  <2>3. \E k \in Nat : k >= 1 /\ Files(p) \ recorded = k .. image[p] /\ 1 .. (k - 1) \subseteq recorded
    <3>1. PICK r \in Nat : recorded = 1 .. r
      BY <1>0 DEF Prefix
    <3>2. image[p] \in Nat
      BY <1>0, BootAssumption DEF BootTypes
    <3>3. \A m : m \in (1 .. image[p]) \ (1 .. r) <=> m \in (r + 1) .. image[p]
      BY <3>2
    <3>4. Files(p) \ recorded = (r + 1) .. image[p]
      BY <3>1, <3>3 DEF Files
    <3>5. 1 .. ((r + 1) - 1) = recorded
      BY <3>1
    <3>6. QED
      BY <3>4, <3>5
  <2>4. InOrder'
    BY <1>1, <1>0, <2>3 DEF BootTypes, InOrder, LeftFrom, Files, Start, Moves
  <2>5. QED
    BY <2>2, <2>4 DEF BootInv
<1>2. ASSUME NEW p \in Processes, RunFile(p) PROVE BootInv'
  BY <1>2, <1>0 DEF BootInv, BootTypes, Prefix, Effective, Quiet, InOrder, LeftFrom, Files,
                        RunFile, Moves
<1>3. ASSUME NEW p \in Processes, CommitFile(p) PROVE BootInv'
  <2>1. PICK k \in Migrations :
          /\ Next1(p) = k /\ LeftFrom(p, k) /\ k <= image[p]
          /\ pending[p] \ {k} = (k + 1) .. image[p]
          /\ k \notin recorded => recorded \cup {k} = 1 .. k
    BY <1>3, CommitExtends DEF CommitFile
  <2>2. CASE k \notin recorded
    <3>1. /\ recorded' = 1 .. k /\ recorded \subseteq recorded' /\ recorded' = recorded \cup {k}
          /\ effects' = [effects EXCEPT ![k] = @ + 1]
          /\ pending' = [pending EXCEPT ![p] = (k + 1) .. image[p]]
          /\ at' = [at EXCEPT ![p] = "migrating"]
          /\ UNCHANGED <<image, demo, wares, account, mishaps, crowded>>
      BY <1>3, <2>1, <2>2 DEF CommitFile, Moves
    <3>2. (k + 1) .. image[p] \subseteq Migrations /\ k \in Nat /\ k >= 1
      BY <1>0, BootAssumption DEF BootTypes, Migrations
    <3>3. recorded' \subseteq Migrations
      BY <1>0, <3>1 DEF BootTypes
    <3>4. BootTypes'
      BY <1>0, <3>1, <3>2, <3>3 DEF BootTypes
    <3>5. Prefix' /\ Quiet'
      BY <1>0, <3>1, <3>2 DEF BootTypes, Prefix, Quiet
    <3>6. Effective'
      BY <1>0, <2>2, <3>1 DEF BootTypes, Effective
    <3>7. pending'[p] = (k + 1) .. image[p] /\ 1 .. ((k + 1) - 1) \subseteq recorded'
      BY <1>0, <3>1, <3>2 DEF BootTypes
    <3>8. LeftFrom(p, k + 1)'
      BY <3>1, <3>2, <3>7 DEF LeftFrom
    <3>9. \A q \in Processes \ {p} :
            /\ at'[q] = at[q] /\ pending'[q] = pending[q]
            /\ \A j \in Nat : LeftFrom(q, j) => LeftFrom(q, j)'
      BY <1>0, <3>1 DEF BootTypes, LeftFrom
    <3>10. at'[p] = "migrating" /\ k + 1 \in Nat
      BY <1>0, <3>1, <3>2 DEF BootTypes
    <3>11. InOrder'
      BY <1>0, <3>1, <3>8, <3>9, <3>10 DEF InOrder, Files
    <3>12. QED
      BY <3>4, <3>5, <3>6, <3>11 DEF BootInv
  <2>3. CASE k \in recorded
    <3>1. Exits(p) /\ UNCHANGED <<recorded, effects, image, demo, wares, account, mishaps, crowded>>
      BY <1>3, <2>1, <2>3 DEF CommitFile
    <3>2. QED
      BY <1>0, <3>1 DEF BootInv, BootTypes, Prefix, Effective, Quiet, InOrder, LeftFrom, Files,
                            Exits, Moves
  <2>4. QED
    BY <2>2, <2>3
<1>4. ASSUME NEW p \in Processes, CountListings(p) PROVE BootInv'
  <2>1. Files(p) \subseteq recorded
    <3>1. PICK k \in Nat : LeftFrom(p, k)
      BY <1>4, <1>0 DEF CountListings, InOrder
    <3>2. image[p] \in Nat
      BY <1>0, BootAssumption DEF BootTypes
    <3>3. image[p] < k
      BY <1>4, <3>1, <3>2 DEF CountListings, LeftFrom
    <3>4. 1 .. image[p] \subseteq 1 .. (k - 1)
      BY <3>1, <3>2, <3>3 DEF LeftFrom
    <3>5. QED
      BY <3>1, <3>4 DEF Files, LeftFrom
  <2>2. BootTypes' /\ Prefix' /\ Effective' /\ InOrder'
    BY <1>4, <1>0, <2>1 DEF BootTypes, Prefix, Effective, InOrder, LeftFrom, Files,
                                CountListings, Moves
  <2>3. Quiet'
    BY <1>4, <1>0 DEF BootTypes, Quiet, CountListings, Moves, Empty
  <2>4. QED
    BY <2>2, <2>3 DEF BootInv
<1>5. ASSUME NEW p \in Processes, Seed(p) PROVE BootInv'
  <2>1. BootTypes'
    <3>1. demo' \in Nat
      BY <1>5, <1>0 DEF BootTypes, Seed
    <3>2. at' \in [Processes -> Places] /\ pending' \in [Processes -> SUBSET Migrations]
      BY <1>5, <1>0 DEF BootTypes, Seed, Moves, Exits
    <3>3. QED
      BY <1>5, <1>0, <3>1, <3>2 DEF BootTypes, Seed
  <2>2. Prefix' /\ Effective'
    BY <1>5, <1>0 DEF Prefix, Effective, Seed
  <2>3. InOrder'
    BY <1>5, <1>0 DEF BootTypes, InOrder, LeftFrom, Files, Seed, Moves, Exits
  <2>4. Quiet'
    <3>1. CASE account = "erased"
      BY <1>5, <1>0, <3>1 DEF BootTypes, Quiet, Seed, Moves, Exits
    <3>2. CASE account # "erased" /\ \E q \in Processes \ {p} : at[q] = "seeding"
      <4>1. crowded'
        BY <1>5, <3>2 DEF Seed
      <4>2. QED
        BY <4>1 DEF Quiet
    <3>3. CASE account # "erased" /\ crowded
      <4>1. crowded'
        BY <1>5, <3>3 DEF Seed
      <4>2. QED
        BY <4>1 DEF Quiet
    <3>4. CASE account # "erased" /\ ~crowded /\ \A q \in Processes \ {p} : at[q] # "seeding"
      <4>1. demo' = demo + 1 /\ at' = [at EXCEPT ![p] = "up"] /\ at[p] = "seeding"
        BY <1>5, <3>4 DEF Seed, Moves
      <4>2. demo = 0
        BY <1>0, <3>4, <4>1 DEF Quiet
      <4>3. QED
        BY <1>0, <3>4, <4>1, <4>2 DEF Quiet, BootTypes
    <3>5. QED
      BY <3>1, <3>2, <3>3, <3>4
  <2>5. QED
    BY <2>1, <2>2, <2>3, <2>4 DEF BootInv
<1>6. ASSUME NEW p \in Processes, NEW release \in Migrations, Stop(p, release) PROVE BootInv'
  <2>1. release \in FirstRelease .. LastRelease
    BY <1>6, <1>0, BootAssumption DEF BootTypes, Stop
  <2>2. QED
    BY <1>6, <1>0, <2>1 DEF BootInv, BootTypes, Prefix, Effective, Quiet, InOrder, LeftFrom,
                                Files, Stop, Exits, Moves
<1>7. ASSUME Publish \/ EraseDemo \/ \E whose \in {"users", "demo"} : RemoveAll(whose)
      PROVE  BootInv'
  <2>1. UNCHANGED <<recorded, effects, image, at, pending, crowded>> /\ demo' \in {0, demo}
    BY <1>7 DEF Publish, EraseDemo, RemoveAll
  <2>2. BootTypes'
    BY <1>0, <2>1 DEF BootTypes
  <2>3. Prefix' /\ Effective' /\ InOrder'
    BY <1>0, <2>1 DEF Prefix, Effective, InOrder, LeftFrom, Files
  <2>4. Quiet'
    <3>1. CASE crowded
      BY <2>1, <3>1 DEF Quiet
    <3>2. CASE ~crowded
      BY <1>0, <2>1, <3>2 DEF Quiet
    <3>3. QED
      BY <3>1, <3>2
  <2>5. QED
    BY <2>2, <2>3, <2>4 DEF BootInv
<1>8. CASE UNCHANGED bootVars
  BY <1>8, <1>0 DEF BootInv, BootTypes, Prefix, Effective, Quiet, InOrder, LeftFrom, Files, bootVars
<1>9. QED
  BY <1>1, <1>2, <1>3, <1>4, <1>5, <1>6, <1>7, <1>8 DEF BootNext, BootStep

------------------------------------------------------------------------------
(* What is recorded is a prefix of the migrations and what a process has   *)
(* still to do is a tail of them, whatever starts, stops and fails.        *)
THEOREM BootCorrect == BootSpec => []BootInv
  BY BootInitInv, BootStepInv, PTL DEF BootSpec

(* However many processes start together, are stopped and are upgraded, a   *)
(* migration is applied once, in order, and before a process that needs it *)
(* serves (migrate.js).                                                    *)
THEOREM MigrationsApplyOnce == BootSpec => []MigratedOnce
<1>1. BootInv => MigratedOnce
  <2> SUFFICES ASSUME BootInv PROVE MigratedOnce
    OBVIOUS
  <2>1. PICK r \in Nat : recorded = 1 .. r
    BY DEF BootInv, Prefix
  <2>2. \A m \in recorded : 1 .. m \subseteq recorded
    BY <2>1
  <2>3. QED
    BY <2>2 DEF MigratedOnce, BootInv, Effective, InOrder
<1>2. QED
  BY <1>1, BootCorrect, PTL

(* The demo data is loaded at most once unless processes seed while others  *)
(* seed or serve (db.js).                                                  *)
THEOREM SeedsOnce == BootSpec => []SeededOnce
<1>1. BootInv => SeededOnce
  BY DEF BootInv, Quiet, SeededOnce
<1>2. QED
  BY <1>1, BootCorrect, PTL
-----------------------------------------------------------------------------
(***************************************************************************)
(* Uploads: a verdict is true of the photo, and the quarantine is emptied. *)
(***************************************************************************)

JobsOf(k) == {j \in Jobs : jobs[j].key = k}

(* A job keeps its key for good; without one nothing is published and no     *)
(* verdict is in; a job past the write has its object.                       *)
JobsKnown ==
  /\ \A j \in Jobs : jobs[j].key = NoKey => jobs[j] = NoJob
  /\ \A j \in Jobs : jobs[j].at \in {"published", "cleaned"} => jobs[j].key \in public
  /\ \A k \in Keys : k \in public \/ row[k] \in Verdicts => JobsOf(k) # {}
  /\ \A k \in Keys : row[k] = "processed" => k \in public

(* A key whose job ran once has one job, which stored no object before its   *)
(* verdict was "processed" but by a write it was told had failed, and is     *)
(* over with the verdict.                                                    *)
OneRun ==
  \A k \in Keys : "rerun" \notin odd[k] =>
    /\ \A i, j \in JobsOf(k) : i = j
    /\ k \in public => "landed" \in odd[k] \/
         \A j \in JobsOf(k) : jobs[j].at \in {"published", "cleaned", "over"}
    /\ row[k] \in Verdicts => \A j \in JobsOf(k) : jobs[j].at = "over"
    /\ row[k] = "failed" => k \notin public \/ "landed" \in odd[k]

(* Quarantine is empty from the deletion on, unless something was left.      *)
Swept ==
  \A k \in Keys : "left" \notin odd[k] =>
    /\ row[k] \in Verdicts => raw[k] = "none"
    /\ \A j \in JobsOf(k) : jobs[j].at \in {"cleaned", "rejecting"} => raw[k] = "none"

UploadsInv == TypeOK /\ JobsKnown /\ OneRun /\ Swept

-----------------------------------------------------------------------------
JobRecords == [key : Keys \cup {NoKey}, queued : BOOLEAN, at : JobAt,
               tries : 0..MaxTries, stalled : BOOLEAN]

OverOrAgain(j) ==
  \/ \E to \in JobAt \ {"idle"} : To(j, to)
  \/ Over(j) \/ Stumble(j)
  \/ jobs' = [jobs EXCEPT ![j].at = "waiting", ![j].stalled = TRUE]

(* A job under way has a key.                                                *)
LEMMA JobHasKey ==
  ASSUME TypeOK, JobsKnown, NEW j \in Jobs, jobs[j].at # "idle"
  PROVE  jobs[j].key \in Keys
  BY DEF TypeOK, JobsKnown, NoJob

(* A step of a job changes this job, and not its key.                        *)
LEMMA JobMoves ==
  ASSUME TypeOK, JobsKnown, NEW j \in Jobs, jobs[j].at # "idle", OverOrAgain(j)
  PROVE  /\ jobs' \in [Jobs -> JobRecords]
         /\ \A i \in Jobs \ {j} : jobs'[i] = jobs[i]
         /\ jobs'[j].key = jobs[j].key /\ jobs'[j].at # "idle"
         /\ Over(j) => jobs'[j].at = "over"
         /\ Stumble(j) => jobs'[j].at \in {"over", "failing", "waiting"}
         /\ \A to \in JobAt : To(j, to) => jobs'[j].at = to
         /\ \A k \in Keys : JobsOf(k)' = JobsOf(k)
<1> USE UploadsAssumption
<1>1. /\ jobs \in [Jobs -> JobRecords] /\ jobs[j] \in JobRecords
      /\ jobs[j].tries \in 0..MaxTries /\ MaxTries \in Nat
  BY DEF TypeOK, JobRecords
<1>2. ASSUME NEW v \in JobRecords, jobs' = [jobs EXCEPT ![j] = v], v.key = jobs[j].key
      PROVE  /\ jobs' \in [Jobs -> JobRecords] /\ jobs'[j] = v
             /\ \A i \in Jobs \ {j} : jobs'[i] = jobs[i]
             /\ \A k \in Keys : JobsOf(k)' = JobsOf(k)
  BY <1>1, <1>2 DEF JobsOf
<1>3. ASSUME NEW to \in JobAt, To(j, to)
      PROVE  \E v \in JobRecords : jobs' = [jobs EXCEPT ![j] = v] /\ v.key = jobs[j].key /\ v.at = to
  <2>1. [jobs[j] EXCEPT !.at = to] \in JobRecords
    BY <1>1 DEF JobRecords
  <2>2. QED
    BY <1>1, <1>3, <2>1 DEF To, JobRecords
<1>4. ASSUME Over(j)
      PROVE  \E v \in JobRecords : jobs' = [jobs EXCEPT ![j] = v] /\ v.key = jobs[j].key /\ v.at = "over"
  <2>1. CASE To(j, "over")
    BY <1>3, <2>1 DEF JobAt
  <2>2. CASE jobs' = [jobs EXCEPT ![j] = [NoJob EXCEPT !.key = jobs[j].key, !.at = "over"]]
    <3>1. NoJob \in JobRecords
      BY DEF JobRecords, NoJob, JobAt
    <3>2. [NoJob EXCEPT !.key = jobs[j].key, !.at = "over"] \in JobRecords
      BY <1>1, <3>1 DEF JobRecords, JobAt
    <3>3. QED
      BY <2>2, <3>1, <3>2 DEF JobRecords
  <2>3. QED
    BY <1>4, <2>1, <2>2 DEF Over
<1>5. ASSUME Stumble(j)
      PROVE  \E v \in JobRecords : /\ jobs' = [jobs EXCEPT ![j] = v] /\ v.key = jobs[j].key
                                   /\ v.at \in {"over", "failing", "waiting"}
  <2>1. CASE Over(j)
    BY <1>4, <2>1
  <2>2. CASE To(j, "failing")
    BY <1>3, <2>2 DEF JobAt
  <2>3. CASE /\ jobs' = [jobs EXCEPT ![j].at = "waiting", ![j].tries = @ + 1]
             /\ jobs[j].tries + 1 < MaxTries
    <3>1. [jobs[j] EXCEPT !.at = "waiting", !.tries = @ + 1] \in JobRecords
      BY <1>1, <2>3 DEF JobRecords, JobAt
    <3>2. jobs' = [jobs EXCEPT ![j] = [jobs[j] EXCEPT !.at = "waiting", !.tries = @ + 1]]
      BY <1>1, <2>3
    <3>3. QED
      BY <1>1, <3>1, <3>2 DEF JobRecords
  <2>4. QED
    BY <1>1, <1>5, <2>1, <2>2, <2>3 DEF Stumble
<1>6. ASSUME jobs' = [jobs EXCEPT ![j].at = "waiting", ![j].stalled = TRUE]
      PROVE  \E v \in JobRecords : /\ jobs' = [jobs EXCEPT ![j] = v] /\ v.key = jobs[j].key
                                   /\ v.at = "waiting"
  <2>1. [jobs[j] EXCEPT !.at = "waiting", !.stalled = TRUE] \in JobRecords
    BY <1>1 DEF JobRecords, JobAt
  <2>2. jobs' = [jobs EXCEPT ![j] = [jobs[j] EXCEPT !.at = "waiting", !.stalled = TRUE]]
    BY <1>1, <1>6
  <2>3. QED
    BY <1>1, <2>1, <2>2 DEF JobRecords
<1>7. \E v \in JobRecords : /\ jobs' = [jobs EXCEPT ![j] = v] /\ v.key = jobs[j].key
                            /\ v.at # "idle"
  BY <1>3, <1>4, <1>5, <1>6 DEF OverOrAgain
<1>8. QED
  BY <1>2, <1>3, <1>4, <1>5, <1>7

-----------------------------------------------------------------------------
LEMMA UploadsInitInv == UploadsInit => UploadsInv
<1> SUFFICES ASSUME UploadsInit PROVE UploadsInv
  OBVIOUS
<1> USE UploadsAssumption DEF UploadsInit
<1>1. NoJob \in JobRecords /\ NoJob.key = NoKey /\ NoJob.at = "idle"
  BY DEF JobRecords, NoJob, JobAt
<1>2. \A k \in Keys : JobsOf(k) = {}
  BY <1>1 DEF JobsOf
<1>3. TypeOK
  BY <1>1 DEF TypeOK, JobRecords, Open, Verdicts, Bytes, Mishaps
<1>4. JobsKnown
  BY <1>1 DEF JobsKnown, Verdicts
<1>5. OneRun /\ Swept
  BY <1>2 DEF OneRun, Swept, Verdicts
<1>6. QED
  BY <1>3, <1>4, <1>5 DEF UploadsInv

(* The upload's own steps and the passing of time: no job moves, no verdict  *)
(* comes or goes, and bytes that land after a job was started are noted.     *)
LEMMA KeyKeeps ==
  ASSUME UploadsInv, NEW k \in Keys,
         \/ CreateUpload(k) \/ Tick(k) \/ PutAdmitted(k) \/ MarkUploaded(k) \/ PutDies(k)
         \/ \E bytes \in Bytes : PutS3(k, bytes) \/ PutWritten(k, bytes)
  PROVE  UploadsInv'
<1> USE DEF UploadsInv, DirectAt
<1>1. jobs' = jobs /\ public' = public /\ driver' = driver
  BY DEF CreateUpload, Tick, PutAdmitted, MarkUploaded, PutDies, PutS3, PutWritten
<1>2. \A l \in Keys : JobsOf(l)' = JobsOf(l)
  BY <1>1 DEF JobsOf
<1>3. CASE CreateUpload(k) \/ Tick(k) \/ PutAdmitted(k) \/ MarkUploaded(k) \/ PutDies(k)
  <2>1. /\ raw' = raw /\ odd' = odd
        /\ \A l \in Keys : row'[l] = row[l] \/ (row'[l] \in Open /\ row[l] \notin Verdicts)
    BY <1>3 DEF CreateUpload, Tick, PutAdmitted, MarkUploaded, PutDies, TypeOK, Open, Verdicts
  <2>2. TypeOK'
    BY <1>1, <1>3, <2>1 DEF CreateUpload, Tick, PutAdmitted, MarkUploaded, PutDies, TypeOK, Open
  <2>3. QED
    BY <1>1, <1>2, <2>1, <2>2 DEF JobsKnown, OneRun, Swept, Open, Verdicts
<1>4. ASSUME NEW bytes \in Bytes, PutS3(k, bytes) \/ PutWritten(k, bytes) PROVE UploadsInv'
  <2>1. row' = row /\ raw' = [raw EXCEPT ![k] = bytes]
    BY <1>4 DEF PutS3, PutWritten, Landed
  <2>2. /\ JobsOf(k) # {} => odd' = [odd EXCEPT ![k] = @ \cup {"left"}]
        /\ JobsOf(k) = {} => odd' = odd
    BY <1>4 DEF PutS3, PutWritten, Landed, JobsOf
  <2>3. \A l \in Keys : /\ odd[l] \subseteq odd'[l] /\ odd'[l] \subseteq odd[l] \cup {"left"}
                        /\ raw'[l] = raw[l] \/ "left" \in odd'[l] \/ JobsOf(l) = {}
    BY <2>1, <2>2 DEF TypeOK
  <2>4. TypeOK'
    BY <1>1, <1>4, <2>1, <2>2 DEF PutS3, PutWritten, TypeOK, Mishaps
  <2>5. QED
    BY <1>1, <1>2, <2>1, <2>3, <2>4 DEF JobsKnown, OneRun, Swept
<1>5. QED
  BY <1>3, <1>4

(* A finalization of a key that has a job is noted as another run.           *)
LEMMA FinalizeKeeps ==
  ASSUME UploadsInv, NEW j \in Jobs, NEW k \in Keys, Finalize(j, k)
  PROVE  UploadsInv'
<1> USE UploadsAssumption DEF UploadsInv
<1>1. PICK v \in JobRecords :
        /\ jobs' = [jobs EXCEPT ![j] = v] /\ v.key = k /\ v.at \in {"waiting", "reading"}
  <2>1. PICK queued \in BOOLEAN :
          jobs' = [jobs EXCEPT ![j] = [NoJob EXCEPT !.key = k, !.queued = queued,
                                        !.at = IF queued THEN "waiting" ELSE "reading"]]
    BY DEF Finalize
  <2>2. NoJob \in JobRecords
    BY DEF JobRecords, NoJob, JobAt
  <2>3. [NoJob EXCEPT !.key = k, !.queued = queued,
                      !.at = IF queued THEN "waiting" ELSE "reading"] \in JobRecords
    BY <2>2 DEF JobRecords, JobAt
  <2>4. QED
    BY <2>1, <2>2, <2>3 DEF JobRecords
<1>2. jobs[j].key = NoKey /\ jobs[j].at = "idle" /\ jobs \in [Jobs -> JobRecords]
  BY DEF Finalize, NoJob, TypeOK, JobRecords
<1>3. /\ jobs' \in [Jobs -> JobRecords] /\ jobs'[j] = v /\ \A i \in Jobs \ {j} : jobs'[i] = jobs[i]
      /\ \A l \in Keys \ {k} : JobsOf(l)' = JobsOf(l)
      /\ JobsOf(k)' = JobsOf(k) \cup {j}
  BY <1>1, <1>2 DEF JobsOf
<1>4. /\ row' = row /\ raw' = raw /\ public' = public /\ driver' = driver /\ age' = age
      /\ puts' = puts /\ row[k] \in Open
  BY DEF Finalize, Admitted
<1>5. /\ JobsOf(k) # {} => odd' = [odd EXCEPT ![k] = @ \cup {"rerun"}]
      /\ JobsOf(k) = {} => odd' = odd
  BY DEF Finalize, JobsOf
<1>6. TypeOK'
  BY <1>3, <1>4, <1>5 DEF TypeOK, JobRecords, Mishaps
<1>7. \A l \in Keys : odd[l] \subseteq odd'[l] /\ odd'[l] \subseteq odd[l] \cup {"rerun"}
  BY <1>5 DEF TypeOK
<1>8. JobsKnown'
  BY <1>1, <1>3, <1>4 DEF JobsKnown
<1>9. OneRun'
  <2>1. ASSUME NEW l \in Keys \ {k} PROVE odd'[l] = odd[l]
    BY <1>5, <2>1 DEF TypeOK
  <2>2. "rerun" \in odd'[k] \/ (JobsOf(k) = {} /\ k \notin public /\ row[k] \notin Verdicts)
    BY <1>4, <1>5 DEF TypeOK, JobsKnown, Open, Verdicts
  <2>3. \A l \in Keys \ {k} : \A i \in JobsOf(l) : jobs'[i] = jobs[i]
    BY <1>2, <1>3 DEF JobsOf
  <2>4. QED
    BY <1>3, <1>4, <2>1, <2>2, <2>3 DEF OneRun, Verdicts
<1>10. Swept'
  BY <1>1, <1>3, <1>4, <1>7 DEF Swept, JobsOf, Open, Verdicts
<1>11. QED
  BY <1>6, <1>8, <1>9, <1>10

(* What a step of a job has to keep of its own key.                          *)
KeyKept(j, k) ==
  /\ jobs'[j].at \in {"published", "cleaned"} => k \in public'
  /\ row'[k] = "processed" => k \in public'
  /\ "rerun" \notin odd'[k] =>
       /\ k \in public' => jobs'[j].at \in {"published", "cleaned", "over"} \/ "landed" \in odd'[k]
       /\ row'[k] \in Verdicts => jobs'[j].at = "over"
       /\ row'[k] = "failed" => k \notin public' \/ "landed" \in odd'[k]
  /\ "left" \notin odd'[k] =>
       /\ row'[k] \in Verdicts => raw'[k] = "none"
       /\ jobs'[j].at \in {"cleaned", "rejecting"} => raw'[k] = "none"

\* It touches nothing else, and takes nothing published or noted back.
TouchesOnly(k) ==
  /\ UNCHANGED <<driver, age, puts>>
  /\ row' \in [Keys -> {"none"} \cup Open \cup Verdicts]
  /\ raw' \in [Keys -> {"none"} \cup Bytes]
  /\ public' \in SUBSET Keys
  /\ odd' \in [Keys -> SUBSET Mishaps]
  /\ \A l \in Keys \ {k} : row'[l] = row[l] /\ raw'[l] = raw[l] /\ odd'[l] = odd[l]
  /\ raw'[k] \in {raw[k], "none"} /\ odd[k] \subseteq odd'[k]
  /\ public \subseteq public' /\ public' \subseteq public \cup {k}

LEMMA JobKeeps ==
  ASSUME UploadsInv, NEW j \in Jobs, jobs[j].at # "idle", OverOrAgain(j),
         TouchesOnly(jobs[j].key), KeyKept(j, jobs[j].key)
  PROVE  UploadsInv'
<1> DEFINE k == jobs[j].key
<1>1. k \in Keys
  BY JobHasKey DEF UploadsInv
<1>2. /\ jobs' \in [Jobs -> JobRecords]
      /\ \A i \in Jobs \ {j} : jobs'[i] = jobs[i]
      /\ jobs'[j].key = k /\ jobs'[j].at # "idle"
      /\ \A l \in Keys : JobsOf(l)' = JobsOf(l)
  BY JobMoves DEF UploadsInv
<1>3. j \in JobsOf(k) /\ \A l \in Keys \ {k} : \A i \in JobsOf(l) : jobs'[i] = jobs[i]
  BY <1>2 DEF JobsOf
<1> HIDE DEF k
<1>4. TouchesOnly(k) /\ KeyKept(j, k)
  BY DEF k
<1>5. TypeOK'
  BY <1>2, <1>4 DEF TouchesOnly, UploadsInv, TypeOK, JobRecords
<1>6. JobsKnown'
  BY <1>1, <1>2, <1>3, <1>4, UploadsAssumption DEF TouchesOnly, KeyKept, UploadsInv, JobsKnown
<1>7. OneRun'
  <2>1. ASSUME NEW l \in Keys, "rerun" \notin odd'[l]
        PROVE  /\ \A i, h \in JobsOf(l) : i = h
               /\ l \in public' => "landed" \in odd'[l] \/
                    \A i \in JobsOf(l) : jobs'[i].at \in {"published", "cleaned", "over"}
               /\ row'[l] \in Verdicts => \A i \in JobsOf(l) : jobs'[i].at = "over"
               /\ row'[l] = "failed" => l \notin public' \/ "landed" \in odd'[l]
    <3>1. "rerun" \notin odd[l]
      BY <1>4, <2>1 DEF TouchesOnly
    <3>2. \A i, h \in JobsOf(l) : i = h
      BY <3>1 DEF UploadsInv, OneRun
    <3>3. CASE l = k
      BY <1>3, <1>4, <2>1, <3>2, <3>3 DEF KeyKept
    <3>4. CASE l # k
      BY <1>3, <1>4, <3>1, <3>2, <3>4 DEF TouchesOnly, UploadsInv, OneRun
    <3>5. QED
      BY <3>3, <3>4
  <2>2. QED
    BY <1>2, <2>1 DEF OneRun
<1>8. Swept'
  <2>1. ASSUME NEW l \in Keys, "left" \notin odd'[l]
        PROVE  /\ row'[l] \in Verdicts => raw'[l] = "none"
               /\ \A i \in JobsOf(l) : jobs'[i].at \in {"cleaned", "rejecting"} => raw'[l] = "none"
    <3>1. "left" \notin odd[l]
      BY <1>4, <2>1 DEF TouchesOnly
    <3>2. CASE l = k
      BY <1>2, <1>4, <2>1, <3>1, <3>2 DEF KeyKept, TouchesOnly, UploadsInv, Swept, JobsOf
    <3>3. CASE l # k
      BY <1>3, <1>4, <3>1, <3>3 DEF TouchesOnly, UploadsInv, Swept
    <3>4. QED
      BY <3>2, <3>3
  <2>2. QED
    BY <1>2, <2>1 DEF Swept
<1>9. QED
  BY <1>5, <1>6, <1>7, <1>8 DEF UploadsInv

(* What the invariant says of the key of a job.                              *)
LEMMA KeyNow ==
  ASSUME UploadsInv, NEW j \in Jobs, jobs[j].at # "idle"
  PROVE  LET k == jobs[j].key IN
         /\ k \in Keys /\ row[k] \in {"none"} \cup Open \cup Verdicts
         /\ raw[k] \in {"none"} \cup Bytes /\ odd[k] \subseteq Mishaps
         /\ jobs[j].at \in {"published", "cleaned"} => k \in public
         /\ row[k] = "processed" => k \in public
         /\ "rerun" \notin odd[k] =>
              /\ k \in public => jobs[j].at \in {"published", "cleaned", "over"} \/ "landed" \in odd[k]
              /\ row[k] \in Verdicts => jobs[j].at = "over"
              /\ row[k] = "failed" => k \notin public \/ "landed" \in odd[k]
         /\ "left" \notin odd[k] =>
              /\ row[k] \in Verdicts => raw[k] = "none"
              /\ jobs[j].at \in {"cleaned", "rejecting"} => raw[k] = "none"
  BY JobHasKey DEF UploadsInv, TypeOK, JobsKnown, OneRun, Swept, JobsOf

LEMMA JobStepKeeps ==
  ASSUME UploadsInv, NEW j \in Jobs, JobStep(j) \/ RecordFails(j) \/ ProcessDies(j)
  PROVE  UploadsInv'
<1> DEFINE k == jobs[j].key
<1>1. jobs[j].at # "idle"
  BY DEF JobStep, Take, ReadObject, WriteObject, Clean, Reject, MarkProcessed, MarkFailed,
     StorageFails, RecordFails, ProcessDies
<1>2. ASSUME OverOrAgain(j)
      PROVE  /\ Over(j) => jobs'[j].at = "over"
             /\ Stumble(j) => jobs'[j].at \in {"over", "failing", "waiting"}
             /\ \A to \in JobAt : To(j, to) => jobs'[j].at = to
  BY <1>1, <1>2, JobMoves DEF UploadsInv
<1>3. TypeOK
  BY DEF UploadsInv
<1> USE <1>1, KeyNow, JobKeeps DEF TouchesOnly, KeyKept, OverOrAgain
<1>4. CASE Take(j)
  BY <1>2, <1>3, <1>4 DEF Take, JobAt, TypeOK
<1>5. CASE ReadObject(j)
  BY <1>2, <1>3, <1>5 DEF ReadObject, JobAt, Bytes, TypeOK
<1>6. CASE StorageFails(j)
  <2>1. /\ OverOrAgain(j) /\ jobs'[j].at \in {"over", "failing", "waiting"}
        /\ jobs[j].at \in {"reading", "photo"} /\ UNCHANGED <<driver, row, age, raw, puts>>
    BY <1>2, <1>6 DEF StorageFails
  <2>2. CASE UNCHANGED <<public, odd>>
    BY <1>3, <2>1, <2>2 DEF TypeOK
  <2>3. CASE public' = public \cup {k} /\ odd' = [odd EXCEPT ![k] = @ \cup {"landed"}]
    <3>1. /\ odd' \in [Keys -> SUBSET Mishaps] /\ \A l \in Keys \ {k} : odd'[l] = odd[l]
          /\ odd[k] \subseteq odd'[k] /\ odd'[k] \subseteq odd[k] \cup {"landed"}
          /\ "landed" \in odd'[k] /\ public' \in SUBSET Keys /\ k \in public'
      BY <1>3, <2>3 DEF TypeOK, Mishaps
    <3>2. "rerun" \notin odd'[k] => row[k] \notin Verdicts
      BY <2>1, <3>1
    <3>3. QED
      BY <1>3, <2>1, <2>3, <3>1, <3>2 DEF TypeOK, Verdicts
  <2>4. QED
    BY <1>6, <2>2, <2>3 DEF StorageFails, Note
<1>7. CASE WriteObject(j)
  <2>1. /\ OverOrAgain(j) /\ jobs'[j].at = "published" /\ k \in public' /\ jobs[j].at = "photo"
        /\ public' \in SUBSET Keys
    BY <1>2, <1>3, <1>7 DEF WriteObject, JobAt, TypeOK
  <2>2. "rerun" \notin odd[k] => row[k] \notin Verdicts
    BY <2>1
  <2>3. QED
    BY <1>3, <1>7, <2>1, <2>2 DEF WriteObject, TypeOK, Verdicts
<1>8. CASE Clean(j)
  BY <1>2, <1>3, <1>8 DEF Clean, DeleteObject, Note, JobAt, TypeOK, Mishaps
<1>9. CASE Reject(j)
  <2>1. OverOrAgain(j) /\ jobs'[j].at = "rejecting" /\ jobs[j].at = "junk"
    BY <1>2, <1>9 DEF Reject, JobAt
  <2>2. /\ raw' \in [Keys -> {"none"} \cup Bytes] /\ odd' \in [Keys -> SUBSET Mishaps]
        /\ \A l \in Keys \ {k} : raw'[l] = raw[l] /\ odd'[l] = odd[l]
        /\ raw'[k] \in {raw[k], "none"} /\ odd[k] \subseteq odd'[k]
        /\ raw'[k] = "none" \/ "left" \in odd'[k]
    BY <1>3, <1>9 DEF Reject, DeleteObject, Note, TypeOK, Mishaps
  <2>3. UNCHANGED <<driver, row, age, public, puts>>
    BY <1>9 DEF Reject, DeleteObject
  <2>4. QED
    BY <1>3, <2>1, <2>2, <2>3 DEF TypeOK, Verdicts
<1>10. CASE MarkProcessed(j)
  BY <1>2, <1>3, <1>10 DEF MarkProcessed, Verdict, Verdicts, TypeOK
<1>11. CASE MarkFailed(j)
  <2>1. /\ OverOrAgain(j) /\ jobs'[j].at = "over" /\ jobs[j].at \in {"rejecting", "failing"}
        /\ row' = [row EXCEPT ![k] = "failed"] /\ UNCHANGED <<driver, age, raw, public, puts>>
    BY <1>2, <1>11 DEF MarkFailed, Verdict
  <2>2. /\ odd' \in [Keys -> SUBSET Mishaps] /\ \A l \in Keys \ {k} : odd'[l] = odd[l]
        /\ odd[k] \subseteq odd'[k] /\ odd'[k] \subseteq odd[k] \cup {"left"}
        /\ jobs[j].at = "failing" => "left" \in odd'[k]
    BY <1>3, <1>11 DEF MarkFailed, Note, TypeOK, Mishaps
  <2>3. "rerun" \notin odd[k] => k \notin public \/ "landed" \in odd[k]
    BY <2>1
  <2>4. "left" \notin odd'[k] => raw[k] = "none"
    BY <2>1, <2>2
  <2>5. QED
    BY <1>3, <2>1, <2>2, <2>3, <2>4 DEF TypeOK, Verdicts
<1>12. CASE RecordFails(j)
  <2>1. /\ UNCHANGED <<driver, row, age, raw, public, puts>>
        /\ jobs[j].at \in {"cleaned", "rejecting", "failing"}
        /\ \/ Stumble(j) /\ odd' = [odd EXCEPT ![k] = @ \cup {"rerun"}]
           \/ Over(j) /\ odd' = [odd EXCEPT ![k] = @ \cup {"lost"}]
    BY <1>12 DEF RecordFails, Note
  <2>2. /\ odd' \in [Keys -> SUBSET Mishaps] /\ \A l \in Keys \ {k} : odd'[l] = odd[l]
        /\ odd[k] \subseteq odd'[k] /\ odd'[k] \subseteq odd[k] \cup {"rerun", "lost"}
    BY <1>3, <2>1 DEF TypeOK, Mishaps
  <2>3. CASE Stumble(j) /\ odd' = [odd EXCEPT ![k] = @ \cup {"rerun"}]
    <3>1. OverOrAgain(j) /\ jobs'[j].at \in {"over", "failing", "waiting"} /\ "rerun" \in odd'[k]
      BY <1>2, <1>3, <2>3 DEF TypeOK
    <3>2. QED
      BY <1>3, <2>1, <2>2, <3>1 DEF TypeOK
  <2>4. CASE Over(j)
    <3>1. OverOrAgain(j) /\ jobs'[j].at = "over"
      BY <1>2, <2>4
    <3>2. QED
      BY <1>3, <2>1, <2>2, <3>1 DEF TypeOK
  <2>5. QED
    BY <2>1, <2>3, <2>4
<1>13. CASE ProcessDies(j)
  <2>1. /\ UNCHANGED <<driver, row, age, raw, public, puts>>
        /\ \/ /\ jobs' = [jobs EXCEPT ![j].at = "waiting", ![j].stalled = TRUE]
              /\ odd' = [odd EXCEPT ![k] = @ \cup {"rerun"}]
           \/ Over(j) /\ odd' = [odd EXCEPT ![k] = @ \cup {"lost"}]
    BY <1>13 DEF ProcessDies, Note
  <2>2. /\ odd' \in [Keys -> SUBSET Mishaps] /\ \A l \in Keys \ {k} : odd'[l] = odd[l]
        /\ odd[k] \subseteq odd'[k] /\ odd'[k] \subseteq odd[k] \cup {"rerun", "lost"}
    BY <1>3, <2>1 DEF TypeOK, Mishaps
  <2>3. CASE Over(j)
    <3>1. OverOrAgain(j) /\ jobs'[j].at = "over"
      BY <1>2, <2>3
    <3>2. QED
      BY <1>3, <2>1, <2>2, <3>1 DEF TypeOK
  <2>4. CASE ~Over(j)
    <3>1. jobs' = [jobs EXCEPT ![j].at = "waiting", ![j].stalled = TRUE] /\ "rerun" \in odd'[k]
      BY <1>3, <2>1, <2>4 DEF TypeOK
    <3>2. OverOrAgain(j) /\ jobs'[j].at = "waiting"
      BY <1>3, <3>1 DEF TypeOK
    <3>3. QED
      BY <1>3, <2>1, <2>2, <3>1, <3>2 DEF TypeOK
  <2>5. QED
    BY <2>3, <2>4
<1>14. QED
  BY <1>4, <1>5, <1>6, <1>7, <1>8, <1>9, <1>10, <1>11, <1>12, <1>13 DEF JobStep

LEMMA UploadsStepInv == UploadsInv /\ [UploadsNext]_uploadsVars => UploadsInv'
<1> SUFFICES ASSUME UploadsInv, [UploadsNext]_uploadsVars PROVE UploadsInv'
  OBVIOUS
<1>1. CASE UNCHANGED uploadsVars
  BY <1>1 DEF uploadsVars, UploadsInv, TypeOK, JobsKnown, OneRun, Swept, JobsOf
<1>2. CASE UploadsNext
  BY <1>2, KeyKeeps, FinalizeKeeps, JobStepKeeps DEF UploadsNext
<1>3. QED
  BY <1>1, <1>2

(* An upload whose job ran once has one job, and from its deletion on the    *)
(* quarantine is empty unless something was left: the inductive invariant.   *)
THEOREM UploadsCorrect == UploadsSpec => []UploadsInv
  BY UploadsInitInv, UploadsStepInv, PTL DEF UploadsSpec

(* "processed" has a public image, and "failed" has none unless the job ran  *)
(* more than once or storage took the image and did not say so.              *)
THEOREM VerdictsAreTrue == UploadsSpec => []VerdictIsTrue
<1>1. UploadsInv => VerdictIsTrue
  BY DEF UploadsInv, JobsKnown, OneRun, VerdictIsTrue
<1>2. QED
  BY <1>1, UploadsCorrect, PTL

(* No copy with the position of a home stays in quarantine after the verdict *)
(* unless its deletion failed, it landed late or storage failed throughout.  *)
THEOREM QuarantineEmptied == UploadsSpec => []RawIsGone
<1>1. UploadsInv => RawIsGone
  BY DEF UploadsInv, Swept, RawIsGone
<1>2. QED
  BY <1>1, UploadsCorrect, PTL
=============================================================================
