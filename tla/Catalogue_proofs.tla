-------------------------- MODULE Catalogue_proofs --------------------------
(***************************************************************************)
(* What holds of the catalogue for all instruments, answers, windows and   *)
(* numbers of days. Types hold however many jobs overlap. While none do,   *)
(* no instrument is lost, a venue without snapshots in the window keeps    *)
(* its rows, no listing day moves later, what was written on its day is in *)
(* the catalogue after the next undisturbed promotion whose window did not *)
(* come out short, a full job's ends are those of all snapshots, and a     *)
(* thin latest day closes nobody.                                          *)
(***************************************************************************)
EXTENDS Catalogue, TLAPS, WellFoundedInduction, FiniteSetTheorems

\* Jobs do not overlap; two that do can lose instruments.
OneJob == \A j, k \in Job : j = k

\* A job's state is a record of these fields.
Shaped(r) ==
    r = [pc |-> r.pc, mode |-> r.mode, prev |-> r.prev, since |-> r.since, todo |-> r.todo,
         seen |-> r.seen, df |-> r.df, calm |-> r.calm, day |-> r.day, short |-> r.short]
JobShape == job = [j \in Job |-> job[j]] /\ \A j \in Job : Shaped(job[j])

\* Only a promotion makes a catalogue, and it leaves its mtime.
Dated == today \in Nat \ {0} /\ cat.at \in Nat /\ (cat.at = 0 => cat.rows = Empty)

\* What an incremental job may change of the catalogue.
Outages(r) == \A i \in DOMAIN cat.rows : DaysOf(r.seen, VenueOf[i]) = {} => r.df[i] = cat.rows[i]

\* What a job carries besides the snapshots it has read: the catalogue it started from
\* until it rolls up, the roll-up onto that catalogue from then on.
Carries(r) ==
    /\ r.pc = "walk" /\ r.mode = "incremental" => r.prev = cat.rows
    /\ r.pc \in {"decide", "stage", "copy"} => DOMAIN cat.rows \subseteq DOMAIN r.df
    /\ r.pc \in {"decide", "stage", "copy"} /\ r.mode = "incremental" => Outages(r)
    /\ r.pc = "copy" => staged \subseteq {r.df}

IInv == JobShape /\ Dated /\ \A j \in Job : Carries(job[j])

-----------------------------------------------------------------------------

\* An instrument of a venue without rows is merged as it was.
LEMMA MergeOutage ==
    ASSUME NEW prev, NEW seen, NEW since, NEW close \in BOOLEAN,
           NEW i \in DOMAIN prev, DaysOf(seen, VenueOf[i]) = {}
    PROVE  MergeIncremental(prev, Build(seen), since, close)[i] = prev[i]
  <1>1. \A r \in seen : VenueOf[r[2]] # VenueOf[i]
    BY DEF DaysOf
  <1>2. DOMAIN Build(seen) = {r[2] : r \in seen}
    BY DEF Build
  <1>3. i \notin DOMAIN Build(seen) /\ VenueOf[i] \notin Venues(Build(seen))
    BY <1>1, <1>2 DEF Venues
  <1>. QED
    BY <1>3 DEF MergeIncremental

\* What a step of the snapshots leaves of the jobs.
LEMMA DisturbKeeps ==
    ASSUME JobShape, Disturb
    PROVE  /\ JobShape'
           /\ \A j \in Job : /\ job'[j].pc = job[j].pc /\ job'[j].mode = job[j].mode
                             /\ job'[j].prev = job[j].prev /\ job'[j].seen = job[j].seen
                             /\ job'[j].df = job[j].df
  <1>1. \A j \in Job : job'[j] = IF job[j].pc = "idle" THEN job[j] ELSE [job[j] EXCEPT !.calm = FALSE]
    BY DEF Disturb
  <1>2. ASSUME NEW j \in Job
        PROVE  /\ Shaped(job'[j])
               /\ job'[j].pc = job[j].pc /\ job'[j].mode = job[j].mode
               /\ job'[j].prev = job[j].prev /\ job'[j].seen = job[j].seen
               /\ job'[j].df = job[j].df
    <2>1. Shaped(job[j])
      BY DEF JobShape
    <2>2. CASE job[j].pc = "idle"
      BY <1>1, <2>1, <2>2
    <2>3. CASE job[j].pc # "idle"
      <3>. DEFINE r == job[j]
                  n == [r EXCEPT !.calm = FALSE]
      <3>1. job'[j] = n /\ Shaped(r)
        BY <1>1, <2>1, <2>3
      <3>. HIDE DEF r
      <3>2. /\ Shaped(n) /\ n.pc = r.pc /\ n.mode = r.mode /\ n.prev = r.prev
            /\ n.seen = r.seen /\ n.df = r.df
        BY <3>1 DEF Shaped
      <3>. HIDE DEF n
      <3>. QED
        BY <3>1, <3>2 DEF r
    <2>. QED
      BY <2>2, <2>3
  <1>. QED
    BY <1>2 DEF JobShape, Disturb

LEMMA InitIInv == Init => IInv
  BY DEF Init, IInv, JobShape, Shaped, Dated, Carries, Idle, Empty

\* A step of the snapshots.
LEMMA WorldIInv ==
    ASSUME IInv, Disturb, UNCHANGED <<today, cat, staged>>
    PROVE  IInv'
  BY DisturbKeeps DEF IInv, Dated, Carries, Outages

\* A job whose next state r' is well shaped keeps the shape of all of them.
LEMMA OnlyJob ==
    ASSUME JobShape, OneJob, NEW j \in Job, NEW r, Shaped(r), job' = [job EXCEPT ![j] = r]
    PROVE  JobShape' /\ job'[j] = r /\ \A k \in Job : k = j
  <1>1. job'[j] = r /\ \A k \in Job : k = j
    BY DEF JobShape, OneJob
  <1>2. job' = [k \in Job |-> job'[k]]
    BY DEF JobShape
  <1>. QED
    BY <1>1, <1>2 DEF JobShape, Shaped

\* A step that leaves the catalogue, the date and the temp object, and whose job still
\* carries what it has to.
LEMMA StepIInv ==
    ASSUME IInv, OneJob, NEW j \in Job, NEW r, Shaped(r), Carries(r),
           job' = [job EXCEPT ![j] = r], UNCHANGED <<today, cat, staged>>
    PROVE  IInv'
  <1>1. JobShape' /\ job'[j] = r /\ \A k \in Job : k = j
    BY OnlyJob DEF IInv
  <1>2. Carries(job[j])'
    BY <1>1 DEF Carries, Outages
  <1>. QED
    BY <1>1, <1>2 DEF IInv, Dated

LEMMA BeginIInv ==
    ASSUME IInv, OneJob, NEW j \in Job, NEW m \in {"incremental", "full"}, NEW mtime, Begin(j, m, mtime)
    PROVE  IInv'
  <1>. DEFINE mode == IF cat.at = 0 THEN "full" ELSE m
              since == IF mode = "incremental" THEN WindowStart(mtime) ELSE 1
              new == [Idle EXCEPT !.pc = "walk", !.mode = mode, !.since = since, !.day = today,
                                  !.prev = IF mode = "incremental" THEN cat.rows ELSE Empty,
                                  !.todo = {c \in {CellOf(r) : r \in rows} : c[1] >= since},
                                  !.short = mode = "incremental" /\ since > WindowStart({cat.at})]
  <1>1. job' = [job EXCEPT ![j] = new] /\ UNCHANGED <<today, cat, staged>>
    BY DEF Begin, World
  <1>. DEFINE prev == IF mode = "incremental" THEN cat.rows ELSE Empty
              todo == {c \in {CellOf(r) : r \in rows} : c[1] >= since}
              short == mode = "incremental" /\ since > WindowStart({cat.at})
              n1 == [Idle EXCEPT !.pc = "walk"]
              n2 == [n1 EXCEPT !.mode = mode]
              n3 == [n2 EXCEPT !.since = since]
              n4 == [n3 EXCEPT !.day = today]
              n5 == [n4 EXCEPT !.prev = prev]
              n6 == [n5 EXCEPT !.todo = todo]
              n7 == [n6 EXCEPT !.short = short]
  <1>0. new = n7
    OBVIOUS
  <1>. HIDE DEF new, mode, since, prev, todo, short, n7
  <1>z. Shaped(Idle)
    BY DEF Idle, Shaped
  <1>a. Shaped(n1) /\ n1.pc = "walk"
    BY <1>z DEF Shaped
  <1>. HIDE DEF n1
  <1>b. Shaped(n2) /\ n2.pc = "walk" /\ n2.mode = mode
    BY <1>a DEF Shaped
  <1>. HIDE DEF n2
  <1>c. Shaped(n3) /\ n3.pc = "walk" /\ n3.mode = mode
    BY <1>b DEF Shaped
  <1>. HIDE DEF n3
  <1>d. Shaped(n4) /\ n4.pc = "walk" /\ n4.mode = mode
    BY <1>c DEF Shaped
  <1>. HIDE DEF n4
  <1>e. Shaped(n5) /\ n5.pc = "walk" /\ n5.mode = mode /\ n5.prev = prev
    BY <1>d DEF Shaped
  <1>. HIDE DEF n5
  <1>f. Shaped(n6) /\ n6.pc = "walk" /\ n6.mode = mode /\ n6.prev = prev
    BY <1>e DEF Shaped
  <1>. HIDE DEF n6
  <1>g. Shaped(n7) /\ n7.pc = "walk" /\ n7.mode = mode /\ n7.prev = prev
    BY <1>f DEF n7, Shaped
  <1>2. Shaped(new) /\ new.pc = "walk" /\ (new.mode = "incremental" => new.prev = cat.rows)
    BY <1>0, <1>g DEF prev
  <1>3. Carries(new)
    BY <1>2 DEF Carries
  <1>. QED
    BY <1>1, <1>2, <1>3, StepIInv

LEMMA LoadIInv ==
    ASSUME IInv, OneJob, NEW j \in Job, Load(j)
    PROVE  IInv'
  <1>1. PICK c \in job[j].todo :
            job' = [job EXCEPT ![j].todo = @ \ {c}, ![j].seen = @ \cup Snapshot(c)]
    BY DEF Load
  <1>. DEFINE new == [job[j] EXCEPT !.todo = @ \ {c}, !.seen = @ \cup Snapshot(c)]
  <1>2. job[j].pc = "walk" /\ UNCHANGED <<today, cat, staged>>
    BY DEF Load, World
  <1>3. Shaped(job[j]) /\ Carries(job[j]) /\ JobShape
    BY DEF IInv, JobShape
  <1>4. job' = [job EXCEPT ![j] = new]
    BY <1>1, <1>3 DEF JobShape, Shaped
  <1>. DEFINE old == job[j]
              left == job[j].todo \ {c}
              more == job[j].seen \cup Snapshot(c)
              n1 == [old EXCEPT !.todo = left]
              n2 == [n1 EXCEPT !.seen = more]
  <1>0. new = n2 /\ Shaped(old)
    BY <1>3
  <1>. HIDE DEF new, old, left, more, n2
  <1>a. Shaped(n1) /\ n1.pc = old.pc /\ n1.mode = old.mode /\ n1.prev = old.prev
    BY <1>0 DEF Shaped
  <1>. HIDE DEF n1
  <1>b. Shaped(n2) /\ n2.pc = old.pc /\ n2.mode = old.mode /\ n2.prev = old.prev
    BY <1>a DEF n2, Shaped
  <1>5. Shaped(new) /\ new.pc = "walk" /\ new.mode = job[j].mode /\ new.prev = job[j].prev
    BY <1>0, <1>2, <1>b DEF old
  <1>6. Carries(new)
    BY <1>2, <1>3, <1>5 DEF Carries
  <1>. QED
    BY <1>2, <1>4, <1>5, <1>6, StepIInv

\* The roll-up holds the catalogue it is going to replace, as it is by then.
LEMMA RollUpIInv ==
    ASSUME IInv, OneJob, NEW j \in Job, RollUp(j)
    PROVE  IInv'
  <1>. DEFINE new == [job[j] EXCEPT !.pc = "decide", !.df = MergeOn(j), !.prev = Empty]
              w == Build(job[j].seen)
  <1>1. job[j].pc = "walk" /\ UNCHANGED <<today, cat, staged>>
    BY DEF RollUp, World
  <1>2. Shaped(job[j]) /\ Carries(job[j]) /\ JobShape
    BY DEF IInv, JobShape
  <1>3. job' = [job EXCEPT ![j] = new]
    BY <1>2 DEF RollUp, JobShape, Shaped
  <1>. DEFINE f == MergeOn(j)
              old == job[j]
              n1 == [old EXCEPT !.pc = "decide"]
              n2 == [n1 EXCEPT !.df = f]
              n3 == [n2 EXCEPT !.prev = Empty]
  <1>0. new = n3 /\ Shaped(old)
    BY <1>2
  <1>. HIDE DEF new, f, old, n3
  <1>b. Shaped(n1) /\ n1.pc = "decide" /\ n1.mode = old.mode /\ n1.seen = old.seen
    BY <1>0 DEF Shaped
  <1>. HIDE DEF n1
  <1>c. Shaped(n2) /\ n2.pc = "decide" /\ n2.mode = old.mode /\ n2.seen = old.seen /\ n2.df = f
    BY <1>b DEF Shaped
  <1>. HIDE DEF n2
  <1>d. Shaped(n3) /\ n3.pc = "decide" /\ n3.mode = old.mode /\ n3.seen = old.seen /\ n3.df = f
    BY <1>c DEF n3, Shaped
  <1>4. /\ Shaped(new) /\ new.pc = "decide" /\ new.mode = job[j].mode
        /\ new.seen = job[j].seen /\ new.df = MergeOn(j)
    BY <1>0, <1>d DEF f, old
  <1>5. job[j].mode = "incremental" => MergeOn(j) = MergeIncremental(cat.rows, w, job[j].since, TRUE)
    BY <1>1, <1>2 DEF MergeOn, Carries
  <1>6. job[j].mode # "incremental" /\ cat.at # 0 => MergeOn(j) = MergeIncremental(cat.rows, w, 1, FALSE)
    BY DEF MergeOn
  <1>7. cat.at = 0 => DOMAIN cat.rows = {}
    BY DEF IInv, Dated, Empty
  <1>. HIDE DEF w
  <1>8. DOMAIN cat.rows \subseteq DOMAIN MergeOn(j)
    <2>1. CASE job[j].mode = "incremental"
      BY <1>5, <2>1 DEF MergeIncremental
    <2>2. CASE job[j].mode # "incremental" /\ cat.at # 0
      BY <1>6, <2>2 DEF MergeIncremental
    <2>3. CASE cat.at = 0
      BY <1>7, <2>3
    <2>. QED
      BY <2>1, <2>2, <2>3
  <1>9. job[j].mode = "incremental" => Outages(new)
    <2>. SUFFICES ASSUME job[j].mode = "incremental", NEW i \in DOMAIN cat.rows,
                         DaysOf(job[j].seen, VenueOf[i]) = {}
                  PROVE  MergeOn(j)[i] = cat.rows[i]
      BY <1>4 DEF Outages
    <2>. DEFINE prev == cat.rows
                seen == job[j].seen
                close == TRUE
    <2>0. i \in DOMAIN prev /\ DaysOf(seen, VenueOf[i]) = {} /\ close \in BOOLEAN
      OBVIOUS
    <2>. HIDE DEF prev, seen, close
    <2>1. MergeIncremental(prev, Build(seen), job[j].since, close)[i] = prev[i]
      BY <2>0, MergeOutage
    <2>. USE DEF prev, seen, close
    <2>. QED
      BY <1>5, <2>1 DEF w
  <1>10. Carries(new)
    BY <1>4, <1>8, <1>9 DEF Carries
  <1>. QED
    BY <1>1, <1>3, <1>4, <1>10, StepIInv

LEMMA DecideIInv ==
    ASSUME IInv, OneJob, NEW j \in Job, Decide(j)
    PROVE  IInv'
  <1>. DEFINE to == [job[j] EXCEPT !.pc = "stage"]
  <1>1. Shaped(job[j]) /\ Carries(job[j]) /\ JobShape /\ job[j].pc = "decide"
    BY DEF IInv, JobShape, Decide
  <1>2. UNCHANGED <<today, cat, staged>>
    BY DEF Decide, World
  <1>3. job' = [job EXCEPT ![j] = to] \/ job' = [job EXCEPT ![j] = Idle]
    BY <1>1 DEF Decide, JobShape
  <1>4. /\ Shaped(to) /\ to.pc = "stage" /\ to.mode = job[j].mode
        /\ to.seen = job[j].seen /\ to.df = job[j].df
    BY <1>1 DEF Shaped
  <1>. HIDE DEF to
  <1>5. Carries(to)
    BY <1>1, <1>4 DEF Carries, Outages
  <1>6. Shaped(Idle) /\ Carries(Idle)
    BY DEF Idle, Shaped, Carries
  <1>. QED
    BY <1>2, <1>3, <1>4, <1>5, <1>6, StepIInv

LEMMA StageIInv ==
    ASSUME IInv, OneJob, NEW j \in Job, Stage(j)
    PROVE  IInv'
  <1>. DEFINE to == [job[j] EXCEPT !.pc = "copy"]
  <1>1. Shaped(job[j]) /\ Carries(job[j]) /\ JobShape /\ job[j].pc = "stage"
    BY DEF IInv, JobShape, Stage
  <1>2. UNCHANGED <<today, cat>> /\ staged' = {job[j].df}
    BY DEF Stage, World
  <1>3. job' = [job EXCEPT ![j] = to]
    BY <1>1 DEF Stage, JobShape
  <1>4. /\ Shaped(to) /\ to.pc = "copy" /\ to.mode = job[j].mode
        /\ to.seen = job[j].seen /\ to.df = job[j].df
    BY <1>1 DEF Shaped
  <1>. HIDE DEF to
  <1>5. JobShape' /\ job'[j] = to /\ \A k \in Job : k = j
    BY <1>1, <1>3, <1>4, OnlyJob
  <1>6. Carries(job[j])'
    BY <1>1, <1>2, <1>4, <1>5 DEF Carries, Outages
  <1>. QED
    BY <1>2, <1>5, <1>6 DEF IInv, Dated

\* After the promotion the job carries nothing any more.
LEMMA CopyIInv ==
    ASSUME IInv, OneJob, NEW j \in Job, Copy(j)
    PROVE  IInv'
  <1>. DEFINE to == [job[j] EXCEPT !.pc = "clean"]
  <1>1. Shaped(job[j]) /\ JobShape /\ today \in Nat \ {0} /\ today' = today
    BY DEF IInv, JobShape, Dated, Copy, World
  <1>2. PICK df \in staged : cat' = [rows |-> df, at |-> today, drift |-> Drifts(job[j])]
    BY DEF Copy
  <1>3. job' = [job EXCEPT ![j] = to]
    BY <1>1 DEF Copy, JobShape
  <1>4. Shaped(to) /\ to.pc = "clean"
    BY <1>1 DEF Shaped
  <1>. HIDE DEF to
  <1>5. JobShape' /\ job'[j] = to /\ \A k \in Job : k = j
    BY <1>1, <1>3, <1>4, OnlyJob
  <1>6. Carries(job[j])'
    BY <1>4, <1>5 DEF Carries
  <1>7. Dated'
    BY <1>1, <1>2 DEF Dated
  <1>. QED
    BY <1>5, <1>6, <1>7 DEF IInv

\* A job that ends, whether it deletes the temp object or dies.
LEMMA EndIInv ==
    ASSUME IInv, OneJob, NEW j \in Job, Clean(j) \/ Die(j)
    PROVE  IInv'
  <1>1. Shaped(Idle) /\ JobShape /\ job' = [job EXCEPT ![j] = Idle] /\ UNCHANGED <<today, cat>>
    BY DEF IInv, Idle, Shaped, Clean, Die, World
  <1>2. JobShape' /\ job'[j] = Idle /\ \A k \in Job : k = j
    BY <1>1, OnlyJob
  <1>3. Carries(job[j])'
    BY <1>2 DEF Carries, Idle
  <1>. QED
    BY <1>1, <1>2, <1>3 DEF IInv, Dated

LEMMA NextDayIInv ==
    ASSUME IInv, NextDay
    PROVE  IInv'
  BY DEF IInv, NextDay, JobShape, Dated, Carries, Outages

LEMMA StutterIInv ==
    ASSUME IInv, UNCHANGED vars
    PROVE  IInv'
  BY DEF IInv, vars, JobShape, Dated, Carries, Outages

LEMMA NextIInv ==
    ASSUME IInv, OneJob, [Next]_vars
    PROVE  IInv'
  <1>1. ASSUME NEW S \in Answers, Capture(S)
        PROVE  IInv'
    BY <1>1, WorldIInv DEF Capture
  <1>2. ASSUME NEW d \in Day, NEW S \in Answers, Backfill(d, S)
        PROVE  IInv'
    BY <1>2, WorldIInv DEF Backfill
  <1>3. ASSUME NEW c \in Day \X Venue, Prune(c)
        PROVE  IInv'
    BY <1>3, WorldIInv DEF Prune
  <1>4. ASSUME NEW j \in Job, Step(j)
        PROVE  IInv'
    BY <1>4, BeginIInv, LoadIInv, RollUpIInv, DecideIInv, StageIInv, CopyIInv, EndIInv DEF Step
  <1>. QED
    BY <1>1, <1>2, <1>3, <1>4, NextDayIInv, StutterIInv DEF Next

-----------------------------------------------------------------------------

\* Only a promotion changes the catalogue.
LEMMA OnlyCopy ==
    ASSUME [Next]_vars
    PROVE  (\E j \in Job : Copy(j)) \/ UNCHANGED cat
  BY DEF Next, vars, Step, Capture, Backfill, Prune, NextDay, Begin, Load, RollUp, Decide, Stage,
         Clean, Die

LEMMA CopyNeverLoses ==
    ASSUME IInv, NEW j \in Job, Copy(j)
    PROVE  DOMAIN cat.rows \subseteq DOMAIN cat'.rows
  <1>1. Carries(job[j]) /\ job[j].pc = "copy"
    BY DEF IInv, Copy
  <1>2. PICK df \in staged : cat' = [rows |-> df, at |-> today, drift |-> Drifts(job[j])]
    BY DEF Copy
  <1>3. df = job[j].df /\ cat'.rows = df
    BY <1>1, <1>2 DEF Carries
  <1>. QED
    BY <1>1, <1>3 DEF Carries

LEMMA CopyKeepsOutages ==
    ASSUME IInv, NEW j \in Job, Copy(j), job[j].mode = "incremental",
           NEW i \in DOMAIN cat.rows, DaysOf(job[j].seen, VenueOf[i]) = {}
    PROVE  cat'.rows[i] = cat.rows[i]
  <1>1. Carries(job[j]) /\ job[j].pc = "copy"
    BY DEF IInv, Copy
  <1>2. PICK df \in staged : cat' = [rows |-> df, at |-> today, drift |-> Drifts(job[j])]
    BY DEF Copy
  <1>3. df = job[j].df /\ cat'.rows = df
    BY <1>1, <1>2 DEF Carries
  <1>. QED
    BY <1>1, <1>3 DEF Carries, Outages

\* When jobs do not overlap, no instrument leaves the catalogue, whatever is captured,
\* backfilled or deleted meanwhile, and wherever a job dies (NeverLost): the temp object a
\* job copies holds its own roll-up, and a roll-up holds all of the catalogue it replaces.
THEOREM NeverLostSafe ==
    ASSUME OneJob
    PROVE  Spec => NeverLost
  <1>1. IInv /\ [Next]_vars => [DOMAIN cat.rows \subseteq DOMAIN cat'.rows]_vars
    BY OnlyCopy, CopyNeverLoses
  <1>2. Init => IInv
    BY InitIInv
  <1>3. IInv /\ [Next]_vars => IInv'
    BY NextIInv
  <1>. QED
    BY <1>1, <1>2, <1>3, PTL DEF Spec, NeverLost

\* When jobs do not overlap, an incremental job changes nothing of the instruments of a
\* venue without a snapshot among those it read (OutageNotDelisting).
THEOREM OutageSafe ==
    ASSUME OneJob
    PROVE  Spec => OutageNotDelisting
  <1>. DEFINE Kept == \A j \in Job : Copy(j) /\ job[j].mode = "incremental" =>
                 \A i \in DOMAIN cat.rows :
                     DaysOf(job[j].seen, VenueOf[i]) = {} => cat'.rows[i] = cat.rows[i]
  <1>1. IInv /\ [Next]_vars => [Kept]_vars
    BY CopyKeepsOutages
  <1>2. Init => IInv
    BY InitIInv
  <1>3. IInv /\ [Next]_vars => IInv'
    BY NextIInv
  <1>. QED
    BY <1>1, <1>2, <1>3, PTL DEF Spec, OutageNotDelisting

-----------------------------------------------------------------------------
(* Types.  A row's dates are the minima and maxima of sets of days, which  *)
(* exist because the order of the naturals is well founded.                *)

LEMMA NatMin ==
    ASSUME NEW T \in SUBSET Nat, T # {}
    PROVE  \E x \in T : \A y \in T : x <= y
  <1>. DEFINE R == OpToRel(<, Nat)
  <1>1. IsWellFoundedOn(R, Nat)
    BY NatLessThanWellFounded
  <1>2. R = {ss \in Nat \X Nat : ss[1] < ss[2]}
    BY DEF OpToRel
  <1>. HIDE DEF R
  <1>3. PICK x \in T : \A y \in T : ~ (<<y, x>> \in R)
    BY <1>1, WFMin
  <1>4. ASSUME NEW y \in T PROVE x <= y
    <2>1. x \in Nat /\ y \in Nat
      OBVIOUS
    <2>2. ~ (y < x)
      BY <1>2, <1>3, <2>1
    <2>. QED
      BY <2>1, <2>2
  <1>. QED
    BY <1>4

LEMMA MinIs ==
    ASSUME NEW T \in SUBSET Int, T # {}, NEW low \in Int, \A y \in T : low <= y
    PROVE  Min(T) \in T /\ \A y \in T : Min(T) <= y
  <1>. DEFINE U == {y - low : y \in T}
  <1>0. \A y \in T : y - low \in Nat
    <2>. SUFFICES ASSUME NEW y \in T PROVE y - low \in Nat
      OBVIOUS
    <2>1. y \in Int
      OBVIOUS
    <2>. QED
      BY <2>1
  <1>1. U \in SUBSET Nat /\ U # {}
    BY <1>0
  <1>2. PICK u \in U : \A w \in U : u <= w
    BY <1>1, NatMin
  <1>3. PICK x \in T : u = x - low
    OBVIOUS
  <1>4. ASSUME NEW y \in T PROVE x <= y
    <2>1. x \in Int /\ y \in Int /\ x - low <= y - low
      BY <1>2, <1>3
    <2>. QED
      BY <2>1
  <1>. QED
    BY <1>4 DEF Min

LEMMA MaxIs ==
    ASSUME NEW T \in SUBSET Int, T # {}, NEW high \in Int, \A y \in T : y <= high
    PROVE  Max(T) \in T /\ \A y \in T : y <= Max(T)
  <1>. DEFINE U == {high - y : y \in T}
  <1>0. \A y \in T : high - y \in Nat
    <2>. SUFFICES ASSUME NEW y \in T PROVE high - y \in Nat
      OBVIOUS
    <2>1. y \in Int
      OBVIOUS
    <2>. QED
      BY <2>1
  <1>1. U \in SUBSET Nat /\ U # {}
    BY <1>0
  <1>2. PICK u \in U : \A w \in U : u <= w
    BY <1>1, NatMin
  <1>3. PICK x \in T : u = high - x
    OBVIOUS
  <1>4. ASSUME NEW y \in T PROVE x >= y
    <2>1. x \in Int /\ y \in Int /\ high - x <= high - y
      BY <1>2, <1>3
    <2>. QED
      BY <2>1
  <1>5. \E z \in T : \A y \in T : z >= y
    BY <1>4
  <1>6. Max(T) \in T /\ \A y \in T : Max(T) >= y
    BY <1>5 DEF Max
  <1>7. ASSUME NEW y \in T PROVE y <= Max(T)
    <2>1. y \in Int /\ Max(T) \in Int /\ Max(T) >= y
      BY <1>6
    <2>. QED
      BY <2>1
  <1>. QED
    BY <1>6, <1>7

LEMMA MinOfTwo ==
    ASSUME NEW a \in Int, NEW b \in Int
    PROVE  Min({a, b}) \in Int /\ Min({a, b}) <= a /\ Min({a, b}) <= b
  <1>1. PICK low \in {a, b} : low <= a /\ low <= b
    OBVIOUS
  <1>2. Min({a, b}) \in {a, b} /\ \A y \in {a, b} : Min({a, b}) <= y
    BY <1>1, MinIs
  <1>. QED
    BY <1>2

\* The catalogues.
Cats == UNION {[D -> Row] : D \in SUBSET Instrument}

LEMMA CatsAre == \A f : f \in Cats <=> IsCatalogue(f)
  BY DEF Cats, IsCatalogue

LEMMA EmptyIsCat == Empty \in Cats
  BY DEF Cats, Empty

LEMMA BuildIsCat ==
    ASSUME NEW seen \in SUBSET (Day \X Instrument)
    PROVE  Build(seen) \in Cats
  <1>. DEFINE D == {r[2] : r \in seen}
              days(i) == {r[1] : r \in {s \in seen : s[2] = i}}
              from(i) == Min(days(i) \cup {Listed[i]})
              to(i) == CASE Ends[i] # Active -> Ends[i]
                         [] Ends[i] = Active /\ Max(days(i)) >= VenueLastFullDay(seen, VenueOf[i]) -> Active
                         [] OTHER -> Max(days(i))
  <1>1. Build(seen) = [i \in D |-> [from |-> from(i), to |-> to(i)]]
    BY DEF Build
  <1>2. D \in SUBSET Instrument
    OBVIOUS
  <1>3. ASSUME NEW i \in D
        PROVE  from(i) \in Int /\ to(i) \in Int \cup {Active}
    <2>1. /\ days(i) \in SUBSET Int /\ days(i) # {}
          /\ \A d \in days(i) : 1 <= d /\ d <= MaxDay
      BY DEF Day
    <2>2. Listed[i] \in Int /\ Ends[i] \in Int \cup {Active} /\ MaxDay \in Int
      BY <1>2, CatalogueAssumption
    <2>3. Max(days(i)) \in Int
      <3>. HIDE DEF days
      <3>. QED
        BY <2>1, <2>2, MaxIs
    <2>4. from(i) \in Int
      <3>. DEFINE S == days(i) \cup {Listed[i]}
      <3>1. PICK low \in Int : low <= 1 /\ low <= Listed[i]
        <4>1. CASE Listed[i] <= 1
          BY <2>2, <4>1
        <4>2. CASE 1 <= Listed[i]
          BY <2>2, <4>2
        <4>. QED
          BY <2>2, <4>1, <4>2
      <3>2. \A y \in S : low <= y
        <4>. TAKE y \in S
        <4>1. y \in Int /\ (1 <= y \/ y = Listed[i])
          BY <2>1, <2>2
        <4>. QED
          BY <3>1, <4>1, <2>2
      <3>3. S \in SUBSET Int /\ S # {}
        BY <2>1, <2>2
      <3>. HIDE DEF S
      <3>4. Min(S) \in Int
        BY <3>2, <3>3, MinIs
      <3>. QED
        BY <3>4 DEF S
    <2>5. to(i) \in {Ends[i], Active, Max(days(i))} /\ (Ends[i] # Active \/ to(i) # Ends[i] \/ to(i) = Active)
      <3>. HIDE DEF days
      <3>. QED
        OBVIOUS
    <2>. QED
      BY <2>2, <2>3, <2>4, <2>5
  <1>4. Build(seen) \in [D -> Row]
    <2>. HIDE DEF D, from, to
    <2>. QED
      BY <1>1, <1>3 DEF Row
  <1>. QED
    BY <1>2, <1>4 DEF Cats

LEMMA MergeIsCat ==
    ASSUME NEW prev \in Cats, NEW window \in Cats, NEW since \in Int, NEW close
    PROVE  MergeIncremental(prev, window, since, close) \in Cats
  <1>. DEFINE D == DOMAIN prev \cup DOMAIN window
              f == MergeIncremental(prev, window, since, close)
  <1>1. /\ \A i \in DOMAIN prev : prev[i] \in Row
        /\ \A i \in DOMAIN window : window[i] \in Row
        /\ D \in SUBSET Instrument
    BY DEF Cats
  <1>2. DOMAIN f = D /\ f = [i \in D |-> f[i]]
    BY DEF MergeIncremental
  <1>3. ASSUME NEW i \in D PROVE f[i] \in Row
    <2>1. CASE i \notin DOMAIN prev
      BY <1>1, <2>1 DEF MergeIncremental
    <2>2. CASE i \in DOMAIN prev /\ i \in DOMAIN window
      <3>1. f[i] = [window[i] EXCEPT !.from = Min({window[i].from, prev[i].from})]
        BY <2>2 DEF MergeIncremental
      <3>2. Min({window[i].from, prev[i].from}) \in Int
        BY <1>1, <2>2, MinOfTwo DEF Row
      <3>3. window[i] \in Row
        BY <1>1, <2>2
      <3>. QED
        BY <3>1, <3>2, <3>3 DEF Row
    <2>3. CASE i \in DOMAIN prev /\ i \notin DOMAIN window
      <3>1. f[i] = prev[i] \/ f[i] = [prev[i] EXCEPT !.to = since - 1]
        BY <2>3 DEF MergeIncremental
      <3>2. prev[i] \in Row
        BY <1>1, <2>3
      <3>. QED
        BY <3>1, <3>2 DEF Row
    <2>. QED
      BY <2>1, <2>2, <2>3
  <1>4. f \in [D -> Row]
    <2>. HIDE DEF D, f
    <2>. QED
      BY <1>2, <1>3
  <1>. QED
    BY <1>1, <1>4 DEF Cats

JobType == [pc : {"idle", "walk", "decide", "stage", "copy", "clean"},
            mode : {"incremental", "full"}, prev : Cats, since : Int,
            todo : SUBSET (Day \X Venue), seen : SUBSET (Day \X Instrument),
            df : Cats, calm : BOOLEAN, day : Day, short : BOOLEAN]

\* TypeOK, with the catalogues and the jobs as members of sets.
Typed ==
    /\ today \in Day /\ rows \in SUBSET (Day \X Instrument) /\ late \in SUBSET (Day \X Venue)
    /\ edits \in 0..MaxEdits /\ started \in 0..MaxJobs
    /\ cat \in [rows : Cats, at : Nat, drift : BOOLEAN]
    /\ staged \in SUBSET Cats
    /\ job \in [Job -> JobType]

LEMMA TypedImplies == Typed => TypeOK
  <1>. SUFFICES ASSUME Typed PROVE TypeOK
    OBVIOUS
  <1>1. IsCatalogue(cat.rows) /\ cat.at \in Nat /\ cat.drift \in BOOLEAN /\ \A df \in staged : IsCatalogue(df)
    BY CatsAre DEF Typed
  <1>2. ASSUME NEW j \in Job
        PROVE  /\ job[j].pc \in {"idle", "walk", "decide", "stage", "copy", "clean"}
               /\ job[j].mode \in {"incremental", "full"} /\ job[j].since \in Int /\ job[j].day \in Day
               /\ IsCatalogue(job[j].prev) /\ IsCatalogue(job[j].df)
               /\ job[j].todo \subseteq Day \X Venue /\ job[j].seen \subseteq Day \X Instrument
               /\ job[j].calm \in BOOLEAN /\ job[j].short \in BOOLEAN
    <2>1. job[j] \in JobType
      BY DEF Typed
    <2>. QED
      BY <2>1, CatsAre DEF JobType
  <1>. QED
    BY <1>1, <1>2 DEF TypeOK, Typed

LEMMA DayTyped == 1 \in Day /\ Day \subseteq Nat
  BY CatalogueAssumption DEF Day

LEMMA IdleTyped == Idle \in JobType
  <1>1. {} \in SUBSET (Day \X Venue) /\ {} \in SUBSET (Day \X Instrument)
    OBVIOUS
  <1>. QED
    BY <1>1, DayTyped, EmptyIsCat DEF Idle, JobType

LEMMA InitTyped == Init => Typed
  <1>. SUFFICES ASSUME Init PROVE Typed
    OBVIOUS
  <1>1. 0 \in 0..MaxEdits /\ 0 \in 0..MaxJobs
    BY CatalogueAssumption
  <1>2. cat \in [rows : Cats, at : Nat, drift : BOOLEAN]
    BY EmptyIsCat DEF Init
  <1>. QED
    BY <1>1, <1>2, IdleTyped, DayTyped DEF Init, Typed

LEMMA DisturbTyped ==
    ASSUME Typed, Disturb
    PROVE  job' \in [Job -> JobType]
  <1>1. ASSUME NEW j \in Job
        PROVE  (IF job[j].pc = "idle" THEN job[j] ELSE [job[j] EXCEPT !.calm = FALSE]) \in JobType
    <2>1. job[j] \in JobType
      BY DEF Typed
    <2>. QED
      BY <2>1 DEF JobType
  <1>. QED
    BY <1>1 DEF Disturb

LEMMA PutTyped ==
    ASSUME Typed, NEW d \in Day, NEW S \in Answers, Put(d, S)
    PROVE  rows' \in SUBSET (Day \X Instrument)
  <1>1. S \subseteq Instrument
    BY CatalogueAssumption
  <1>2. rows' \subseteq rows \cup ({d} \X S)
    BY DEF Put
  <1>. QED
    BY <1>1, <1>2 DEF Typed

LEMMA EditsTyped ==
    ASSUME Typed, edits < MaxEdits, edits' = edits + 1
    PROVE  edits' \in 0..MaxEdits
  BY CatalogueAssumption DEF Typed

LEMMA WorldTyped ==
    ASSUME Typed,
           \/ \E S \in Answers : Capture(S)
           \/ \E d \in Day, S \in Answers : Backfill(d, S)
           \/ \E c \in Day \X Venue : Prune(c)
           \/ NextDay
    PROVE  Typed'
  <1>1. ASSUME NEW S \in Answers, Capture(S)
        PROVE  Typed'
    <2>1. today \in Day
      BY DEF Typed
    <2>2. rows' \in SUBSET (Day \X Instrument) /\ job' \in [Job -> JobType]
      BY <1>1, <2>1, PutTyped, DisturbTyped DEF Capture
    <2>. QED
      BY <1>1, <2>2 DEF Capture, Typed
  <1>2. ASSUME NEW d \in Day, NEW S \in Answers, Backfill(d, S)
        PROVE  Typed'
    <2>1. rows' \in SUBSET (Day \X Instrument) /\ job' \in [Job -> JobType]
      BY <1>2, PutTyped, DisturbTyped DEF Backfill
    <2>2. \A i \in S : CellOf(<<d, i>>) \in Day \X Venue
      BY CatalogueAssumption DEF CellOf
    <2>3. late' \in SUBSET (Day \X Venue)
      BY <1>2, <2>2 DEF Backfill, Typed
    <2>4. edits' \in 0..MaxEdits
      BY <1>2, EditsTyped DEF Backfill
    <2>. QED
      BY <1>2, <2>1, <2>3, <2>4 DEF Backfill, Typed
  <1>3. ASSUME NEW c \in Day \X Venue, Prune(c)
        PROVE  Typed'
    <2>1. job' \in [Job -> JobType] /\ edits' \in 0..MaxEdits
      BY <1>3, DisturbTyped, EditsTyped DEF Prune
    <2>. QED
      BY <1>3, <2>1 DEF Prune, Typed
  <1>4. ASSUME NextDay
        PROVE  Typed'
    <2>1. today' \in Day
      BY <1>4, CatalogueAssumption DEF NextDay, Typed, Day
    <2>. QED
      BY <1>4, <2>1 DEF NextDay, Typed
  <1>. QED
    BY <1>1, <1>2, <1>3, <1>4

\* A step of a job that changes its own state only.
LEMMA JobTyped ==
    ASSUME Typed, NEW j \in Job, NEW r \in JobType, job' = [job EXCEPT ![j] = r],
           UNCHANGED <<World, cat, staged>>, started' \in 0..MaxJobs
    PROVE  Typed'
  <1>1. job' \in [Job -> JobType]
    BY DEF Typed
  <1>. QED
    BY <1>1 DEF Typed, World

\* A window begins at least the minimum before today, and with the mtime of the previous
\* catalogue at least a margin before that.
LEMMA WindowIs ==
    ASSUME Typed, NEW mtime \in {{cat.at}, {}}
    PROVE  /\ WindowStart(mtime) \in Int /\ WindowStart(mtime) <= today
           /\ cat.at \in mtime => WindowStart(mtime) <= cat.at - Margin
  <1>. DEFINE b(at) == (today - at) + Margin
              T == {WindowMin} \cup {b(at) : at \in mtime}
  <1>1. WindowMin \in Int /\ WindowMin >= 0 /\ Margin \in Int /\ today \in Int /\ cat.at \in Int
    BY CatalogueAssumption DEF Typed, Day
  <1>2. b(cat.at) \in Int /\ today - b(cat.at) = cat.at - Margin
    BY <1>1
  <1>3. WindowStart(mtime) = today - Max(T)
    BY DEF WindowStart
  <1>4. WindowMin \in T /\ T \subseteq {WindowMin, b(cat.at)} /\ (cat.at \in mtime => b(cat.at) \in T)
    OBVIOUS
  <1>. HIDE DEF b, T
  <1>5. PICK high \in {WindowMin, b(cat.at)} : WindowMin <= high /\ b(cat.at) <= high
    BY <1>1, <1>2
  <1>6. T \in SUBSET Int /\ T # {} /\ high \in Int /\ \A y \in T : y <= high
    BY <1>1, <1>2, <1>4, <1>5
  <1>7. Max(T) \in Int /\ \A y \in T : y <= Max(T)
    BY <1>6, MaxIs
  <1>8. PICK width \in Int : width = Max(T)
    BY <1>7
  <1>9. WindowStart(mtime) = today - width /\ WindowMin <= width /\ (cat.at \in mtime => b(cat.at) <= width)
    BY <1>3, <1>4, <1>7, <1>8
  <1>10. cat.at \in mtime => today - width <= cat.at - Margin
    BY <1>1, <1>2, <1>9
  <1>11. today - width \in Int /\ today - width <= today
    BY <1>1, <1>9
  <1>. QED
    BY <1>9, <1>10, <1>11

LEMMA BeginTyped ==
    ASSUME Typed, NEW j \in Job, NEW m \in {"incremental", "full"}, NEW mtime \in {{cat.at}, {}},
           Begin(j, m, mtime)
    PROVE  Typed'
  <1>. DEFINE mode == IF cat.at = 0 THEN "full" ELSE m
              since == IF mode = "incremental" THEN WindowStart(mtime) ELSE 1
              prev == IF mode = "incremental" THEN cat.rows ELSE Empty
              todo == {c \in {CellOf(r) : r \in rows} : c[1] >= since}
              short == mode = "incremental" /\ since > WindowStart({cat.at})
              new == [Idle EXCEPT !.pc = "walk", !.mode = mode, !.since = since, !.day = today,
                                  !.prev = prev, !.todo = todo, !.short = short]
  <1>1. job' = [job EXCEPT ![j] = new] /\ UNCHANGED <<World, cat, staged>>
    BY DEF Begin
  <1>2. started' \in 0..MaxJobs
    BY CatalogueAssumption DEF Begin, Typed
  <1>3. mode \in {"incremental", "full"} /\ prev \in Cats /\ today \in Day
    BY EmptyIsCat DEF Typed
  <1>4. since \in Int
    <2>1. today \in Int
      BY DEF Typed, Day
    <2>. QED
      BY <2>1, WindowIs
  <1>5. todo \in SUBSET (Day \X Venue)
    <2>1. \A r \in rows : CellOf(r) \in Day \X Venue
      BY CatalogueAssumption DEF Typed, CellOf
    <2>. QED
      BY <2>1
  <1>6. new \in JobType
    <2>0. short \in BOOLEAN
      OBVIOUS
    <2>. HIDE DEF mode, since, prev, todo, short
    <2>. QED
      BY <1>3, <1>4, <1>5, <2>0, IdleTyped DEF JobType
  <1>. HIDE DEF new
  <1>. QED
    BY <1>1, <1>2, <1>6, JobTyped

LEMMA LoadTyped ==
    ASSUME Typed, NEW j \in Job, Load(j)
    PROVE  Typed'
  <1>1. PICK c \in job[j].todo :
            job' = [job EXCEPT ![j].todo = @ \ {c}, ![j].seen = @ \cup Snapshot(c)]
    BY DEF Load
  <1>. DEFINE left == job[j].todo \ {c}
              more == job[j].seen \cup Snapshot(c)
  <1>2. job[j] \in JobType /\ started' \in 0..MaxJobs /\ UNCHANGED <<World, cat, staged>>
    BY DEF Typed, Load
  <1>3. left \in SUBSET (Day \X Venue)
    BY <1>2 DEF JobType
  <1>4. more \in SUBSET (Day \X Instrument)
    BY <1>2 DEF JobType, Typed, Snapshot
  <1>5. job' = [job EXCEPT ![j] = [job[j] EXCEPT !.todo = left, !.seen = more]]
    BY <1>1, <1>2 DEF Typed, JobType
  <1>6. [job[j] EXCEPT !.todo = left, !.seen = more] \in JobType
    <2>. HIDE DEF left, more
    <2>. QED
      BY <1>2, <1>3, <1>4 DEF JobType
  <1>. QED
    BY <1>2, <1>5, <1>6, JobTyped

LEMMA MergeOnIsCat ==
    ASSUME Typed, NEW j \in Job
    PROVE  MergeOn(j) \in Cats
  <1>1. /\ job[j].prev \in Cats /\ job[j].since \in Int /\ cat.rows \in Cats
        /\ job[j].seen \in SUBSET (Day \X Instrument)
    BY DEF Typed, JobType
  <1>. DEFINE w == Build(job[j].seen)
  <1>2. w \in Cats
    BY <1>1, BuildIsCat
  <1>3. MergeOn(j) \in {MergeIncremental(job[j].prev, w, job[j].since, TRUE),
                       MergeIncremental(cat.rows, w, 1, FALSE), w}
    BY DEF MergeOn
  <1>. HIDE DEF w
  <1>4. MergeIncremental(job[j].prev, w, job[j].since, TRUE) \in Cats
    BY <1>1, <1>2, MergeIsCat
  <1>5. MergeIncremental(cat.rows, w, 1, FALSE) \in Cats
    <2>. DEFINE one == 1
    <2>1. one \in Int
      OBVIOUS
    <2>. HIDE DEF one
    <2>2. MergeIncremental(cat.rows, w, one, FALSE) \in Cats
      BY <1>1, <1>2, <2>1, MergeIsCat
    <2>. QED
      BY <2>2 DEF one
  <1>. QED
    BY <1>2, <1>3, <1>4, <1>5

LEMMA RollUpTyped ==
    ASSUME Typed, NEW j \in Job, RollUp(j)
    PROVE  Typed'
  <1>. DEFINE f == MergeOn(j)
              new == [job[j] EXCEPT !.pc = "decide", !.df = f, !.prev = Empty]
  <1>1. job[j] \in JobType /\ started' \in 0..MaxJobs /\ UNCHANGED <<World, cat, staged>>
    BY DEF Typed, RollUp
  <1>2. f \in Cats
    BY MergeOnIsCat
  <1>. HIDE DEF f
  <1>3. new \in JobType
    BY <1>1, <1>2, EmptyIsCat DEF JobType
  <1>4. job' = [job EXCEPT ![j] = new]
    BY <1>1 DEF RollUp, Typed, JobType, f
  <1>. HIDE DEF new
  <1>. QED
    BY <1>1, <1>3, <1>4, JobTyped

LEMMA PromoteTyped ==
    ASSUME Typed, NEW j \in Job,
           Decide(j) \/ Stage(j) \/ Copy(j) \/ Clean(j) \/ Die(j)
    PROVE  Typed'
  <1>0. job[j] \in JobType /\ job[j].df \in Cats
    BY DEF Typed, JobType
  <1>1. \A s \in {"stage", "copy", "clean"} : [job[j] EXCEPT !.pc = s] \in JobType
    BY <1>0 DEF JobType
  <1>2. started' \in 0..MaxJobs
    BY DEF Typed, Decide, Stage, Copy, Clean, Die
  <1>3. CASE Decide(j)
    <2>1. \/ job' = [job EXCEPT ![j] = [job[j] EXCEPT !.pc = "stage"]]
          \/ job' = [job EXCEPT ![j] = Idle]
      BY <1>3 DEF Decide, Typed
    <2>2. UNCHANGED <<World, cat, staged>>
      BY <1>3 DEF Decide
    <2>. QED
      BY <1>1, <1>2, <2>1, <2>2, IdleTyped, JobTyped
  <1>4. CASE Stage(j)
    <2>1. job' = [job EXCEPT ![j] = [job[j] EXCEPT !.pc = "copy"]]
      BY <1>4 DEF Stage, Typed
    <2>2. job' \in [Job -> JobType]
      BY <1>1, <2>1 DEF Typed
    <2>. QED
      BY <1>0, <1>2, <1>4, <2>2 DEF Stage, Typed, World
  <1>5. CASE Copy(j)
    <2>1. job' = [job EXCEPT ![j] = [job[j] EXCEPT !.pc = "clean"]]
      BY <1>5 DEF Copy, Typed
    <2>2. job' \in [Job -> JobType]
      BY <1>1, <2>1 DEF Typed
    <2>3. PICK df \in staged : cat' = [rows |-> df, at |-> today, drift |-> Drifts(job[j])]
      BY <1>5 DEF Copy
    <2>4. cat' \in [rows : Cats, at : Nat, drift : BOOLEAN]
      <3>. DEFINE drift == Drifts(job[j])
      <3>1. drift \in BOOLEAN
        BY DEF Drifts
      <3>. HIDE DEF drift
      <3>2. cat' = [rows |-> df, at |-> today, drift |-> drift]
        BY <2>3 DEF drift
      <3>. QED
        BY <3>1, <3>2, DayTyped DEF Typed
    <2>. QED
      BY <1>2, <1>5, <2>2, <2>4 DEF Copy, Typed, World
  <1>6. CASE Clean(j) \/ Die(j)
    <2>1. job' = [job EXCEPT ![j] = Idle] /\ UNCHANGED <<World, cat>> /\ (staged' = {} \/ staged' = staged)
      BY <1>6 DEF Clean, Die
    <2>2. job' \in [Job -> JobType]
      BY <2>1, IdleTyped DEF Typed
    <2>. QED
      BY <1>2, <2>1, <2>2 DEF Typed, World
  <1>. QED
    BY <1>3, <1>4, <1>5, <1>6

LEMMA NextTyped ==
    ASSUME Typed, [Next]_vars
    PROVE  Typed'
  <1>1. CASE UNCHANGED vars
    BY <1>1 DEF vars, Typed
  <1>2. ASSUME NEW j \in Job, Step(j)
        PROVE  Typed'
    BY <1>2, BeginTyped, LoadTyped, RollUpTyped, PromoteTyped DEF Step
  <1>. QED
    BY <1>1, <1>2, WorldTyped DEF Next

LEMMA TypedInvariant == Spec => []Typed
  BY InitTyped, NextTyped, PTL DEF Spec

\* Every date a roll-up computes is a date: the minima and maxima it takes exist, for any
\* instruments, snapshots, listing dates, windows and overlapping jobs.
THEOREM CatalogueTypes == Spec => []TypeOK
  BY TypedInvariant, TypedImplies, PTL

-----------------------------------------------------------------------------
(* Listing dates.                                                          *)

\* What the job is about to promote lists no instrument later than the catalogue does.
NoLater(r) ==
    r.pc \in {"decide", "stage", "copy"} =>
        \A i \in DOMAIN cat.rows : r.df[i].from <= cat.rows[i].from

LEMMA MergeNoLater ==
    ASSUME NEW prev \in Cats, NEW window \in Cats, NEW since, NEW close, NEW i \in DOMAIN prev
    PROVE  MergeIncremental(prev, window, since, close)[i].from <= prev[i].from
  <1>. DEFINE f == MergeIncremental(prev, window, since, close)
  <1>1. prev[i] \in Row /\ (i \in DOMAIN window => window[i] \in Row)
    BY DEF Cats
  <1>2. prev[i].from \in Int
    BY <1>1 DEF Row
  <1>3. CASE i \in DOMAIN window
    <2>1. f[i] = [window[i] EXCEPT !.from = Min({window[i].from, prev[i].from})]
      BY <1>3 DEF MergeIncremental
    <2>2. f[i].from = Min({window[i].from, prev[i].from})
      BY <1>1, <1>3, <2>1 DEF Row
    <2>3. window[i].from \in Int
      BY <1>1, <1>3 DEF Row
    <2>. QED
      BY <1>2, <2>2, <2>3, MinOfTwo
  <1>4. CASE i \notin DOMAIN window
    <2>1. f[i] = prev[i] \/ f[i] = [prev[i] EXCEPT !.to = since - 1]
      BY <1>4 DEF MergeIncremental
    <2>2. f[i].from = prev[i].from
      BY <1>1, <2>1 DEF Row
    <2>. QED
      BY <1>2, <2>2
  <1>. QED
    BY <1>3, <1>4

\* The catalogue the job promotes next, as a whole state property.
AllNoLater == \A j \in Job : NoLater(job[j])

LEMMA RollUpNoLater ==
    ASSUME IInv, Typed, NEW j \in Job, RollUp(j)
    PROVE  \A i \in DOMAIN cat.rows : MergeOn(j)[i].from <= cat.rows[i].from
  <1>. DEFINE w == Build(job[j].seen)
  <1>1. Carries(job[j]) /\ job[j].pc = "walk" /\ cat.rows \in Cats
    BY DEF IInv, RollUp, Typed
  <1>2. job[j].seen \in SUBSET (Day \X Instrument)
    BY DEF Typed, JobType
  <1>3. w \in Cats
    BY <1>2, BuildIsCat
  <1>4. job[j].mode = "incremental" => MergeOn(j) = MergeIncremental(cat.rows, w, job[j].since, TRUE)
    BY <1>1 DEF MergeOn, Carries
  <1>5. job[j].mode # "incremental" /\ cat.at # 0 => MergeOn(j) = MergeIncremental(cat.rows, w, 1, FALSE)
    BY DEF MergeOn
  <1>6. cat.at = 0 => DOMAIN cat.rows = {}
    BY DEF IInv, Dated, Empty
  <1>. HIDE DEF w
  <1>. TAKE i \in DOMAIN cat.rows
  <1>7. MergeIncremental(cat.rows, w, job[j].since, TRUE)[i].from <= cat.rows[i].from
    BY <1>1, <1>3, MergeNoLater
  <1>8. MergeIncremental(cat.rows, w, 1, FALSE)[i].from <= cat.rows[i].from
    BY <1>1, <1>3, MergeNoLater
  <1>. QED
    BY <1>4, <1>5, <1>6, <1>7, <1>8

LEMMA StepNoLater ==
    ASSUME IInv, Typed, AllNoLater, OneJob, NEW j \in Job, Step(j)
    PROVE  AllNoLater'
  <1>1. job[j] \in JobType /\ Idle.pc = "idle" /\ \A k \in Job : k = j
    BY DEF Typed, OneJob, Idle
  <1>2. SUFFICES NoLater(job[j])'
    BY <1>1 DEF AllNoLater
  <1>3. ASSUME NEW m \in {"incremental", "full"}, NEW mtime \in {{cat.at}, {}}, Begin(j, m, mtime)
        PROVE  job'[j].pc = "walk"
    BY <1>1, <1>3 DEF Begin, Typed, Idle
  <1>4. CASE Load(j)
    BY <1>1, <1>4 DEF Load, Typed, JobType, NoLater
  <1>5. CASE RollUp(j)
    <2>1. job'[j].df = MergeOn(j) /\ cat' = cat
      BY <1>1, <1>5 DEF RollUp, Typed, JobType
    <2>. QED
      BY <1>5, <2>1, RollUpNoLater DEF NoLater
  <1>6. CASE Decide(j)
    <2>1. job'[j] = [job[j] EXCEPT !.pc = "stage"] \/ job'[j] = Idle
      BY <1>6 DEF Decide, Typed
    <2>2. job[j].pc = "decide" /\ NoLater(job[j]) /\ cat' = cat
      BY <1>6 DEF Decide, AllNoLater
    <2>. QED
      BY <1>1, <2>1, <2>2 DEF NoLater, JobType
  <1>7. CASE Stage(j)
    <2>1. job'[j].df = job[j].df /\ cat' = cat
      BY <1>1, <1>7 DEF Stage, Typed, JobType
    <2>2. job[j].pc = "stage" /\ NoLater(job[j])
      BY <1>7 DEF Stage, AllNoLater
    <2>. QED
      BY <2>1, <2>2 DEF NoLater
  <1>8. CASE Copy(j)
    <2>1. job'[j].pc = "clean"
      BY <1>1, <1>8 DEF Copy, Typed, JobType
    <2>. QED
      BY <2>1 DEF NoLater
  <1>9. CASE Clean(j) \/ Die(j)
    <2>1. job'[j] = Idle
      BY <1>9 DEF Clean, Die, Typed
    <2>. QED
      BY <1>1, <2>1 DEF NoLater
  <1>. QED
    BY <1>3, <1>4, <1>5, <1>6, <1>7, <1>8, <1>9 DEF Step, NoLater

LEMMA NextNoLater ==
    ASSUME IInv, Typed, AllNoLater, OneJob, [Next]_vars
    PROVE  AllNoLater'
  <1>1. CASE UNCHANGED vars
    BY <1>1 DEF vars, AllNoLater, NoLater
  <1>2. CASE NextDay
    BY <1>2 DEF NextDay, AllNoLater, NoLater
  <1>3. ASSUME Disturb, cat' = cat
        PROVE  AllNoLater'
    BY <1>3, DisturbKeeps DEF IInv, AllNoLater, NoLater
  <1>4. ASSUME NEW j \in Job, Step(j)
        PROVE  AllNoLater'
    BY <1>4, StepNoLater
  <1>. QED
    BY <1>1, <1>2, <1>3, <1>4 DEF Next, Capture, Backfill, Prune

\* What a promotion does to the listing dates.
LEMMA CopyNoLater ==
    ASSUME IInv, AllNoLater, NEW j \in Job, Copy(j), NEW i \in DOMAIN cat.rows
    PROVE  cat'.rows[i].from <= cat.rows[i].from
  <1>1. Carries(job[j]) /\ NoLater(job[j]) /\ job[j].pc = "copy"
    BY DEF IInv, AllNoLater, Copy
  <1>2. PICK df \in staged : cat' = [rows |-> df, at |-> today, drift |-> Drifts(job[j])]
    BY DEF Copy
  <1>3. df = job[j].df /\ cat'.rows = df
    BY <1>1, <1>2 DEF Carries
  <1>. QED
    BY <1>1, <1>3 DEF NoLater

\* When jobs do not overlap, no instrument's available_from ever moves to a later day
\* (FromNeverLater): neither a window that starts after it, nor a snapshot that was deleted,
\* nor a full walk over what is left of the snapshots.
THEOREM FromNeverLaterSafe ==
    ASSUME OneJob
    PROVE  Spec => FromNeverLater
  <1>. DEFINE Kept == \A i \in DOMAIN cat.rows \cap DOMAIN cat'.rows : cat'.rows[i].from <= cat.rows[i].from
              Inv == IInv /\ Typed /\ AllNoLater
  <1>1. Init => Inv
    BY InitIInv, InitTyped DEF Init, AllNoLater, NoLater, Idle
  <1>2. Inv /\ [Next]_vars => Inv'
    BY NextIInv, NextTyped, NextNoLater
  <1>3. Inv /\ [Next]_vars => [Kept]_vars
    <2>1. ASSUME Typed, UNCHANGED cat
          PROVE  Kept
      <3>1. \A i \in DOMAIN cat.rows : cat.rows[i] \in Row
        BY <2>1 DEF Typed, Cats
      <3>2. \A i \in DOMAIN cat.rows : cat.rows[i].from \in Int
        BY <3>1 DEF Row
      <3>. QED
        BY <2>1, <3>2
    <2>2. ASSUME Inv, NEW j \in Job, Copy(j)
          PROVE  Kept
      BY <2>2, CopyNoLater
    <2>. QED
      BY <2>1, <2>2, OnlyCopy
  <1>. QED
    BY <1>1, <1>2, <1>3, PTL DEF Spec, FromNeverLater

-----------------------------------------------------------------------------
(* What was written on its day is not missed.                              *)

OnTime == {x \in rows : CellOf(x) \notin late}

\* A running job began at most MaxRunDays ago, on a window that begins by then.
Clock(r) ==
    /\ r.pc # "idle" => r.day <= today /\ today - r.day <= MaxRunDays /\ r.since <= r.day
    /\ r.pc # "idle" /\ r.mode = "full" => r.since = 1

\* What a walking job has of its window: what was there before its day is read or listed;
\* undisturbed, all that is there.  What its window leaves out is in the catalogue, unless
\* there is drift.
Reads(r) == r.pc = "walk" =>
    /\ \A x \in rows : x[1] >= r.since /\ (r.calm \/ (x \in OnTime /\ x[1] < r.day)) =>
           CellOf(x) \in r.todo \/ x \in r.seen
    /\ ~ Drifts(r) => \A x \in OnTime : x[1] < r.since => x[2] \in DOMAIN cat.rows
    /\ r.calm => r.seen \subseteq rows

\* The same of the roll-up; a full one has the ends that follow from all snapshots.
Made(r) == r.pc \in {"decide", "stage", "copy"} =>
    /\ ~ Drifts(r) => \A x \in OnTime : r.calm \/ x[1] < r.day => x[2] \in DOMAIN r.df
    /\ r.calm /\ r.mode = "full" =>
           \A i \in DOMAIN Build(rows) : i \in DOMAIN r.df /\ r.df[i].to = Build(rows)[i].to

\* What was on its day before the job that made the catalogue can have begun is in it,
\* unless there is drift.
Known ==
    /\ cat.at <= today
    /\ ~ cat.drift => \A x \in OnTime : x[1] < cat.at - MaxRunDays => x[2] \in DOMAIN cat.rows

Watched == Known /\ \A j \in Job : Clock(job[j]) /\ Reads(job[j]) /\ Made(job[j])

LEMMA Ints ==
    ASSUME Typed
    PROVE  /\ today \in Int /\ cat.at \in Int /\ MaxRunDays \in Int /\ MaxRunDays >= 0
           /\ \A x \in rows : x[1] \in Int /\ x[1] >= 1 /\ CellOf(x) = <<x[1], VenueOf[x[2]]>>
           /\ \A j \in Job : job[j].day \in Int /\ job[j].since \in Int
  <1>1. today \in Int /\ cat.at \in Int
    BY DEF Typed, Day
  <1>2. MaxRunDays \in Int /\ MaxRunDays >= 0
    BY CatalogueAssumption
  <1>3. \A x \in rows : x[1] \in Int /\ x[1] >= 1
    BY DEF Typed, Day
  <1>4. \A j \in Job : job[j].day \in Int /\ job[j].since \in Int
    BY DEF Typed, JobType, Day
  <1>. QED
    BY <1>1, <1>2, <1>3, <1>4 DEF CellOf

\* What a step of the snapshots leaves of the other fields of the jobs.
LEMMA DisturbRest ==
    ASSUME Typed, Disturb
    PROVE  \A j \in Job :
               /\ job'[j].since = job[j].since /\ job'[j].todo = job[j].todo /\ job'[j].day = job[j].day
               /\ job'[j].short = job[j].short
               /\ job'[j].pc # "idle" => ~ job'[j].calm
  <1>. SUFFICES ASSUME NEW j \in Job
                PROVE  /\ job'[j].since = job[j].since /\ job'[j].todo = job[j].todo
                       /\ job'[j].day = job[j].day /\ (job'[j].pc # "idle" => ~ job'[j].calm)
                       /\ job'[j].short = job[j].short
    OBVIOUS
  <1>1. job[j] \in JobType
    BY DEF Typed
  <1>2. job'[j] = IF job[j].pc = "idle" THEN job[j] ELSE [job[j] EXCEPT !.calm = FALSE]
    BY DEF Disturb
  <1>. QED
    BY <1>1, <1>2 DEF JobType

\* A step of the snapshots that adds on its day at most what is of today.
LEMMA WorldWatched ==
    ASSUME Typed, IInv, Watched, Disturb, UNCHANGED <<today, cat>>,
           \A x \in OnTime' : x \in OnTime \/ x[1] = today
    PROVE  Watched'
  <1>1. \A j \in Job : /\ job'[j].pc = job[j].pc /\ job'[j].mode = job[j].mode
                       /\ job'[j].seen = job[j].seen /\ job'[j].df = job[j].df
                       /\ job'[j].since = job[j].since /\ job'[j].todo = job[j].todo
                       /\ job'[j].day = job[j].day /\ (job'[j].pc # "idle" => ~ job'[j].calm)
                       /\ job'[j].short = job[j].short
    BY DisturbKeeps, DisturbRest DEF IInv
  <1>2. Known'
    <2>. SUFFICES ASSUME ~ cat.drift, NEW x \in OnTime', x[1] < cat.at - MaxRunDays
                  PROVE  x[2] \in DOMAIN cat.rows
      BY DEF Watched, Known
    <2>1. x[1] # today
      BY Ints DEF Watched, Known
    <2>. QED
      BY <2>1 DEF Watched, Known
  <1>. SUFFICES ASSUME NEW j \in Job
                PROVE  Clock(job[j])' /\ Reads(job[j])' /\ Made(job[j])'
    BY <1>2 DEF Watched
  <1>3. Clock(job[j]) /\ Reads(job[j]) /\ Made(job[j])
    BY DEF Watched
  <1>4. Clock(job[j])'
    BY <1>1, <1>3 DEF Clock
  <1>5. ASSUME NEW x \in OnTime', job[j].pc # "idle", x[1] < job[j].day \/ x[1] < job[j].since
        PROVE  x \in OnTime /\ x \in rows
    <2>1. x[1] # today
      BY <1>3, <1>5, Ints DEF Clock
    <2>. QED
      BY <1>5, <2>1 DEF OnTime
  <1>6. Reads(job[j])'
    BY <1>1, <1>3, <1>5 DEF Reads, Drifts
  <1>7. Made(job[j])'
    BY <1>1, <1>3, <1>5 DEF Made, Drifts
  <1>. QED
    BY <1>4, <1>6, <1>7

LEMMA SnapshotsWatched ==
    ASSUME Typed, IInv, Watched,
           \/ \E S \in Answers : Capture(S)
           \/ \E d \in Day, S \in Answers : Backfill(d, S)
           \/ \E c \in Day \X Venue : Prune(c)
    PROVE  Watched'
  <1>1. ASSUME NEW S \in Answers, Capture(S)
        PROVE  Watched'
    <2>1. rows' \subseteq rows \cup ({today} \X S) /\ late' = late
      BY <1>1 DEF Capture, Put
    <2>2. \A x \in OnTime' : x \in OnTime \/ x[1] = today
      BY <2>1 DEF OnTime, CellOf
    <2>. QED
      BY <1>1, <2>2, WorldWatched DEF Capture
  <1>2. ASSUME NEW d \in Day, NEW S \in Answers, Backfill(d, S)
        PROVE  Watched'
    <2>1. /\ rows' \subseteq rows \cup ({d} \X S)
          /\ late' = late \cup {CellOf(<<d, i>>) : i \in S}
      BY <1>2 DEF Backfill, Put
    <2>2. \A x \in {d} \X S : CellOf(x) \in late'
      BY <2>1 DEF CellOf
    <2>3. \A x \in OnTime' : x \in OnTime
      BY <2>1, <2>2 DEF OnTime, CellOf
    <2>. QED
      BY <1>2, <2>3, WorldWatched DEF Backfill
  <1>3. ASSUME NEW c \in Day \X Venue, Prune(c)
        PROVE  Watched'
    <2>1. rows' = rows \ {x \in rows : CellOf(x) = c} /\ late' = late \ {c}
      BY <1>3 DEF Prune, Snapshot
    <2>2. \A x \in OnTime' : x \in OnTime
      BY <2>1 DEF OnTime, CellOf
    <2>. QED
      BY <1>3, <2>2, WorldWatched DEF Prune
  <1>. QED
    BY <1>1, <1>2, <1>3

LEMMA NextDayWatched ==
    ASSUME Typed, Watched, NextDay
    PROVE  Watched'
  <1>1. /\ today' = today + 1 /\ UNCHANGED <<rows, late, cat, job>>
        /\ \A j \in Job : job[j].pc # "idle" => today + 1 - job[j].day <= MaxRunDays
    BY DEF NextDay
  <1>2. OnTime' = OnTime /\ Build(rows)' = Build(rows)
    BY <1>1 DEF OnTime, CellOf, Build
  <1>3. Known'
    BY <1>1, <1>2, Ints DEF Watched, Known
  <1>. SUFFICES ASSUME NEW j \in Job
                PROVE  Clock(job[j])' /\ Reads(job[j])' /\ Made(job[j])'
    BY <1>3 DEF Watched
  <1>4. Clock(job[j])'
    BY <1>1, Ints DEF Watched, Clock
  <1>. QED
    BY <1>1, <1>2, <1>4 DEF Watched, Reads, Made, Drifts, CellOf

\* A job's step that leaves the snapshots and the catalogue.
LEMMA OneWatched ==
    ASSUME Typed, Watched, OneJob, NEW j \in Job, NEW r, job' = [job EXCEPT ![j] = r],
           UNCHANGED <<World, cat>>, Clock(r), Reads(r), Made(r)
    PROVE  Watched'
  <1>1. job'[j] = r /\ \A k \in Job : k = j
    BY DEF OneJob, Typed
  <1>2. UNCHANGED <<today, rows, late, cat>>
    BY DEF World
  <1>3. OnTime' = OnTime /\ Build(rows)' = Build(rows)
    BY <1>2 DEF OnTime, CellOf, Build
  <1>4. Known'
    BY <1>2, <1>3 DEF Watched, Known
  <1>5. Clock(job[j])' /\ Reads(job[j])' /\ Made(job[j])'
    BY <1>1, <1>2, <1>3 DEF Clock, Reads, Made, Drifts, CellOf
  <1>. QED
    BY <1>1, <1>4, <1>5 DEF Watched

LEMMA IdleWatched == Idle.pc = "idle" /\ Clock(Idle) /\ Reads(Idle) /\ Made(Idle)
  BY DEF Idle, Clock, Reads, Made

LEMMA BeginWatched ==
    ASSUME Typed, IInv, Watched, OneJob, NEW j \in Job, NEW m \in {"incremental", "full"},
           NEW mtime \in {{cat.at}, {}}, Begin(j, m, mtime)
    PROVE  Watched'
  <1>. DEFINE mode == IF cat.at = 0 THEN "full" ELSE m
              since == IF mode = "incremental" THEN WindowStart(mtime) ELSE 1
              prev == IF mode = "incremental" THEN cat.rows ELSE Empty
              todo == {c \in {CellOf(x) : x \in rows} : c[1] >= since}
              short == mode = "incremental" /\ since > WindowStart({cat.at})
              new == [Idle EXCEPT !.pc = "walk", !.mode = mode, !.since = since, !.day = today,
                                  !.prev = prev, !.todo = todo, !.short = short]
  <1>1. job' = [job EXCEPT ![j] = new] /\ UNCHANGED <<World, cat>>
    BY DEF Begin
  <1>2. /\ new.pc = "walk" /\ new.mode = mode /\ new.since = since /\ new.day = today
        /\ new.todo = todo /\ new.seen = {} /\ new.short = short
    <2>. HIDE DEF mode, since, prev, todo, short
    <2>. QED
      BY DEF Idle
  <1>3. today \in Int /\ today >= 1 /\ MaxRunDays \in Int /\ MaxRunDays >= 0
    BY Ints DEF Typed, Day
  <1>4. since \in Int /\ since <= today /\ (mode = "full" => since = 1)
    BY <1>3, WindowIs
  <1>5. \A x \in rows : x[1] >= since => CellOf(x) \in todo
    BY Ints
  <1>6. ASSUME ~ (mode = "incremental" /\ (short \/ cat.drift)), NEW x \in OnTime, x[1] < since
        PROVE  x[2] \in DOMAIN cat.rows
    <2>1. x \in rows /\ x[1] \in Int /\ x[1] >= 1
      BY Ints DEF OnTime
    <2>2. mode = "incremental"
      BY <1>6, <2>1
    <2>3. ~ (since > WindowStart({cat.at})) /\ ~ cat.drift
      BY <1>6, <2>2
    <2>4. PICK full \in Int : full = WindowStart({cat.at}) /\ full <= cat.at - Margin
      BY WindowIs
    <2>5. Margin \in Int /\ MaxRunDays <= Margin /\ cat.at \in Int
      BY CatalogueAssumption, Ints
    <2>. HIDE DEF since
    <2>6. x[1] < cat.at - MaxRunDays
      BY <1>3, <1>4, <1>6, <2>1, <2>3, <2>4, <2>5
    <2>. QED
      BY <2>3, <2>6 DEF Watched, Known
  <1>. HIDE DEF new, mode, since, todo, short
  <1>7. Clock(new)
    BY <1>2, <1>3, <1>4 DEF Clock
  <1>8. Reads(new)
    BY <1>2, <1>5, <1>6 DEF Reads, Drifts
  <1>9. Made(new)
    BY <1>2 DEF Made
  <1>. QED
    BY <1>1, <1>7, <1>8, <1>9, OneWatched

LEMMA LoadWatched ==
    ASSUME Typed, Watched, OneJob, NEW j \in Job, Load(j)
    PROVE  Watched'
  <1>1. PICK c \in job[j].todo :
            job' = [job EXCEPT ![j].todo = @ \ {c}, ![j].seen = @ \cup Snapshot(c)]
    BY DEF Load
  <1>. DEFINE left == job[j].todo \ {c}
              more == job[j].seen \cup Snapshot(c)
              new == [job[j] EXCEPT !.todo = left, !.seen = more]
  <1>2. job[j] \in JobType /\ job[j].pc = "walk" /\ UNCHANGED <<World, cat>>
    BY DEF Typed, Load
  <1>3. job' = [job EXCEPT ![j] = new]
    BY <1>1, <1>2 DEF Typed, JobType
  <1>4. /\ new.pc = "walk" /\ new.mode = job[j].mode /\ new.since = job[j].since /\ new.day = job[j].day
        /\ new.calm = job[j].calm /\ new.todo = left /\ new.seen = more /\ new.short = job[j].short
    <2>. HIDE DEF left, more
    <2>. QED
      BY <1>2 DEF JobType
  <1>5. Clock(job[j]) /\ Reads(job[j])
    BY DEF Watched
  <1>6. \A x \in rows : CellOf(x) \in job[j].todo \/ x \in job[j].seen => CellOf(x) \in left \/ x \in more
    BY DEF Snapshot
  <1>7. job[j].seen \subseteq rows => more \subseteq rows
    BY DEF Snapshot
  <1>. HIDE DEF new, left, more
  <1>8. Clock(new)
    BY <1>2, <1>4, <1>5 DEF Clock
  <1>9. Reads(new)
    BY <1>2, <1>4, <1>5, <1>6, <1>7 DEF Reads, Drifts
  <1>10. Made(new)
    BY <1>4 DEF Made
  <1>. QED
    BY <1>2, <1>3, <1>8, <1>9, <1>10, OneWatched

\* The merge has what is in the window, and of the previous catalogue what is not; ends
\* come from the window.
LEMMA MergeHas ==
    ASSUME NEW prev \in Cats, NEW w \in Cats, NEW since, NEW close
    PROVE  /\ DOMAIN MergeIncremental(prev, w, since, close) = DOMAIN prev \cup DOMAIN w
           /\ \A i \in DOMAIN w : MergeIncremental(prev, w, since, close)[i].to = w[i].to
  <1>1. \A i \in DOMAIN w : w[i] \in Row
    BY DEF Cats
  <1>2. ASSUME NEW i \in DOMAIN w
        PROVE  MergeIncremental(prev, w, since, close)[i].to = w[i].to
    <2>1. CASE i \in DOMAIN prev
      <3>1. MergeIncremental(prev, w, since, close)[i]
                = [w[i] EXCEPT !.from = Min({w[i].from, prev[i].from})]
        BY <2>1 DEF MergeIncremental
      <3>. QED
        BY <1>1, <3>1 DEF Row
    <2>2. CASE i \notin DOMAIN prev
      BY <2>2 DEF MergeIncremental
    <2>. QED
      BY <2>1, <2>2
  <1>. QED
    BY <1>2 DEF MergeIncremental

LEMMA RollUpWatched ==
    ASSUME Typed, IInv, Watched, OneJob, NEW j \in Job, RollUp(j)
    PROVE  Watched'
  <1>. DEFINE f == MergeOn(j)
              w == Build(job[j].seen)
              new == [job[j] EXCEPT !.pc = "decide", !.df = f, !.prev = Empty]
  <1>1. /\ job[j] \in JobType /\ job[j].pc = "walk" /\ job[j].todo = {} /\ UNCHANGED <<World, cat>>
        /\ Carries(job[j]) /\ Clock(job[j]) /\ Reads(job[j])
    BY DEF Typed, RollUp, IInv, Watched
  <1>2. w \in Cats /\ cat.rows \in Cats
    BY <1>1, BuildIsCat DEF Typed, JobType
  <1>3. DOMAIN w = {x[2] : x \in job[j].seen}
    BY DEF Build
  <1>4. job[j].mode = "incremental" => f = MergeIncremental(cat.rows, w, job[j].since, TRUE)
    BY <1>1 DEF MergeOn, Carries
  <1>5. job[j].mode = "full" => f = MergeIncremental(cat.rows, w, 1, FALSE) \/ f = w
    BY DEF MergeOn
  <1>6. job' = [job EXCEPT ![j] = new]
    BY <1>1 DEF RollUp, Typed, JobType
  <1>. HIDE DEF f, w
  <1>7. job[j].mode \in {"incremental", "full"}
    BY <1>1 DEF JobType
  <1>. DEFINE Merged == \E s, c : f = MergeIncremental(cat.rows, w, s, c)
  <1>a. Merged \/ (job[j].mode = "full" /\ f = w)
    BY <1>4, <1>5, <1>7
  <1>b. ASSUME Merged
        PROVE  DOMAIN f = DOMAIN cat.rows \cup DOMAIN w /\ \A i \in DOMAIN w : f[i].to = w[i].to
    <2>1. PICK s, c : f = MergeIncremental(cat.rows, w, s, c)
      BY <1>b
    <2>. QED
      BY <1>2, <2>1, MergeHas
  <1>8. DOMAIN w \subseteq DOMAIN f /\ (job[j].mode = "full" => \A i \in DOMAIN w : f[i].to = w[i].to)
    BY <1>a, <1>b
  <1>9. job[j].mode = "incremental" => DOMAIN cat.rows \subseteq DOMAIN f
    BY <1>a, <1>b
  <1>10. /\ new.pc = "decide" /\ new.mode = job[j].mode /\ new.since = job[j].since
         /\ new.day = job[j].day /\ new.calm = job[j].calm /\ new.df = f /\ new.short = job[j].short
    BY <1>1 DEF JobType
  <1>. HIDE DEF new
  <1>11. ASSUME ~ Drifts(job[j]), NEW x \in OnTime, job[j].calm \/ x[1] < job[j].day
         PROVE  x[2] \in DOMAIN f
    <2>1. x \in rows /\ x[1] \in Int /\ x[1] >= 1 /\ job[j].since \in Int
      BY Ints DEF OnTime
    <2>2. CASE x[1] >= job[j].since
      <3>1. x \in job[j].seen
        BY <1>1, <1>11, <2>1, <2>2 DEF Reads
      <3>. QED
        BY <1>3, <1>8, <3>1
    <2>3. CASE x[1] < job[j].since
      <3>1. job[j].mode = "incremental"
        BY <1>1, <1>7, <2>1, <2>3 DEF Clock
      <3>2. x[2] \in DOMAIN cat.rows
        BY <1>1, <1>11, <2>3 DEF Reads
      <3>. QED
        BY <1>9, <3>1, <3>2
    <2>. QED
      BY <2>1, <2>2, <2>3
  <1>12. ASSUME job[j].calm, job[j].mode = "full", NEW i \in DOMAIN Build(rows)
         PROVE  i \in DOMAIN f /\ f[i].to = Build(rows)[i].to
    <2>1. \A x \in rows : x[1] >= job[j].since
      BY <1>1, <1>12, Ints DEF Clock
    <2>2. job[j].seen = rows
      BY <1>1, <1>12, <2>1 DEF Reads
    <2>3. w = Build(rows)
      BY <2>2 DEF w
    <2>. QED
      BY <1>8, <1>12, <2>3
  <1>13. Clock(new)
    BY <1>1, <1>10 DEF Clock
  <1>14. Reads(new)
    BY <1>10 DEF Reads
  <1>15. Made(new)
    BY <1>10, <1>11, <1>12 DEF Made, Drifts
  <1>. QED
    BY <1>1, <1>6, <1>13, <1>14, <1>15, OneWatched

LEMMA PromoteWatched ==
    ASSUME Typed, IInv, Watched, OneJob, NEW j \in Job,
           Decide(j) \/ Stage(j) \/ Copy(j) \/ Clean(j) \/ Die(j)
    PROVE  Watched'
  <1>1. job[j] \in JobType /\ Clock(job[j]) /\ Made(job[j]) /\ Carries(job[j])
    BY DEF Typed, Watched, IInv
  <1>2. ASSUME NEW s \in {"stage", "copy"}, job' = [job EXCEPT ![j] = [job[j] EXCEPT !.pc = s]],
               job[j].pc \in {"decide", "stage"}, UNCHANGED <<World, cat>>
        PROVE  Watched'
    <2>. DEFINE new == [job[j] EXCEPT !.pc = s]
    <2>1. /\ new.pc = s /\ new.mode = job[j].mode /\ new.since = job[j].since
          /\ new.day = job[j].day /\ new.calm = job[j].calm /\ new.df = job[j].df
          /\ new.short = job[j].short
      BY <1>1 DEF JobType
    <2>. HIDE DEF new
    <2>2. Clock(new) /\ Reads(new) /\ Made(new)
      BY <1>1, <1>2, <2>1 DEF Clock, Reads, Made, Drifts
    <2>. QED
      BY <1>2, <2>2, OneWatched DEF new
  <1>3. ASSUME job' = [job EXCEPT ![j] = Idle], UNCHANGED <<World, cat>>
        PROVE  Watched'
    BY <1>3, IdleWatched, OneWatched
  <1>4. CASE Decide(j)
    <2>1. \/ job' = [job EXCEPT ![j] = [job[j] EXCEPT !.pc = "stage"]]
          \/ job' = [job EXCEPT ![j] = Idle]
      BY <1>4 DEF Decide, Typed
    <2>. QED
      BY <1>2, <1>3, <1>4, <2>1 DEF Decide
  <1>5. CASE Stage(j)
    <2>1. job' = [job EXCEPT ![j] = [job[j] EXCEPT !.pc = "copy"]]
      BY <1>5 DEF Stage, Typed
    <2>. QED
      BY <1>2, <1>5, <2>1 DEF Stage
  <1>6. CASE Copy(j)
    <2>. DEFINE new == [job[j] EXCEPT !.pc = "clean"]
    <2>1. /\ job' = [job EXCEPT ![j] = new] /\ UNCHANGED <<today, rows, late>> /\ job[j].pc = "copy"
          /\ \E df \in staged : cat' = [rows |-> df, at |-> today, drift |-> Drifts(job[j])]
      BY <1>6 DEF Copy, World, Typed
    <2>2. cat'.rows = job[j].df /\ cat'.at = today /\ cat'.drift = Drifts(job[j])
      BY <1>1, <2>1 DEF Carries
    <2>3. new.pc = "clean" /\ new.mode = job[j].mode /\ new.since = job[j].since /\ new.day = job[j].day
      BY <1>1 DEF JobType
    <2>. HIDE DEF new
    <2>4. OnTime' = OnTime
      BY <2>1 DEF OnTime, CellOf
    <2>5. ASSUME ~ Drifts(job[j]), NEW x \in OnTime, x[1] < today - MaxRunDays
          PROVE  x[2] \in DOMAIN job[j].df
      <3>1. x[1] < job[j].day
        BY <1>1, <2>1, <2>5, Ints DEF Clock, OnTime
      <3>. QED
        BY <1>1, <2>1, <2>5, <3>1 DEF Made
    <2>6. Known'
      BY <2>1, <2>2, <2>4, <2>5, Ints DEF Known
    <2>7. job'[j] = new /\ \A k \in Job : k = j
      BY <2>1 DEF OneJob, Typed
    <2>8. Clock(job[j])' /\ Reads(job[j])' /\ Made(job[j])'
      BY <1>1, <2>1, <2>3, <2>7 DEF Clock, Reads, Made
    <2>. QED
      BY <2>6, <2>7, <2>8 DEF Watched
  <1>7. CASE Clean(j) \/ Die(j)
    BY <1>3, <1>7 DEF Clean, Die
  <1>. QED
    BY <1>4, <1>5, <1>6, <1>7

LEMMA NextWatched ==
    ASSUME Typed, IInv, Watched, OneJob, [Next]_vars
    PROVE  Watched'
  <1>1. CASE UNCHANGED vars
    <2>1. UNCHANGED <<today, rows, late, cat, job>>
      BY <1>1 DEF vars
    <2>2. OnTime' = OnTime /\ Build(rows)' = Build(rows)
      BY <2>1 DEF OnTime, CellOf, Build
    <2>. QED
      BY <2>1, <2>2 DEF Watched, Known, Clock, Reads, Made, Drifts, CellOf
  <1>2. ASSUME NEW j \in Job, Step(j)
        PROVE  Watched'
    BY <1>2, BeginWatched, LoadWatched, RollUpWatched, PromoteWatched DEF Step
  <1>. QED
    BY <1>1, <1>2, SnapshotsWatched, NextDayWatched DEF Next

LEMMA InitWatched == Init => Watched
  <1>. SUFFICES ASSUME Init PROVE Watched
    OBVIOUS
  <1>1. Known
    BY CatalogueAssumption DEF Init, Known, OnTime
  <1>. QED
    BY <1>1, IdleWatched DEF Init, Watched

\* What a promotion brings.
LEMMA CopyBrings ==
    ASSUME IInv, Watched, NEW j \in Job, CalmCopy(j)
    PROVE  /\ ~ Drifts(job[j]) => \A x \in rows : CellOf(x) \notin late => x[2] \in DOMAIN cat'.rows
           /\ job[j].mode = "full" => \A i \in DOMAIN Build(rows) : cat'.rows[i].to = Build(rows)[i].to
  <1>1. Carries(job[j]) /\ Made(job[j]) /\ job[j].pc = "copy" /\ job[j].calm
    BY DEF IInv, Watched, CalmCopy, Copy
  <1>2. PICK df \in staged : cat' = [rows |-> df, at |-> today, drift |-> Drifts(job[j])]
    BY DEF CalmCopy, Copy
  <1>3. cat'.rows = job[j].df
    BY <1>1, <1>2 DEF Carries
  <1>. QED
    BY <1>1, <1>3 DEF Made, OnTime

LEMMA WatchedInvariant ==
    ASSUME OneJob
    PROVE  Spec => [](Typed /\ IInv /\ Watched)
  <1>1. Init => Typed /\ IInv /\ Watched
    BY InitTyped, InitIInv, InitWatched
  <1>2. Typed /\ IInv /\ Watched /\ [Next]_vars => (Typed /\ IInv /\ Watched)'
    BY NextTyped, NextIInv, NextWatched
  <1>. QED
    BY <1>1, <1>2, PTL DEF Spec

\* When jobs do not overlap and none runs for longer than the margin, what was written on
\* its day is in the catalogue after the next undisturbed promotion (OnTimeSeen), for any
\* windows, however long there was no job: the window of an incremental job begins a margin
\* before the previous catalogue, and that one has what was there when its own job began.
\* A window cut short for want of the mtime breaks this until the next full job.
THEOREM OnTimeSeenSafe ==
    ASSUME OneJob
    PROVE  Spec => OnTimeSeen
  <1>1. IInv /\ Watched =>
            [\A j \in Job : CalmCopy(j) /\ ~ Drifts(job[j]) =>
                \A r \in rows : CellOf(r) \notin late => r[2] \in DOMAIN cat'.rows]_vars
    BY CopyBrings
  <1>. QED
    BY <1>1, WatchedInvariant, PTL DEF OnTimeSeen

\* When jobs do not overlap, an undisturbed full job leaves every instrument that has
\* snapshots the end that follows from all of them (FullAuthoritative).
THEOREM FullAuthoritativeSafe ==
    ASSUME OneJob
    PROVE  Spec => FullAuthoritative
  <1>. DEFINE Kept == \A j \in Job : CalmCopy(j) /\ job[j].mode = "full" =>
                 \A i \in DOMAIN Build(rows) : cat'.rows[i].to = Build(rows)[i].to
  <1>1. IInv /\ Watched => [Kept]_vars
    BY CopyBrings
  <1>. QED
    BY <1>1, WatchedInvariant, PTL DEF FullAuthoritative

-----------------------------------------------------------------------------
(* Thin days.  The medians exist, and a day with less than half the rows   *)
(* of each day before it is below them.                                    *)

LEMMA Cards ==
    ASSUME NEW S, IsFiniteSet(S), NEW T \in SUBSET S
    PROVE  IsFiniteSet(T) /\ Cardinality(T) \in Nat /\ Cardinality(T) <= Cardinality(S)
  BY FS_Subset, FS_CardinalityType

LEMMA NatMax ==
    ASSUME NEW T \in SUBSET Nat, T # {}, NEW bound \in Nat, \A y \in T : y <= bound
    PROVE  \E x \in T : \A y \in T : y <= x
  <1>1. T \in SUBSET Int /\ bound \in Int
    OBVIOUS
  <1>2. Max(T) \in T /\ \A y \in T : y <= Max(T)
    BY <1>1, MaxIs
  <1>. QED
    BY <1>2

\* The k-th smallest value is a value, and k of the values are no larger.
LEMMA RankedIs ==
    ASSUME NEW D, IsFiniteSet(D), NEW bound \in Nat, NEW f, DOMAIN f = D,
           \A d \in D : f[d] \in Nat /\ f[d] <= bound,
           NEW k \in Nat, 1 <= k, k <= Cardinality(D)
    PROVE  /\ \E d \in D : Ranked(f, k) = f[d]
           /\ k <= Cardinality({d \in D : f[d] <= Ranked(f, k)})
  <1>. DEFINE Image == {f[d] : d \in D}
              Below(c) == {d \in D : f[d] < c}
              UpTo(c) == {d \in D : f[d] <= c}
              Good == {c \in Image : k <= Cardinality(UpTo(c))}
  <1>1. Image \in SUBSET Nat /\ \A y \in Image : y <= bound
    OBVIOUS
  <1>2. \A c : Cardinality(Below(c)) \in Nat /\ Cardinality(UpTo(c)) \in Nat
    BY Cards
  <1>3. D # {}
    BY FS_EmptySet
  <1>4. Good # {}
    <2>1. Image \in SUBSET Nat /\ Image # {}
      BY <1>1, <1>3
    <2>2. PICK c \in Image : \A y \in Image : y <= c
      <3>. HIDE DEF Image
      <3>. QED
        BY <1>1, <2>1, NatMax
    <2>3. UpTo(c) = D
      BY <2>2
    <2>. QED
      BY <2>2, <2>3
  <1>5. Good \in SUBSET Nat
    BY <1>1
  <1>. HIDE DEF Good
  <1>6. PICK c \in Good : \A y \in Good : c <= y
    BY <1>4, <1>5, NatMin
  <1>7. c \in Image /\ c \in Nat /\ k <= Cardinality(UpTo(c))
    BY <1>5, <1>6 DEF Good
  <1>8. Cardinality(Below(c)) < k
    <2>1. CASE Below(c) = {}
      BY <2>1, FS_EmptySet
    <2>2. CASE Below(c) # {}
      <3>. DEFINE L == {f[d] : d \in Below(c)}
      <3>1. L \in SUBSET Nat /\ L # {} /\ \A y \in L : y <= bound /\ y < c /\ y \in Image
        BY <2>2
      <3>2. PICK b \in L : \A y \in L : y <= b
        <4>. HIDE DEF L
        <4>. QED
          BY <3>1, NatMax
      <3>4. b \in Nat /\ b < c /\ b \in Image
        BY <1>1, <3>1
      <3>5. UpTo(b) = Below(c)
        <4>1. \A d \in D : f[d] <= b => f[d] < c
          BY <1>7, <3>4
        <4>2. \A d \in D : f[d] < c => f[d] <= b
          BY <3>2
        <4>. QED
          BY <4>1, <4>2
      <3>6. b \notin Good
        BY <1>6, <1>7, <3>4
      <3>7. ~ (k <= Cardinality(UpTo(b)))
        BY <3>4, <3>6 DEF Good
      <3>. HIDE DEF Below, UpTo
      <3>8. Cardinality(Below(c)) \in Nat /\ ~ (k <= Cardinality(Below(c)))
        BY <1>2, <3>5, <3>7
      <3>. QED
        BY <3>8
    <2>. QED
      BY <2>1, <2>2
  <1>. DEFINE IsRank(x) == Cardinality(Below(x)) < k /\ k <= Cardinality(UpTo(x))
  <1>9. Ranked(f, k) = CHOOSE x \in Image : IsRank(x)
    BY DEF Ranked
  <1>10. \E x \in Image : IsRank(x)
    BY <1>7, <1>8
  <1>. HIDE DEF IsRank
  <1>11. Ranked(f, k) \in Image /\ IsRank(Ranked(f, k))
    BY <1>9, <1>10
  <1>. QED
    BY <1>11 DEF IsRank

\* Of three values or more of which one is below half of each other, twice the median is more
\* than four times that one, and at most four times some value.
LEMMA MedianAbove ==
    ASSUME NEW D, IsFiniteSet(D), Cardinality(D) >= 3, NEW bound \in Nat, NEW f, DOMAIN f = D,
           \A d \in D : f[d] \in Nat /\ f[d] <= bound,
           NEW last \in D, \A d \in D \ {last} : f[d] > 2 * f[last]
    PROVE  /\ TwiceMedian(f) \in Nat /\ TwiceMedian(f) > 4 * f[last]
           /\ \E d \in D : 4 * f[d] >= TwiceMedian(f)
  <1>. DEFINE n == Cardinality(D)
              mid == n \div 2
  <1>1. n \in Nat /\ n >= 3 /\ f[last] \in Nat
    BY FS_CardinalityType
  <1>2. ASSUME NEW k \in Nat, 2 <= k, k <= n
        PROVE  Ranked(f, k) > 2 * f[last] /\ \E d \in D : Ranked(f, k) = f[d]
    <2>1. /\ \E d \in D : Ranked(f, k) = f[d]
          /\ k <= Cardinality({d \in D : f[d] <= Ranked(f, k)})
      BY <1>2, RankedIs
    <2>2. ASSUME ~ (Ranked(f, k) > 2 * f[last]) PROVE FALSE
      <3>1. Ranked(f, k) \in Nat
        BY <2>1
      <3>2. {d \in D : f[d] <= Ranked(f, k)} \in SUBSET {last}
        BY <1>1, <2>2, <3>1
      <3>3. Cardinality({d \in D : f[d] <= Ranked(f, k)}) <= 1
        <4>1. IsFiniteSet({last}) /\ Cardinality({last}) = 1
          BY FS_Singleton
        <4>2. Cardinality({d \in D : f[d] <= Ranked(f, k)}) <= Cardinality({last})
          BY <3>2, <4>1, Cards
        <4>. QED
          BY <4>1, <4>2
      <3>4. Cardinality({d \in D : f[d] <= Ranked(f, k)}) \in Nat
        BY Cards
      <3>. QED
        BY <1>2, <2>1, <3>3, <3>4
    <2>. QED
      BY <2>1, <2>2
  <1>3. mid \in Nat /\ 1 <= mid /\ mid + 1 <= n /\ (n % 2 # 1 => 2 <= mid)
    BY <1>1
  <1>4. CASE n % 2 = 1
    <2>1. TwiceMedian(f) = 2 * Ranked(f, mid + 1)
      BY <1>4 DEF TwiceMedian
    <2>. HIDE DEF mid, n
    <2>2. PICK a \in D : Ranked(f, mid + 1) = f[a] /\ f[a] > 2 * f[last]
      BY <1>2, <1>3
    <2>. QED
      BY <1>1, <2>1, <2>2
  <1>5. CASE n % 2 # 1
    <2>1. TwiceMedian(f) = Ranked(f, mid) + Ranked(f, mid + 1)
      BY <1>5 DEF TwiceMedian
    <2>2. 2 <= mid
      BY <1>3, <1>5
    <2>. HIDE DEF mid, n
    <2>3. PICK a \in D : Ranked(f, mid + 1) = f[a] /\ f[a] > 2 * f[last]
      BY <1>2, <1>3
    <2>4. PICK b \in D : Ranked(f, mid) = f[b] /\ f[b] > 2 * f[last]
      BY <1>1, <1>2, <1>3, <2>2
    <2>5. f[a] \in Nat /\ f[b] \in Nat /\ TwiceMedian(f) = f[b] + f[a]
      BY <2>1, <2>3, <2>4
    <2>6. TwiceMedian(f) > 4 * f[last]
      BY <1>1, <2>3, <2>4, <2>5
    <2>7. 4 * f[a] >= TwiceMedian(f) \/ 4 * f[b] >= TwiceMedian(f)
      BY <2>5
    <2>8. TwiceMedian(f) \in Nat
      BY <2>5
    <2>. QED
      BY <2>6, <2>7, <2>8
  <1>. QED
    BY <1>4, <1>5

\* The days of a venue, latest first: at least three of them are recent.
LEMMA RecentIs ==
    ASSUME RecentWindow >= 3, NEW days \in SUBSET Day, NEW last \in days, \A d \in days : d <= last,
           Cardinality(days \ {last}) >= 2
    PROVE  LET recent == {d \in days : Cardinality({e \in days : e > d}) < RecentWindow}
           IN  last \in recent /\ IsFiniteSet(recent) /\ Cardinality(recent) >= 3
  <1>. DEFINE recent == {d \in days : Cardinality({e \in days : e > d}) < RecentWindow}
              others == days \ {last}
  <1>0. IsFiniteSet(Day)
    BY FS_Interval, CatalogueAssumption DEF Day
  <1>1. IsFiniteSet(Day) /\ Day \in SUBSET Nat /\ MaxDay \in Nat /\ \A d \in Day : d <= MaxDay
    BY <1>0, CatalogueAssumption DEF Day
  <1>2. IsFiniteSet(days) /\ IsFiniteSet(others)
    BY <1>1, Cards
  <1>3. others \in SUBSET Nat /\ others # {} /\ \A d \in others : d <= MaxDay
    BY <1>1, <1>2, FS_EmptySet
  <1>4. PICK a \in others : \A d \in others : d <= a
    <2>. HIDE DEF others
    <2>. QED
      BY <1>1, <1>3, NatMax
  <1>5. others \ {a} # {}
    <2>1. Cardinality({a}) = 1
      BY FS_Singleton
    <2>2. others # {a}
      BY <2>1
    <2>. QED
      BY <1>4, <2>2
  <1>6. PICK b \in others \ {a} : \A d \in others \ {a} : d <= b
    <2>. DEFINE T == others \ {a}
    <2>1. T \in SUBSET Nat /\ T # {} /\ \A d \in T : d <= MaxDay
      BY <1>3, <1>5
    <2>. HIDE DEF T
    <2>2. \E x \in T : \A y \in T : y <= x
      BY <1>1, <2>1, NatMax
    <2>. QED
      BY <2>2 DEF T
  <1>7. last \in Nat /\ a \in Nat /\ b \in Nat /\ a \in days /\ b \in days /\ last # a /\ last # b /\ a # b
    BY <1>1, <1>4, <1>6
  <1>8. Cardinality({}) = 0 /\ Cardinality({last}) = 1 /\ Cardinality({last, a}) = 2
        /\ Cardinality({last, a, b}) = 3
    <2>1. IsFiniteSet({}) /\ Cardinality({}) = 0
      BY FS_EmptySet
    <2>2. IsFiniteSet({last}) /\ Cardinality({last}) = 1
      BY FS_Singleton
    <2>3. {last} \cup {a} = {last, a} /\ {last, a} \cup {b} = {last, a, b}
      OBVIOUS
    <2>4. IsFiniteSet({last, a}) /\ Cardinality({last, a}) = 2
      <3>1. /\ IsFiniteSet({last} \cup {a})
            /\ Cardinality({last} \cup {a}) = IF a \in {last} THEN Cardinality({last}) ELSE Cardinality({last}) + 1
        BY <2>2, FS_AddElement, Zenon
      <3>. QED
        BY <1>7, <2>2, <2>3, <3>1
    <2>5. Cardinality({last, a, b}) = 3
      <3>. DEFINE two == {last, a}
      <3>1. Cardinality(two \cup {b}) = IF b \in two THEN Cardinality(two) ELSE Cardinality(two) + 1
        BY <2>4, FS_AddElement, Zenon
      <3>. QED
        BY <1>7, <2>3, <2>4, <3>1
    <2>. QED
      BY <2>1, <2>2, <2>4, <2>5
  <1>9. \A d \in days : d \in Nat
    BY <1>1
  <1>10. {e \in days : e > last} = {}
    <2>1. \A d \in days : d <= last /\ ~ (d > last)
      BY <1>7, <1>9
    <2>. QED
      BY <2>1
  <1>11. {e \in days : e > a} = {last}
    <2>1. last > a
      BY <1>7
    <2>2. \A e \in days : e > a => e = last
      BY <1>4, <1>7, <1>9
    <2>. QED
      BY <2>1, <2>2
  <1>12. {e \in days : e > b} = {last, a}
    <2>1. last > b /\ a > b
      BY <1>4, <1>6, <1>7
    <2>2. \A e \in days : e > b => e = last \/ e = a
      BY <1>6, <1>7, <1>9
    <2>. QED
      BY <1>7, <2>1, <2>2
  <1>13. RecentWindow \in Nat
    BY CatalogueAssumption
  <1>14. last \in recent /\ a \in recent /\ b \in recent
    BY <1>7, <1>8, <1>10, <1>11, <1>12, <1>13
  <1>15. IsFiniteSet(recent) /\ {last, a, b} \in SUBSET recent
    BY <1>2, <1>14, Cards
  <1>. HIDE DEF recent
  <1>16. Cardinality(recent) \in Nat /\ 3 <= Cardinality(recent)
    BY <1>8, <1>15, Cards, FS_CardinalityType
  <1>17. last \in recent /\ IsFiniteSet(recent) /\ Cardinality(recent) >= 3
    BY <1>14, <1>15, <1>16
  <1>. QED
    BY <1>17 DEF recent

\* A thin last day is not the venue's last full one.
LEMMA ThinIsNotFull ==
    ASSUME RecentWindow >= 3, rows \in SUBSET (Day \X Instrument), NEW v, ThinLast(v)
    PROVE  LET others == DaysOf(rows, v) \ {Max(DaysOf(rows, v))}
           IN  /\ others \in SUBSET Day
               /\ Max(others) \in others
               /\ VenueLastFullDay(rows, v) \in Int /\ VenueLastFullDay(rows, v) <= Max(others)
  <1>. DEFINE days == DaysOf(rows, v)
              last == Max(days)
              others == days \ {last}
              C(d) == Count(rows, v, d)
              recent == {d \in days : Cardinality({e \in days : e > d}) < RecentWindow}
              f == [d \in recent |-> C(d)]
              full == {d \in days : 4 * C(d) >= TwiceMedian(f)}
  <1>1. Day \in SUBSET Int /\ IsFiniteSet(Day) /\ MaxDay \in Int /\ \A d \in Day : d <= MaxDay
    BY FS_Interval, CatalogueAssumption DEF Day
  <1>2. days \in SUBSET Day
    BY DEF DaysOf
  <1>3. Cardinality(others) >= 2 /\ \A d \in others : C(d) > 2 * C(last)
    BY DEF ThinLast
  <1>4. VenueLastFullDay(rows, v) = Max(IF full = {} THEN days ELSE full)
    BY DEF VenueLastFullDay
  <1>5. \A d : C(d) \in Nat /\ C(d) <= Cardinality(Instrument)
    BY Cards, CatalogueAssumption DEF Count
  <1>6. Cardinality(Instrument) \in Nat
    BY FS_CardinalityType, CatalogueAssumption
  <1>. HIDE DEF days, C
  <1>7. IsFiniteSet(others) /\ others # {}
    <2>1. IsFiniteSet(others)
      BY <1>1, <1>2, Cards
    <2>. QED
      BY <1>3, <2>1, FS_EmptySet
  <1>8. last \in days /\ \A d \in days : d <= last
    <2>1. days \in SUBSET Int /\ days # {} /\ \A d \in days : d <= MaxDay
      BY <1>1, <1>2, <1>7
    <2>. QED
      BY <1>1, <2>1, MaxIs
  <1>9. others \in SUBSET Day /\ Max(others) \in others /\ \A d \in others : d <= Max(others)
    <2>1. others \in SUBSET Int /\ \A d \in others : d <= MaxDay
      BY <1>1, <1>2
    <2>2. others \in SUBSET Day
      BY <1>2
    <2>. HIDE DEF others
    <2>. QED
      BY <1>1, <1>7, <2>1, <2>2, MaxIs
  <1>. HIDE DEF last
  <1>10. last \in recent /\ IsFiniteSet(recent) /\ Cardinality(recent) >= 3
    BY <1>2, <1>3, <1>8, RecentIs
  <1>11. \A d \in recent \ {last} : C(d) > 2 * C(last)
    BY <1>3
  <1>12. recent \in SUBSET days
    OBVIOUS
  <1>. HIDE DEF recent
  <1>13. DOMAIN f = recent /\ \A d \in recent : f[d] = C(d)
    OBVIOUS
  <1>. HIDE DEF f
  <1>14. TwiceMedian(f) \in Nat /\ TwiceMedian(f) > 4 * C(last)
         /\ \E d \in recent : 4 * C(d) >= TwiceMedian(f)
    <2>1. /\ \A d \in recent : f[d] \in Nat /\ f[d] <= Cardinality(Instrument)
          /\ \A d \in recent \ {last} : f[d] > 2 * f[last]
      BY <1>5, <1>10, <1>11, <1>13
    <2>2. TwiceMedian(f) \in Nat /\ TwiceMedian(f) > 4 * f[last]
          /\ \E d \in recent : 4 * f[d] >= TwiceMedian(f)
      BY <1>6, <1>10, <1>13, <2>1, MedianAbove
    <2>. QED
      BY <1>10, <1>13, <2>2
  <1>15. full # {}
    BY <1>12, <1>14
  <1>16. last \notin full
    <2>1. TwiceMedian(f) \in Nat /\ TwiceMedian(f) > 4 * C(last) /\ C(last) \in Nat
      BY <1>5, <1>14
    <2>2. ~ (4 * C(last) >= TwiceMedian(f))
      BY <2>1
    <2>. QED
      BY <2>2
  <1>17. full \in SUBSET others
    BY <1>16
  <1>18. VenueLastFullDay(rows, v) \in others
    <2>1. full \in SUBSET Int /\ \A d \in full : d <= MaxDay
      BY <1>1, <1>9, <1>17
    <2>. HIDE DEF full, others
    <2>2. Max(full) \in full
      BY <1>1, <1>15, <2>1, MaxIs
    <2>. QED
      BY <1>4, <1>15, <1>17, <2>2
  <1>19. VenueLastFullDay(rows, v) \in Int /\ VenueLastFullDay(rows, v) <= Max(others)
    BY <1>1, <1>9, <1>18
  <1>. QED
    BY <1>9, <1>19 DEF last, days

\* When jobs do not overlap, a latest snapshot with less than half the rows of each of at
\* least two before it closes nobody who was there the day before, unless the venue
\* declares an end (ThinDayClosesNobody), for any numbers of rows and any recent window of
\* three days or more (the code's has 14): the thin day is below the recent median, some
\* day before it is not.
THEOREM ThinDaySafe ==
    ASSUME OneJob, RecentWindow >= 3
    PROVE  Spec => ThinDayClosesNobody
  <1>1. ASSUME Typed, IInv, Watched, NEW j \in Job, CalmCopy(j), job[j].mode = "full",
               NEW i \in DOMAIN Build(rows), ThinLast(VenueOf[i]), Ends[i] = Active,
               <<Max(DaysOf(rows, VenueOf[i]) \ {Max(DaysOf(rows, VenueOf[i]))}), i>> \in rows
        PROVE  cat'.rows[i].to = Active
    <2>. DEFINE v == VenueOf[i]
                others == DaysOf(rows, v) \ {Max(DaysOf(rows, v))}
                days == {r[1] : r \in {s \in rows : s[2] = i}}
    <2>1. rows \in SUBSET (Day \X Instrument)
      BY <1>1 DEF Typed
    <2>2. /\ others \in SUBSET Day /\ Max(others) \in others
          /\ VenueLastFullDay(rows, v) \in Int /\ VenueLastFullDay(rows, v) <= Max(others)
      BY <1>1, <2>1, ThinIsNotFull
    <2>3. Max(others) \in days
      BY <1>1
    <2>4. Day \in SUBSET Int /\ MaxDay \in Int /\ \A d \in Day : d <= MaxDay
      BY CatalogueAssumption DEF Day
    <2>5. days \in SUBSET Day
      BY <2>1
    <2>6. Max(days) \in Int /\ Max(others) <= Max(days)
      <3>1. days \in SUBSET Int /\ days # {} /\ \A d \in days : d <= MaxDay
        BY <2>3, <2>4, <2>5
      <3>. HIDE DEF days
      <3>2. Max(days) \in days /\ \A d \in days : d <= Max(days)
        BY <2>4, <3>1, MaxIs
      <3>. QED
        BY <2>3, <3>1, <3>2
    <2>7. Max(others) \in Int
      BY <2>2, <2>4
    <2>8. Max(days) >= VenueLastFullDay(rows, v)
      <3>. HIDE DEF days, others, v
      <3>. QED
        BY <2>2, <2>6, <2>7
    <2>9. i \in {r[2] : r \in rows}
      BY <2>3
    <2>10. Build(rows)[i].to = Active
      BY <1>1, <2>8, <2>9 DEF Build
    <2>. QED
      BY <1>1, <2>10, CopyBrings
  <1>2. Typed /\ IInv /\ Watched =>
            [\A j \in Job : CalmCopy(j) /\ job[j].mode = "full" =>
                \A i \in DOMAIN Build(rows) :
                    LET v == VenueOf[i]
                        others == DaysOf(rows, v) \ {Max(DaysOf(rows, v))}
                    IN  ThinLast(v) /\ Ends[i] = Active /\ <<Max(others), i>> \in rows
                            => cat'.rows[i].to = Active]_vars
    BY <1>1
  <1>. QED
    BY <1>2, WatchedInvariant, PTL DEF ThinDayClosesNobody
=============================================================================
