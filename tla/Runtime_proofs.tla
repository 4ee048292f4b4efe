---------------------------- MODULE Runtime_proofs ----------------------------
(***************************************************************************)
(* Proofs about Runtime for every number of clients, drivers and runtimes: *)
(* type correctness, that nothing is used after it is destroyed, that      *)
(* commands reach running drivers, and that no runtime is lost.            *)
(***************************************************************************)
EXTENDS Runtime, TLAPS

AllRunning(r) == \A d \in Driver : driver[r][d] = "running"
Building == {"constructing", "starting", "unwinding", "publishing"}

\* Where a client has a reference, and where its loop begins.
PlacesKnown ==
    \A c \in Client : /\ pc[c] = "idle" => held[c] = None
                      /\ pc[c] \notin {"idle", "destroying"} => held[c] # None
                      /\ pc[c] \in {"idle", "publishing", "returning"} => at[c] = 1

\* Nobody else knows a runtime that init is building.
BuiltAlone ==
    \A c \in Client : pc[c] \in Building =>
        /\ held[c] # runtime
        /\ \A b \in Client : held[b] = held[c] => b = c

\* A runtime that was not made yet is nowhere.
Unborn ==
    \A r \in Run : r > created =>
        /\ \A d \in Driver : driver[r][d] = "none"
        /\ r # runtime
        /\ \A c \in Client : held[c] # r /\ victim[c] # r

\* What a destructor has come to is stopped, and freed only at its end.
VictimsWhole ==
    \A c \in Client : victim[c] # None => \A d \in Driver :
        /\ driver[victim[c]][d] # "freed"
        /\ d < at[c] => driver[victim[c]][d] \in {"none", "stopped"}

\* What is published or commanded runs; what is being constructed does not yet.
RunningKnown ==
    /\ runtime # None => AllRunning(runtime)
    /\ \A c \in Client : pc[c] \in {"commanding", "publishing"} => AllRunning(held[c])
    /\ \A c \in Client : pc[c] = "starting" =>
           \A d \in Driver : d < at[c] => driver[held[c]][d] = "running"
    /\ \A c \in Client : pc[c] = "constructing" =>
           \A d \in Driver : driver[held[c]][d] \in {"none", "open"}

Inv == /\ TypeOK /\ PlacesKnown /\ BuiltAlone /\ Unborn /\ VictimsWhole
       /\ RunningKnown /\ NothingUsedAfterFree /\ NoneLeaked

-------------------------------------------------------------------------------
(* The constants, and the two ways a step changes a function.              *)

LEMMA NoneIsNoRun == None \notin Run
  BY CountsAreNat DEF None, Run

LEMMA LoopsCount ==
  /\ 1 \in 1..(DriverCount + 1)
  /\ \A i \in 1..(DriverCount + 1) :
        i <= DriverCount => i \in Driver /\ i + 1 \in 1..(DriverCount + 1)
  BY CountsAreNat DEF Driver

LEMMA DriversAreNumbers == \A d \in Driver : d \in Int /\ d < DriverCount + 1
  BY CountsAreNat DEF Driver

\* SetDriver changes one driver of one runtime.
LEMMA SetDriverEffect ==
  ASSUME driver \in [Run -> [Driver -> DriverState]],
         NEW r \in Run, NEW d \in Driver, NEW state \in DriverState, SetDriver(r, d, state)
  PROVE  /\ driver' \in [Run -> [Driver -> DriverState]]
         /\ \A q \in Run, e \in Driver :
               driver'[q][e] = IF q = r /\ e = d THEN state ELSE driver[q][e]
  BY DEF SetDriver

\* A runtime in use is one that was made.
LEMMA HeldWasMade ==
  ASSUME Inv, NEW c \in Client, held[c] # None
  PROVE  held[c] \in Run /\ held[c] <= created
  BY CountsAreNat DEF Inv, TypeOK, Unborn, Run

-------------------------------------------------------------------------------
\* A client moves within its call, with the references it has.
LEMMA MoveInv ==
  ASSUME Inv, NEW c \in Client, NEW to \in Where \ {"idle", "constructing", "destroying"},
         NEW i \in 1..(DriverCount + 1),
         pc[c] \notin {"idle", "destroying"},
         pc' = [pc EXCEPT ![c] = to], at' = [at EXCEPT ![c] = i],
         UNCHANGED <<created, driver, handling, runtime, held, victim>>,
         to \in Building => pc[c] \in Building,
         to \in {"publishing", "returning"} => i = 1,
         to = "commanding" => pc[c] = "commanding",
         to = "publishing" => AllRunning(held[c]),
         to = "starting" => \A d \in Driver : d < i => driver[held[c]][d] = "running"
  PROVE  Inv'
<1>1. TypeOK'
  <2>1. pc' \in [Client -> Where] /\ at' \in [Client -> 1..(DriverCount + 1)]
    BY DEF Inv, TypeOK
  <2>2. \A b \in Client : pc'[b] = "destroying" <=> victim'[b] # None
    BY DEF Inv, TypeOK
  <2> QED
    BY <2>1, <2>2 DEF Inv, TypeOK
<1>2. PlacesKnown'
  BY DEF Inv, TypeOK, PlacesKnown
<1>3. BuiltAlone'
  BY DEF Inv, TypeOK, BuiltAlone
<1>4. Unborn' /\ NothingUsedAfterFree' /\ NoneLeaked'
  BY DEF Inv, Unborn, NothingUsedAfterFree, NoneLeaked, IsHeld, Freed
<1>5. VictimsWhole'
  BY DEF Inv, TypeOK, VictimsWhole
<1>6. RunningKnown'
  BY DEF Inv, TypeOK, RunningKnown, AllRunning, Building
<1> QED
  BY <1>1, <1>2, <1>3, <1>4, <1>5, <1>6 DEF Inv

\* A client that builds, starts or unwinds a runtime changes one driver of it.
LEMMA BuildInv ==
  ASSUME Inv, NEW c \in Client, pc[c] \in {"constructing", "starting", "unwinding"},
         NEW i \in 1..(DriverCount + 1), NEW state \in DriverState \ {"none", "freed"},
         at[c] \in Driver, at' = [at EXCEPT ![c] = i],
         SetDriver(held[c], at[c], state),
         UNCHANGED <<created, handling, runtime, pc, held, victim>>,
         <<held[c], at[c]>> \in handling => state \in {"running", "stopping"},
         pc[c] = "starting" => i = at[c] + 1 /\ state = "running",
         pc[c] = "constructing" => state = "open"
  PROVE  Inv'
<1>1. held[c] \in Run /\ held[c] <= created /\ held[c] # None
  BY HeldWasMade DEF Inv, PlacesKnown
<1>2. /\ driver' \in [Run -> [Driver -> DriverState]]
      /\ \A q \in Run, e \in Driver :
            driver'[q][e] = IF q = held[c] /\ e = at[c] THEN state ELSE driver[q][e]
  BY <1>1, SetDriverEffect DEF Inv, TypeOK
<1>3. /\ held[c] # runtime
      /\ \A b \in Client : /\ held[b] = held[c] => b = c
                           /\ victim[b] # held[c]
  BY <1>1 DEF Inv, BuiltAlone, Building, NothingUsedAfterFree, IsHeld
<1>4. TypeOK'
  BY <1>2 DEF Inv, TypeOK
<1>5. PlacesKnown'
  BY DEF Inv, TypeOK, PlacesKnown
<1>6. BuiltAlone'
  BY DEF Inv, BuiltAlone
<1>7. Unborn'
  BY <1>1, <1>2, CountsAreNat DEF Inv, TypeOK, Unborn, Run
<1>8. VictimsWhole'
  <2> SUFFICES ASSUME NEW b \in Client, victim[b] # None, NEW d \in Driver
               PROVE  /\ driver'[victim[b]][d] # "freed"
                      /\ d < at'[b] => driver'[victim[b]][d] \in {"none", "stopped"}
    BY DEF VictimsWhole
  <2>1. victim[b] \in Run /\ b # c /\ at'[b] = at[b]
    BY DEF Inv, TypeOK
  <2> QED
    BY <1>2, <1>3, <2>1 DEF Inv, VictimsWhole
<1>9. RunningKnown'
  <2>1. runtime # None => AllRunning(runtime)'
    BY <1>2, <1>3 DEF Inv, TypeOK, RunningKnown, AllRunning
  <2>2. ASSUME NEW b \in Client, pc[b] \in {"commanding", "publishing"}
        PROVE  AllRunning(held[b])'
    <3>1. b # c /\ held[b] # None
      BY <2>2 DEF Inv, PlacesKnown
    <3>2. held[b] \in Run /\ held[b] # held[c]
      BY <1>3, <3>1, HeldWasMade
    <3> QED
      BY <1>2, <2>2, <3>2 DEF Inv, RunningKnown, AllRunning
  <2>3. ASSUME NEW b \in Client, pc[b] = "starting", NEW d \in Driver, d < at'[b]
        PROVE  driver'[held[b]][d] = "running"
    <3>1. held[b] \in Run
      BY <2>3, HeldWasMade DEF Inv, PlacesKnown
    <3>2. CASE b = c
      <4>1. at'[c] = at[c] + 1 /\ state = "running"
        BY <2>3, <3>2 DEF Inv, TypeOK
      <4>2. d = at[c] \/ d < at[c]
        BY <2>3, <3>2, <4>1, DriversAreNumbers
      <4> QED
        BY <1>2, <2>3, <3>1, <3>2, <4>1, <4>2 DEF Inv, RunningKnown
    <3>3. CASE b # c
      <4>1. at'[b] = at[b] /\ held[b] # held[c]
        BY <1>3, <3>3 DEF Inv, TypeOK
      <4> QED
        BY <1>2, <2>3, <3>1, <4>1 DEF Inv, RunningKnown
    <3> QED
      BY <3>2, <3>3
  <2>4. ASSUME NEW b \in Client, pc[b] = "constructing", NEW d \in Driver
        PROVE  driver'[held[b]][d] \in {"none", "open"}
    <3>1. held[b] \in Run /\ (b # c => held[b] # held[c])
      BY <1>3, <2>4, HeldWasMade DEF Inv, PlacesKnown
    <3>2. driver[held[b]][d] \in {"none", "open"}
      BY <2>4 DEF Inv, RunningKnown
    <3> QED
      BY <1>2, <2>4, <3>1, <3>2
  <2> QED
    BY <2>1, <2>2, <2>3, <2>4 DEF RunningKnown
<1>10. NothingUsedAfterFree'
  <2>1. ASSUME NEW r \in Run, r = runtime \/ IsHeld(r)
        PROVE  ~Freed(r)' /\ \A b \in Client : victim[b] # r
    BY <1>2, <2>1 DEF Inv, NothingUsedAfterFree, Freed
  <2>2. ASSUME NEW r \in Run, NEW d \in Driver, <<r, d>> \in handling
        PROVE  driver'[r][d] \in {"running", "stopping"}
    BY <1>2, <2>2 DEF Inv, NothingUsedAfterFree
  <2> QED
    BY <2>1, <2>2 DEF Inv, NothingUsedAfterFree, IsHeld
<1>11. NoneLeaked'
  <2> SUFFICES ASSUME NEW r \in 1..created, NEW d \in Driver, driver'[r][d] # "freed"
               PROVE  r = runtime \/ IsHeld(r) \/ \E b \in Client : victim[b] = r
    BY DEF NoneLeaked, IsHeld
  <2>1. CASE r = held[c]
    BY <2>1 DEF IsHeld
  <2>2. CASE r # held[c]
    <3>1. r \in Run
      BY CountsAreNat DEF Inv, TypeOK, Run
    <3> QED
      BY <1>2, <2>2, <3>1 DEF Inv, NoneLeaked
  <2> QED
    BY <2>1, <2>2
<1> QED
  BY <1>4, <1>5, <1>6, <1>7, <1>8, <1>9, <1>10, <1>11 DEF Inv

-------------------------------------------------------------------------------
(* References change hands.                                                 *)

\* Driving the last reference out: c's destructor gets a runtime that nobody
\* can reach any more.
LEMMA CondemnInv ==
  ASSUME Inv, NEW c \in Client, NEW r \in Run, at[c] = 1, pc[c] # "destroying",
         r = runtime \/ held[c] = r,
         NEW next \in Run \cup {None}, NEW ref \in Run \cup {None},
         next # r, ref # r,
         next # None => AllRunning(next) /\ next = held[c] /\ pc[c] = "publishing",
         ref \in {held[c], None},
         \A b \in Client : b # c => held[b] # r,
         runtime' = IF r = runtime THEN next ELSE runtime,
         held' = [held EXCEPT ![c] = ref],
         held[c] \in {ref, None, r},
         victim' = [victim EXCEPT ![c] = r],
         pc' = [pc EXCEPT ![c] = "destroying"],
         UNCHANGED <<created, driver, handling, at>>
  PROVE  Inv'
<1>1. ~Freed(r) /\ \A b \in Client : victim[b] # r
  BY DEF Inv, NothingUsedAfterFree, IsHeld
<1>2. TypeOK'
  <2>1. /\ pc' \in [Client -> Where] /\ held' \in [Client -> Run \cup {None}]
        /\ victim' \in [Client -> Run \cup {None}] /\ runtime' \in Run \cup {None}
    BY DEF Inv, TypeOK, Where
  <2>2. \A b \in Client : pc'[b] = "destroying" <=> victim'[b] # None
    BY NoneIsNoRun DEF Inv, TypeOK
  <2> QED
    BY <2>1, <2>2 DEF Inv, TypeOK
<1>3. PlacesKnown'
  BY DEF Inv, TypeOK, PlacesKnown
<1>4. BuiltAlone'
  <2> SUFFICES ASSUME NEW b \in Client, pc'[b] \in Building
               PROVE  held'[b] # runtime' /\ \A a \in Client : held'[a] = held'[b] => a = b
    BY DEF BuiltAlone
  <2>1. b # c /\ pc[b] \in Building /\ held'[b] = held[b]
    BY DEF Inv, TypeOK, Building
  <2>2. held[b] # None /\ held[b] # runtime /\ \A a \in Client : held[a] = held[b] => a = b
    BY <2>1 DEF Inv, PlacesKnown, BuiltAlone, Building
  <2>3. \A a \in Client : held'[a] = held'[b] => a = b
    BY <2>1, <2>2 DEF Inv, TypeOK
  <2> QED
    BY <2>1, <2>2, <2>3
<1>5. Unborn'
  <2>1. ~(r > created)
    BY DEF Inv, Unborn
  <2>2. \A q \in Run : q > created => q # next /\ q # ref
    BY NoneIsNoRun DEF Inv, Unborn
  <2> QED
    BY <2>1, <2>2 DEF Inv, TypeOK, Unborn
<1>6. VictimsWhole'
  <2> SUFFICES ASSUME NEW b \in Client, victim'[b] # None, NEW d \in Driver
               PROVE  /\ driver[victim'[b]][d] # "freed"
                      /\ d < at[b] => driver[victim'[b]][d] \in {"none", "stopped"}
    BY DEF VictimsWhole
  <2>1. CASE b = c
    <3>1. victim'[b] = r /\ ~(d < at[b])
      BY <2>1, CountsAreNat DEF Inv, TypeOK, Driver
    <3> QED
      BY <1>1, <3>1 DEF Freed
  <2>2. CASE b # c
    <3>1. victim'[b] = victim[b]
      BY <2>2 DEF Inv, TypeOK
    <3> QED
      BY <3>1 DEF Inv, VictimsWhole
  <2> QED
    BY <2>1, <2>2
<1>7. RunningKnown'
  <2>1. runtime' # None => AllRunning(runtime)'
    BY DEF Inv, RunningKnown, AllRunning
  <2>2. \A b \in Client : pc'[b] \notin {"idle", "destroying"} => pc'[b] = pc[b] /\ held'[b] = held[b]
    BY DEF Inv, TypeOK
  <2> QED
    BY <2>1, <2>2 DEF Inv, RunningKnown, AllRunning
<1>8. NothingUsedAfterFree'
  <2>1. ASSUME NEW q \in Run, q = runtime' \/ IsHeld(q)'
        PROVE  q # r /\ (q = runtime \/ IsHeld(q))
    <3>1. q # None
      BY NoneIsNoRun
    <3>2. CASE q = runtime'
      BY <2>1, <3>1, <3>2 DEF IsHeld
    <3>3. ASSUME NEW b \in Client, held'[b] = q PROVE q # r /\ IsHeld(q)
      <4>1. CASE b = c
        <5>1. held'[c] = ref
          BY DEF Inv, TypeOK
        <5>2. ref = q /\ held[c] = q
          BY <3>1, <3>3, <4>1, <5>1
        <5> QED
          BY <5>2 DEF IsHeld
      <4>2. CASE b # c
        <5>1. held'[b] = held[b]
          BY <4>2 DEF Inv, TypeOK
        <5> QED
          BY <3>3, <4>2, <5>1 DEF IsHeld
      <4> QED
        BY <4>1, <4>2
    <3>4. IsHeld(q)' => \E b \in Client : held'[b] = q
      BY DEF IsHeld
    <3> QED
      BY <2>1, <3>2, <3>3, <3>4
  <2>2. ASSUME NEW q \in Run, q = runtime' \/ IsHeld(q)'
        PROVE  ~Freed(q)' /\ \A b \in Client : victim'[b] # q
    BY <2>1, <2>2 DEF Inv, TypeOK, NothingUsedAfterFree, Freed
  <2>3. ASSUME NEW a \in Client, NEW b \in Client, victim'[a] # None, victim'[a] = victim'[b]
        PROVE  a = b
    BY <1>1, <2>3 DEF Inv, TypeOK, NothingUsedAfterFree
  <2>4. ASSUME NEW q \in Run, NEW d \in Driver, <<q, d>> \in handling'
        PROVE  driver'[q][d] \in {"running", "stopping"}
    BY <2>4 DEF Inv, NothingUsedAfterFree
  <2> QED
    BY <2>2, <2>3, <2>4 DEF NothingUsedAfterFree
<1>9. NoneLeaked'
  <2> SUFFICES ASSUME NEW q \in 1..created, NEW d \in Driver, driver[q][d] # "freed"
               PROVE  q = runtime' \/ IsHeld(q)' \/ \E b \in Client : victim'[b] = q
    BY DEF NoneLeaked
  <2>1. CASE q = r
    BY <2>1 DEF Inv, TypeOK
  <2>2. CASE q # r
    <3>1. q # None
      BY DEF None
    <3>2. CASE q = runtime
      BY <2>2, <3>2
    <3>3. ASSUME NEW b \in Client, held[b] = q PROVE held'[b] = q
      BY <2>2, <3>1, <3>3 DEF Inv, TypeOK
    <3>4. ASSUME NEW b \in Client, victim[b] = q PROVE victim'[b] = q
      BY <3>1, <3>4 DEF Inv, TypeOK
    <3> QED
      BY <3>2, <3>3, <3>4 DEF Inv, NoneLeaked, IsHeld
  <2> QED
    BY <2>1, <2>2
<1> QED
  BY <1>2, <1>3, <1>4, <1>5, <1>6, <1>7, <1>8, <1>9 DEF Inv

\* The same, when somebody still holds what c lets go of.
LEMMA LetGoInv ==
  ASSUME Inv, NEW c \in Client, pc[c] # "destroying",
         NEW next \in Run \cup {None}, NEW ref \in Run \cup {None},
         NEW to \in {"idle", "returning"},
         next # None /\ next # runtime =>
            AllRunning(next) /\ next = held[c] /\ pc[c] = "publishing",
         ref \in {held[c], None}, ref = None <=> to = "idle", at[c] = 1,
         runtime # None /\ next # runtime => \E b \in Client : held'[b] = runtime,
         held[c] # None /\ ref = None => held[c] = next \/ \E b \in Client : held'[b] = held[c],
         runtime' = next,
         held' = [held EXCEPT ![c] = ref],
         pc' = [pc EXCEPT ![c] = to],
         UNCHANGED <<created, driver, handling, victim, at>>
  PROVE  Inv'
<1>1. TypeOK'
  <2>1. pc' \in [Client -> Where] /\ held' \in [Client -> Run \cup {None}]
    BY DEF Inv, TypeOK, Where
  <2>2. \A b \in Client : pc'[b] = "destroying" <=> victim'[b] # None
    BY DEF Inv, TypeOK
  <2> QED
    BY <2>1, <2>2 DEF Inv, TypeOK
<1>2. PlacesKnown'
  BY DEF Inv, TypeOK, PlacesKnown
<1>3. BuiltAlone'
  <2> SUFFICES ASSUME NEW b \in Client, pc'[b] \in Building
               PROVE  held'[b] # runtime' /\ \A a \in Client : held'[a] = held'[b] => a = b
    BY DEF BuiltAlone
  <2>1. b # c /\ pc[b] \in Building /\ held'[b] = held[b]
    BY DEF Inv, TypeOK, Building
  <2>2. held[b] # None /\ held[b] # runtime /\ \A a \in Client : held[a] = held[b] => a = b
    BY <2>1 DEF Inv, PlacesKnown, BuiltAlone, Building
  <2>3. \A a \in Client : held'[a] = held'[b] => a = b
    BY <2>1, <2>2 DEF Inv, TypeOK
  <2> QED
    BY <2>1, <2>2, <2>3
<1>4. Unborn'
  <2>1. \A q \in Run : q > created => q # next /\ q # ref
    BY NoneIsNoRun DEF Inv, Unborn
  <2> QED
    BY <2>1 DEF Inv, TypeOK, Unborn
<1>5. VictimsWhole'
  BY DEF Inv, TypeOK, VictimsWhole
<1>6. RunningKnown'
  <2>1. runtime' # None => AllRunning(runtime)'
    BY DEF Inv, RunningKnown, AllRunning
  <2>2. \A b \in Client : pc'[b] \notin {"idle", "returning"} => pc'[b] = pc[b] /\ held'[b] = held[b]
    BY DEF Inv, TypeOK
  <2> QED
    BY <2>1, <2>2 DEF Inv, RunningKnown, AllRunning
<1>7. NothingUsedAfterFree'
  <2>1. ASSUME NEW q \in Run, q = runtime' \/ IsHeld(q)'
        PROVE  q = runtime \/ IsHeld(q)
    BY <2>1, NoneIsNoRun DEF Inv, TypeOK, IsHeld
  <2> QED
    BY <2>1 DEF Inv, NothingUsedAfterFree, Freed
<1>8. NoneLeaked'
  <2> SUFFICES ASSUME NEW q \in 1..created, NEW d \in Driver, driver[q][d] # "freed"
               PROVE  q = runtime' \/ IsHeld(q)' \/ \E b \in Client : victim'[b] = q
    BY DEF NoneLeaked
  <2>1. q # None
    BY DEF None
  <2>2. CASE q = runtime
    BY <2>1, <2>2 DEF IsHeld
  <2>3. ASSUME NEW b \in Client, held[b] = q PROVE q = runtime' \/ IsHeld(q)'
    BY <2>1, <2>3 DEF Inv, TypeOK, IsHeld
  <2> QED
    BY <2>2, <2>3 DEF Inv, NoneLeaked, IsHeld
<1> QED
  BY <1>1, <1>2, <1>3, <1>4, <1>5, <1>6, <1>7, <1>8 DEF Inv

-------------------------------------------------------------------------------
(* A destructor stops drivers one by one, then frees them.                  *)

LEMMA VictimWasMade ==
  ASSUME Inv, NEW c \in Client, victim[c] # None
  PROVE  /\ victim[c] \in Run /\ victim[c] <= created
         /\ victim[c] # runtime
         /\ \A b \in Client : held[b] # victim[c]
<1>1. victim[c] \in Run
  BY DEF Inv, TypeOK
<1>2. ~(victim[c] > created)
  BY <1>1 DEF Inv, Unborn
<1>3. victim[c] <= created
  BY <1>1, <1>2, CountsAreNat DEF Inv, TypeOK, Run
<1>4. victim[c] # runtime /\ ~IsHeld(victim[c])
  BY <1>1 DEF Inv, NothingUsedAfterFree
<1> QED
  BY <1>1, <1>3, <1>4 DEF IsHeld

LEMMA DestroyInv ==
  ASSUME Inv, NEW c \in Client, pc[c] = "destroying", at[c] \in Driver,
         NEW i \in 1..(DriverCount + 1), NEW state \in DriverState \ {"freed"},
         at' = [at EXCEPT ![c] = i], SetDriver(victim[c], at[c], state),
         UNCHANGED <<created, handling, runtime, pc, held, victim>>,
         <<victim[c], at[c]>> \in handling => state \in {"running", "stopping"},
         i = at[c] \/ (i = at[c] + 1 /\ state \in {"none", "stopped"})
  PROVE  Inv'
<1>1. /\ victim[c] # None /\ victim[c] \in Run /\ victim[c] <= created
      /\ victim[c] # runtime
      /\ \A b \in Client : held[b] # victim[c]
  BY VictimWasMade DEF Inv, TypeOK
<1>2. /\ driver' \in [Run -> [Driver -> DriverState]]
      /\ \A q \in Run, e \in Driver :
            driver'[q][e] = IF q = victim[c] /\ e = at[c] THEN state ELSE driver[q][e]
  BY <1>1, SetDriverEffect DEF Inv, TypeOK
<1>3. TypeOK'
  BY <1>2 DEF Inv, TypeOK
<1>4. PlacesKnown' /\ BuiltAlone'
  BY DEF Inv, TypeOK, PlacesKnown, BuiltAlone, Building
<1>5. Unborn'
  BY <1>1, <1>2, CountsAreNat DEF Inv, TypeOK, Unborn, Run
<1>6. VictimsWhole'
  <2> SUFFICES ASSUME NEW b \in Client, victim[b] # None, NEW d \in Driver
               PROVE  /\ driver'[victim[b]][d] # "freed"
                      /\ d < at'[b] => driver'[victim[b]][d] \in {"none", "stopped"}
    BY DEF VictimsWhole
  <2>1. CASE b = c
    <3>0. at'[b] = i
      BY <2>1 DEF Inv, TypeOK
    <3>1. d < i => d = at[c] \/ d < at[c]
      BY CountsAreNat DEF Driver
    <3>2. driver'[victim[b]][d] = IF d = at[c] THEN state ELSE driver[victim[c]][d]
      BY <1>1, <1>2, <2>1
    <3>3. driver[victim[c]][d] # "freed"
      BY <1>1 DEF Inv, VictimsWhole
    <3>4. d < at[c] => driver[victim[c]][d] \in {"none", "stopped"}
      BY <1>1 DEF Inv, VictimsWhole
    <3>5. d = at[c] /\ d < i => state \in {"none", "stopped"}
      BY DriversAreNumbers
    <3> QED
      BY <2>1, <3>0, <3>1, <3>2, <3>3, <3>4, <3>5
  <2>2. CASE b # c
    <3>1. victim[b] \in Run /\ victim[b] # victim[c] /\ at'[b] = at[b]
      BY <1>1, <2>2 DEF Inv, TypeOK, NothingUsedAfterFree
    <3> QED
      BY <1>2, <3>1 DEF Inv, VictimsWhole
  <2> QED
    BY <2>1, <2>2
<1>7. \A r \in Run : r # victim[c] => \A d \in Driver : driver'[r][d] = driver[r][d]
  BY <1>2
<1>8. RunningKnown'
  <2>1. runtime # None => AllRunning(runtime)'
    BY <1>1, <1>7 DEF Inv, TypeOK, RunningKnown, AllRunning
  <2>2. ASSUME NEW b \in Client, pc[b] \in {"commanding", "publishing", "starting", "constructing"}
        PROVE  /\ b # c /\ at'[b] = at[b]
               /\ \A d \in Driver : driver'[held[b]][d] = driver[held[b]][d]
    <3>1. b # c /\ held[b] # None
      BY <2>2 DEF Inv, PlacesKnown
    <3>2. held[b] \in Run /\ held[b] # victim[c]
      BY <1>1, <3>1, HeldWasMade
    <3> QED
      BY <1>7, <3>1, <3>2 DEF Inv, TypeOK
  <2> QED
    BY <2>1, <2>2 DEF Inv, RunningKnown, AllRunning
<1>9. NothingUsedAfterFree'
  <2>1. ASSUME NEW r \in Run, r = runtime \/ IsHeld(r)
        PROVE  ~Freed(r)' /\ \A b \in Client : victim[b] # r
    <3>1. r # victim[c]
      BY <1>1, <2>1 DEF IsHeld
    <3> QED
      BY <1>7, <2>1, <3>1 DEF Inv, NothingUsedAfterFree, Freed
  <2>2. ASSUME NEW r \in Run, NEW d \in Driver, <<r, d>> \in handling
        PROVE  driver'[r][d] \in {"running", "stopping"}
    BY <1>2, <2>2 DEF Inv, NothingUsedAfterFree
  <2> QED
    BY <2>1, <2>2 DEF Inv, NothingUsedAfterFree, IsHeld
<1>10. NoneLeaked'
  <2> SUFFICES ASSUME NEW r \in 1..created, NEW d \in Driver, driver'[r][d] # "freed"
               PROVE  r = runtime \/ IsHeld(r) \/ \E b \in Client : victim[b] = r
    BY DEF NoneLeaked, IsHeld
  <2>1. CASE r = victim[c]
    BY <2>1
  <2>2. CASE r # victim[c]
    <3>1. r \in Run
      BY CountsAreNat DEF Inv, TypeOK, Run
    <3> QED
      BY <1>7, <2>2, <3>1 DEF Inv, NoneLeaked
  <2> QED
    BY <2>1, <2>2
<1> QED
  BY <1>3, <1>4, <1>5, <1>6, <1>8, <1>9, <1>10 DEF Inv

LEMMA DestroyNextInv ==
  ASSUME Inv, NEW c \in Client, DestroyNext(c)
  PROVE  Inv'
<1>1. at[c] \in Driver /\ at[c] + 1 \in 1..(DriverCount + 1) /\ at[c] \in 1..(DriverCount + 1)
  BY LoopsCount DEF DestroyNext, Inv, TypeOK
<1>2. victim[c] # None /\ victim[c] \in Run
  BY VictimWasMade DEF DestroyNext, Inv, TypeOK
<1>3. CASE /\ driver[victim[c]][at[c]] \in {"open", "running"}
           /\ SetDriver(victim[c], at[c], "stopping")
           /\ UNCHANGED at
  <2>1. at' = [at EXCEPT ![c] = at[c]]
    BY <1>3 DEF Inv, TypeOK
  <2> QED
    BY <1>1, <1>3, <2>1, DestroyInv DEF DestroyNext, DriverState
<1>4. CASE /\ Joined(victim[c], at[c])
           /\ SetDriver(victim[c], at[c], "stopped")
           /\ Step(c)
  BY <1>1, <1>4, DestroyInv DEF DestroyNext, DriverState, Joined, Step
<1>5. CASE /\ driver[victim[c]][at[c]] \in {"none", "stopped"}
           /\ Step(c)
           /\ UNCHANGED driver
  <2> DEFINE state == driver[victim[c]][at[c]]
  <2>1. SetDriver(victim[c], at[c], state)
    BY <1>1, <1>2, <1>5 DEF SetDriver, Inv, TypeOK
  <2>2. ~(<<victim[c], at[c]>> \in handling)
    BY <1>1, <1>2, <1>5 DEF Inv, NothingUsedAfterFree
  <2>3. state \in {"none", "stopped"} /\ state \in DriverState \ {"freed"}
    BY <1>5 DEF DriverState
  <2> HIDE DEF state
  <2> QED
    BY <1>1, <1>5, <2>1, <2>2, <2>3, DestroyInv DEF DestroyNext, Step
<1> QED
  BY <1>3, <1>4, <1>5 DEF DestroyNext, StopDriver

LEMMA DestroyEndsInv ==
  ASSUME Inv, NEW c \in Client, DestroyEnds(c)
  PROVE  Inv'
<1> DEFINE v == victim[c]
<1>1. /\ v # None /\ v \in Run /\ v <= created /\ v # runtime
      /\ \A b \in Client : held[b] # v
  BY VictimWasMade DEF DestroyEnds, Inv, TypeOK
<1>2. /\ driver' \in [Run -> [Driver -> DriverState]]
      /\ \A d \in Driver : driver'[v][d] = "freed"
      /\ \A r \in Run : r # v => driver'[r] = driver[r]
  BY <1>1 DEF DestroyEnds, Inv, TypeOK, DriverState
<1>3. \A d \in Driver : <<v, d>> \notin handling
  <2> SUFFICES ASSUME NEW d \in Driver PROVE <<v, d>> \notin handling
    OBVIOUS
  <2>1. d < at[c]
    BY CountsAreNat DEF DestroyEnds, Inv, TypeOK, Driver
  <2>2. driver[v][d] \in {"none", "stopped"}
    BY <1>1, <2>1 DEF Inv, VictimsWhole
  <2> QED
    BY <1>1, <2>2 DEF Inv, NothingUsedAfterFree
<1>4. /\ victim' = [victim EXCEPT ![c] = None] /\ at' = [at EXCEPT ![c] = 1]
      /\ pc' = [pc EXCEPT ![c] = IF held[c] = None THEN "idle" ELSE "returning"]
      /\ pc[c] = "destroying"
      /\ UNCHANGED <<created, handling, runtime, held>>
  BY DEF DestroyEnds, Rewind, Goto
<1> HIDE DEF v
<1>5. TypeOK'
  <2>1. /\ pc' \in [Client -> Where] /\ at' \in [Client -> 1..(DriverCount + 1)]
        /\ victim' \in [Client -> Run \cup {None}]
    BY <1>4, LoopsCount DEF Inv, TypeOK, Where
  <2>2. \A b \in Client : pc'[b] = "destroying" <=> victim'[b] # None
    BY <1>4 DEF Inv, TypeOK
  <2> QED
    BY <1>2, <1>4, <2>1, <2>2 DEF Inv, TypeOK
<1>6. PlacesKnown'
  BY <1>4, LoopsCount DEF Inv, TypeOK, PlacesKnown
<1>7. BuiltAlone'
  BY <1>4 DEF Inv, TypeOK, BuiltAlone, Building
<1>8. Unborn'
  BY <1>1, <1>2, <1>4, NoneIsNoRun, CountsAreNat DEF Inv, TypeOK, Unborn, Run
<1>9. VictimsWhole'
  <2> SUFFICES ASSUME NEW b \in Client, victim'[b] # None, NEW d \in Driver
               PROVE  /\ driver'[victim'[b]][d] # "freed"
                      /\ d < at'[b] => driver'[victim'[b]][d] \in {"none", "stopped"}
    BY DEF VictimsWhole
  <2>1. b # c /\ victim'[b] = victim[b] /\ at'[b] = at[b]
    BY <1>4 DEF Inv, TypeOK
  <2>2. victim[b] \in Run /\ victim[b] # v
    BY <1>1, <2>1 DEF Inv, TypeOK, NothingUsedAfterFree, v
  <2> QED
    BY <1>2, <2>1, <2>2 DEF Inv, VictimsWhole
<1>10. RunningKnown'
  <2>1. runtime # None => AllRunning(runtime)'
    BY <1>1, <1>2, <1>4 DEF Inv, TypeOK, RunningKnown, AllRunning
  <2>2. ASSUME NEW b \in Client, pc'[b] \in {"commanding", "publishing", "starting", "constructing"}
        PROVE  pc'[b] = pc[b] /\ at'[b] = at[b] /\ driver'[held[b]] = driver[held[b]]
    <3>1. b # c /\ pc'[b] = pc[b] /\ at'[b] = at[b]
      BY <1>4, <2>2 DEF Inv, TypeOK
    <3>2. held[b] \in Run /\ held[b] # v
      BY <1>1, <2>2, <3>1, HeldWasMade DEF Inv, PlacesKnown
    <3> QED
      BY <1>2, <3>1, <3>2
  <2> QED
    BY <1>4, <2>1, <2>2 DEF Inv, RunningKnown, AllRunning
<1>11. NothingUsedAfterFree'
  <2>1. ASSUME NEW r \in Run, r = runtime \/ IsHeld(r)
        PROVE  ~Freed(r)' /\ \A b \in Client : victim'[b] # r
    <3>1. r # v /\ r # None
      BY <1>1, <2>1, NoneIsNoRun DEF IsHeld
    <3>2. ~Freed(r) /\ \A b \in Client : victim[b] # r
      BY <2>1 DEF Inv, NothingUsedAfterFree
    <3> QED
      BY <1>2, <1>4, <3>1, <3>2 DEF Inv, TypeOK, Freed
  <2>2. ASSUME NEW a \in Client, NEW b \in Client, victim'[a] # None, victim'[a] = victim'[b]
        PROVE  a = b
    BY <1>4, <2>2 DEF Inv, TypeOK, NothingUsedAfterFree
  <2>3. ASSUME NEW r \in Run, NEW d \in Driver, <<r, d>> \in handling
        PROVE  driver'[r][d] \in {"running", "stopping"}
    <3>1. r # v
      BY <1>3, <2>3
    <3> QED
      BY <1>2, <2>3, <3>1 DEF Inv, NothingUsedAfterFree
  <2> QED
    BY <1>4, <2>1, <2>2, <2>3 DEF NothingUsedAfterFree, IsHeld
<1>12. NoneLeaked'
  <2> SUFFICES ASSUME NEW r \in 1..created, NEW d \in Driver, driver'[r][d] # "freed"
               PROVE  r = runtime \/ IsHeld(r) \/ \E b \in Client : victim'[b] = r
    BY <1>4 DEF NoneLeaked, IsHeld
  <2>0. r \in Run
    BY CountsAreNat DEF Inv, TypeOK, Run
  <2>1. r \in Run /\ r # v
    BY <1>2, <2>0
  <2>2. r = runtime \/ IsHeld(r) \/ \E b \in Client : victim[b] = r
    BY <1>2, <2>1 DEF Inv, NoneLeaked
  <2>3. ASSUME NEW b \in Client, victim[b] = r PROVE victim'[b] = r
    BY <1>4, <2>1, <2>3 DEF Inv, TypeOK, v
  <2> QED
    BY <2>2, <2>3
<1> QED
  BY <1>5, <1>6, <1>7, <1>8, <1>9, <1>10, <1>11, <1>12 DEF Inv

-------------------------------------------------------------------------------
(* Calls begin, and receive threads handle.                                 *)

LEMMA BeginInitInv ==
  ASSUME Inv, NEW c \in Client, NEW valid \in BOOLEAN, BeginInit(c, valid)
  PROVE  Inv'
<1> DEFINE r == created + 1
           to == IF valid THEN "constructing" ELSE "returning"
<1>1. r \in Run /\ r > created /\ r # None /\ created' = r
  BY CountsAreNat DEF BeginInit, Inv, TypeOK, Run, None
<1>2. /\ held' = [held EXCEPT ![c] = r]
      /\ pc' = [pc EXCEPT ![c] = to]
      /\ pc[c] = "idle" /\ held[c] = None /\ at[c] = 1
      /\ UNCHANGED <<driver, handling, runtime, victim, at>>
  BY DEF BeginInit, Goto, Inv, PlacesKnown
<1>3. /\ \A d \in Driver : driver[r][d] = "none"
      /\ r # runtime
      /\ \A b \in Client : held[b] # r /\ victim[b] # r
  BY <1>1 DEF Inv, Unborn
<1>4. to \in {"constructing", "returning"}
  OBVIOUS
<1>5. \A q \in Run : q > created' => q > created
  BY <1>1, CountsAreNat DEF Inv, TypeOK, Run
<1>6. created' \in 0..MaxRuntime
  BY <1>1, CountsAreNat DEF Run
<1>7. \A q \in 1..created' : q # r => q \in 1..created
  BY <1>1, CountsAreNat DEF Inv, TypeOK
<1>8. \A q \in Run : q > created' => q # r
  BY <1>1, CountsAreNat DEF Run
<1> HIDE DEF r, to
<1>9. TypeOK'
  <2>1. /\ pc' \in [Client -> Where] /\ held' \in [Client -> Run \cup {None}]
    BY <1>1, <1>2, <1>4 DEF Inv, TypeOK, Where
  <2>2. \A b \in Client : pc'[b] = "destroying" <=> victim'[b] # None
    BY <1>2, <1>4 DEF Inv, TypeOK
  <2> QED
    BY <1>2, <1>6, <2>1, <2>2 DEF Inv, TypeOK
<1>10. PlacesKnown'
  BY <1>1, <1>2, <1>4 DEF Inv, TypeOK, PlacesKnown
<1>11. BuiltAlone'
  <2> SUFFICES ASSUME NEW b \in Client, pc'[b] \in Building
               PROVE  held'[b] # runtime /\ \A a \in Client : held'[a] = held'[b] => a = b
    BY <1>2 DEF BuiltAlone
  <2>1. CASE b = c
    BY <1>2, <1>3, <2>1 DEF Inv, TypeOK
  <2>2. CASE b # c
    <3>1. pc[b] \in Building /\ held'[b] = held[b]
      BY <1>2, <2>2 DEF Inv, TypeOK
    <3> QED
      BY <1>2, <1>3, <2>2, <3>1 DEF Inv, TypeOK, BuiltAlone
  <2> QED
    BY <2>1, <2>2
<1>12. Unborn'
  <2> SUFFICES ASSUME NEW q \in Run, q > created'
               PROVE  /\ \A d \in Driver : driver[q][d] = "none"
                      /\ q # runtime
                      /\ \A b \in Client : held'[b] # q /\ victim[b] # q
    BY <1>2 DEF Unborn
  <2> QED
    BY <1>2, <1>5, <1>8 DEF Inv, TypeOK, Unborn
<1>13. VictimsWhole'
  BY <1>2 DEF Inv, VictimsWhole
<1>14. RunningKnown'
  <2>1. \A b \in Client : pc'[b] \notin {"constructing", "returning"} =>
           pc'[b] = pc[b] /\ held'[b] = held[b]
    BY <1>2, <1>4 DEF Inv, TypeOK
  <2>2. \A b \in Client : pc'[b] = "constructing" =>
           held'[b] = r \/ (pc[b] = "constructing" /\ held'[b] = held[b])
    BY <1>2 DEF Inv, TypeOK
  <2>3. /\ runtime' # None => AllRunning(runtime)'
        /\ \A b \in Client : pc'[b] \in {"commanding", "publishing"} => AllRunning(held[b])'
    BY <1>2, <2>1 DEF Inv, RunningKnown, AllRunning
  <2>4. \A b \in Client : pc'[b] \in {"commanding", "publishing", "starting"} => held'[b] = held[b]
    BY <2>1
  <2>5. \A b \in Client : pc'[b] = "starting" =>
           \A d \in Driver : d < at'[b] => driver'[held'[b]][d] = "running"
    BY <1>2, <2>1 DEF Inv, RunningKnown
  <2>6. \A b \in Client : pc'[b] = "constructing" =>
           \A d \in Driver : driver'[held'[b]][d] \in {"none", "open"}
    BY <1>2, <1>3, <2>2 DEF Inv, RunningKnown
  <2> QED
    BY <2>3, <2>5, <2>6 DEF RunningKnown
<1>15. NothingUsedAfterFree'
  <2>1. ASSUME NEW q \in Run, q = runtime \/ IsHeld(q)'
        PROVE  q = r \/ q = runtime \/ IsHeld(q)
    BY <1>2, <2>1 DEF Inv, TypeOK, IsHeld
  <2>2. ~Freed(r) /\ \A b \in Client : victim[b] # r
    BY <1>3 DEF Freed
  <2>3. ASSUME NEW q \in Run, q = runtime \/ IsHeld(q)'
        PROVE  ~Freed(q) /\ \A b \in Client : victim[b] # q
    BY <2>1, <2>2, <2>3 DEF Inv, NothingUsedAfterFree
  <2> QED
    BY <1>2, <2>3 DEF Inv, NothingUsedAfterFree, Freed
<1>16. NoneLeaked'
  <2> SUFFICES ASSUME NEW q \in 1..created', NEW d \in Driver, driver[q][d] # "freed"
               PROVE  q = runtime \/ IsHeld(q)' \/ \E b \in Client : victim[b] = q
    BY <1>2 DEF NoneLeaked
  <2>1. CASE q = r
    BY <1>2, <2>1 DEF Inv, TypeOK, IsHeld
  <2>2. CASE q # r
    <3>1. q \in 1..created /\ q # None
      BY <1>7, <2>2 DEF None
    <3>2. ASSUME NEW b \in Client, held[b] = q PROVE held'[b] = q
      BY <1>2, <3>1, <3>2 DEF Inv, TypeOK
    <3> QED
      BY <3>1, <3>2 DEF Inv, NoneLeaked, IsHeld
  <2> QED
    BY <2>1, <2>2
<1> QED
  BY <1>9, <1>10, <1>11, <1>12, <1>13, <1>14, <1>15, <1>16 DEF Inv

LEMMA BeginCommandInv ==
  ASSUME Inv, NEW c \in Client, BeginCommand(c)
  PROVE  Inv'
<1>1. /\ held' = [held EXCEPT ![c] = runtime]
      /\ pc' = [pc EXCEPT ![c] = "commanding"]
      /\ pc[c] = "idle" /\ held[c] = None /\ runtime # None /\ runtime \in Run
      /\ UNCHANGED <<created, driver, handling, runtime, victim, at>>
  BY DEF BeginCommand, Goto, Inv, TypeOK, PlacesKnown
<1>2. TypeOK'
  <2>1. pc' \in [Client -> Where] /\ held' \in [Client -> Run \cup {None}]
    BY <1>1 DEF Inv, TypeOK, Where
  <2>2. \A b \in Client : pc'[b] = "destroying" <=> victim'[b] # None
    BY <1>1 DEF Inv, TypeOK
  <2> QED
    BY <1>1, <2>1, <2>2 DEF Inv, TypeOK
<1>3. PlacesKnown'
  BY <1>1 DEF Inv, TypeOK, PlacesKnown
<1>4. BuiltAlone'
  <2> SUFFICES ASSUME NEW b \in Client, pc'[b] \in Building
               PROVE  held'[b] # runtime /\ \A a \in Client : held'[a] = held'[b] => a = b
    BY <1>1 DEF BuiltAlone
  <2>1. b # c /\ pc[b] \in Building /\ held'[b] = held[b]
    BY <1>1 DEF Inv, TypeOK, Building
  <2> QED
    BY <1>1, <2>1 DEF Inv, TypeOK, BuiltAlone
<1>5. Unborn'
  BY <1>1 DEF Inv, TypeOK, Unborn
<1>6. VictimsWhole'
  BY <1>1 DEF Inv, VictimsWhole
<1>7. RunningKnown'
  <2>1. \A b \in Client : /\ pc'[b] # "commanding" => pc'[b] = pc[b] /\ held'[b] = held[b]
                          /\ held'[b] = held[b] \/ held'[b] = runtime
                          /\ b # c => pc'[b] = pc[b] /\ held'[b] = held[b]
    BY <1>1 DEF Inv, TypeOK
  <2>2. held'[c] = runtime /\ AllRunning(runtime)
    BY <1>1 DEF Inv, TypeOK, RunningKnown
  <2> QED
    BY <1>1, <2>1, <2>2 DEF Inv, RunningKnown, AllRunning
<1>8. NothingUsedAfterFree'
  <2>1. \A q \in Run : IsHeld(q)' => q = runtime \/ IsHeld(q)
    BY <1>1 DEF Inv, TypeOK, IsHeld
  <2> QED
    BY <1>1, <2>1 DEF Inv, NothingUsedAfterFree, Freed
<1>9. NoneLeaked'
  <2> SUFFICES ASSUME NEW q \in 1..created, NEW d \in Driver, driver[q][d] # "freed"
               PROVE  q = runtime \/ IsHeld(q)' \/ \E b \in Client : victim[b] = q
    BY <1>1 DEF NoneLeaked
  <2>1. q # None
    BY DEF None
  <2>2. ASSUME NEW b \in Client, held[b] = q PROVE held'[b] = q
    BY <1>1, <2>1, <2>2 DEF Inv, TypeOK
  <2> QED
    BY <2>2 DEF Inv, NoneLeaked, IsHeld
<1> QED
  BY <1>2, <1>3, <1>4, <1>5, <1>6, <1>7, <1>8, <1>9 DEF Inv

LEMMA HandlingInv ==
  ASSUME Inv, NEW r \in Run, NEW d \in Driver, BeginHandling(r, d) \/ EndHandling(r, d)
  PROVE  Inv'
<1>1. UNCHANGED <<created, driver, runtime, pc, held, victim, at>>
  BY DEF BeginHandling, EndHandling
<1>2. TypeOK'
  BY <1>1 DEF BeginHandling, EndHandling, Inv, TypeOK
<1>3. PlacesKnown' /\ BuiltAlone' /\ Unborn' /\ VictimsWhole' /\ NoneLeaked'
  BY <1>1 DEF Inv, PlacesKnown, BuiltAlone, Unborn, VictimsWhole, NoneLeaked, IsHeld
<1>4. RunningKnown'
  BY <1>1 DEF Inv, RunningKnown, AllRunning
<1>5. NothingUsedAfterFree'
  <2>1. ASSUME NEW q \in Run, NEW e \in Driver, <<q, e>> \in handling'
        PROVE  driver[q][e] \in {"running", "stopping"}
    BY <2>1 DEF BeginHandling, EndHandling, Inv, NothingUsedAfterFree
  <2> QED
    BY <1>1, <2>1 DEF Inv, NothingUsedAfterFree, IsHeld, Freed
<1> QED
  BY <1>2, <1>3, <1>4, <1>5 DEF Inv
-------------------------------------------------------------------------------
(* The other steps of a client.                                             *)

LEMMA ConstructInv ==
  ASSUME Inv, NEW c \in Client,
         Construct(c) \/ ConstructorThrows(c) \/ BindFails(c) \/ ConstructEnds(c)
  PROVE  Inv'
<1>1. /\ pc[c] = "constructing"
      /\ "returning" \in Where \ {"idle", "destroying"} /\ "returning" \notin Building
      /\ "starting" \in Where \ {"idle", "destroying"} /\ "starting" \in Building
  BY DEF Construct, ConstructorThrows, BindFails, ConstructEnds, Where, Building
<1>2. ASSUME Goto(c, "returning"), Rewind(c),
             UNCHANGED <<created, driver, handling, runtime, held, victim>>
      PROVE  Inv'
  BY <1>1, <1>2, LoopsCount, MoveInv DEF Goto, Rewind
<1>3. CASE ConstructEnds(c)
  <2>1. \A d \in Driver : ~(d < 1)
    BY CountsAreNat DEF Driver
  <2> QED
    BY <1>1, <1>3, <2>1, LoopsCount, MoveInv DEF ConstructEnds, WhenBound, Goto, Rewind, Building
<1>4. ASSUME at[c] <= DriverCount, SetDriver(held[c], at[c], "open"), Step(c),
             UNCHANGED <<created, handling, runtime, pc, held, victim>>
      PROVE  Inv'
  <2>1. /\ at' = [at EXCEPT ![c] = at[c] + 1]
        /\ at[c] \in Driver /\ at[c] + 1 \in 1..(DriverCount + 1)
    BY <1>4, LoopsCount DEF Step, Inv, TypeOK
  <2>2. driver[held[c]][at[c]] \in {"none", "open"} /\ held[c] \in Run
    BY <1>1, <2>1, HeldWasMade DEF Inv, RunningKnown, PlacesKnown
  <2>3. ~(<<held[c], at[c]>> \in handling)
    BY <2>1, <2>2 DEF Inv, NothingUsedAfterFree
  <2> QED
    BY <1>1, <1>4, <2>1, <2>3, BuildInv DEF DriverState
<1>5. CASE Construct(c)
  BY <1>4, <1>5 DEF Construct
<1>6. CASE ConstructorThrows(c) \/ BindFails(c)
  BY <1>2, <1>6 DEF ConstructorThrows, BindFails
<1> QED
  BY <1>3, <1>5, <1>6

LEMMA StartInv ==
  ASSUME Inv, NEW c \in Client, StartDriver(c) \/ StartFails(c)
  PROVE  Inv'
<1>1. pc[c] = "starting" /\ held[c] \in Run
  BY HeldWasMade DEF StartDriver, StartFails, Inv, PlacesKnown
<1>2. CASE StartDriver(c) /\ at[c] <= DriverCount
  <2>1. /\ SetDriver(held[c], at[c], "running")
        /\ at' = [at EXCEPT ![c] = at[c] + 1]
        /\ at[c] \in Driver /\ at[c] + 1 \in 1..(DriverCount + 1)
        /\ UNCHANGED <<created, handling, runtime, pc, held, victim>>
    BY <1>2, LoopsCount DEF StartDriver, Step, Inv, TypeOK
  <2> QED
    BY <1>1, <2>1, BuildInv DEF DriverState
<1>3. CASE StartDriver(c) /\ ~(at[c] <= DriverCount)
  <2>1. /\ pc' = [pc EXCEPT ![c] = "publishing"] /\ at' = [at EXCEPT ![c] = 1]
        /\ UNCHANGED <<created, driver, handling, runtime, held, victim>>
    BY <1>3 DEF StartDriver, Goto, Rewind
  <2>2. AllRunning(held[c])
    <3>1. \A d \in Driver : d < at[c]
      BY <1>3, CountsAreNat DEF Inv, TypeOK, Driver
    <3> QED
      BY <1>1, <3>1 DEF Inv, RunningKnown, AllRunning
  <2> QED
    BY <1>1, <2>1, <2>2, LoopsCount, MoveInv DEF Where, Building
<1>4. CASE StartFails(c)
  BY <1>1, <1>4, LoopsCount, MoveInv DEF StartFails, Goto, Rewind, Where, Building
<1> QED
  BY <1>2, <1>3, <1>4

LEMMA UnwindInv ==
  ASSUME Inv, NEW c \in Client, Unwind(c) \/ UnwindEnds(c)
  PROVE  Inv'
<1>1. pc[c] = "unwinding" /\ held[c] \in Run
  BY HeldWasMade DEF Unwind, UnwindEnds, Inv, PlacesKnown
<1>2. CASE UnwindEnds(c)
  BY <1>1, <1>2, LoopsCount, MoveInv DEF UnwindEnds, Goto, Rewind, Where, Building
<1>3. CASE Unwind(c)
  <2>1. /\ at[c] \in Driver /\ at[c] \in 1..(DriverCount + 1) /\ at[c] + 1 \in 1..(DriverCount + 1)
        /\ UNCHANGED <<created, handling, runtime, pc, held, victim>>
    BY <1>3, LoopsCount DEF Unwind, Inv, TypeOK
  <2>2. CASE SetDriver(held[c], at[c], "stopping") /\ UNCHANGED at
    <3>1. at' = [at EXCEPT ![c] = at[c]]
      BY <2>2 DEF Inv, TypeOK
    <3> QED
      BY <1>1, <2>1, <2>2, <3>1, BuildInv DEF DriverState
  <2>3. CASE Joined(held[c], at[c]) /\ SetDriver(held[c], at[c], "stopped") /\ Step(c)
    BY <1>1, <2>1, <2>3, BuildInv DEF DriverState, Joined, Step
  <2>4. CASE Step(c) /\ UNCHANGED driver
    <3>1. pc' = [pc EXCEPT ![c] = "unwinding"]
      BY <1>1, <2>1 DEF Inv, TypeOK
    <3> QED
      BY <1>1, <2>1, <2>4, <3>1, MoveInv DEF Step, Where, Building
  <2> QED
    BY <1>3, <2>2, <2>3, <2>4 DEF Unwind, StopDriver
<1> QED
  BY <1>2, <1>3

LEMMA SendNextInv ==
  ASSUME Inv, NEW c \in Client, SendNext(c)
  PROVE  Inv'
<1>1. CASE at[c] <= DriverCount
  <2>1. /\ pc' = [pc EXCEPT ![c] = "commanding"] /\ pc[c] = "commanding"
        /\ at' = [at EXCEPT ![c] = at[c] + 1] /\ at[c] + 1 \in 1..(DriverCount + 1)
        /\ UNCHANGED <<created, driver, handling, runtime, held, victim>>
    BY <1>1, LoopsCount DEF SendNext, Step, Inv, TypeOK
  <2> QED
    BY <2>1, MoveInv DEF Where, Building
<1>2. CASE ~(at[c] <= DriverCount)
  <2>1. /\ pc' = [pc EXCEPT ![c] = "returning"] /\ pc[c] = "commanding"
        /\ at' = [at EXCEPT ![c] = 1]
        /\ UNCHANGED <<created, driver, handling, runtime, held, victim>>
    BY <1>2 DEF SendNext, Goto, Rewind
  <2> QED
    BY <2>1, LoopsCount, MoveInv DEF Where, Building
<1> QED
  BY <1>1, <1>2

LEMMA PublishInv ==
  ASSUME Inv, NEW c \in Client, Publish(c)
  PROVE  Inv'
<1>1. /\ pc[c] = "publishing" /\ at[c] = 1 /\ held[c] # None /\ held[c] \in Run
      /\ held[c] # runtime /\ AllRunning(held[c]) /\ runtime' = held[c]
      /\ held' = [held EXCEPT ![c] = held[c]]
      /\ runtime \in Run \cup {None}
      /\ UNCHANGED <<created, driver, handling, held, at>>
  BY DEF Publish, Inv, TypeOK, PlacesKnown, BuiltAlone, Building, RunningKnown
<1>2. CASE LastReference(c, runtime)
  <2>1. /\ runtime \in Run /\ \A b \in Client : b # c => held[b] # runtime
        /\ victim' = [victim EXCEPT ![c] = runtime]
        /\ pc' = [pc EXCEPT ![c] = "destroying"]
    BY <1>1, <1>2 DEF Publish, LastReference, Goto
  <2> QED
    BY <1>1, <2>1, CondemnInv
<1>3. CASE ~LastReference(c, runtime)
  <2>1. /\ runtime # None => \E b \in Client : held'[b] = runtime
        /\ pc' = [pc EXCEPT ![c] = "returning"] /\ UNCHANGED victim
    BY <1>1, <1>3 DEF Publish, LastReference, Goto
  <2> QED
    BY <1>1, <2>1, LetGoInv
<1> QED
  BY <1>2, <1>3

LEMMA ShutdownInv ==
  ASSUME Inv, NEW c \in Client, Shutdown(c)
  PROVE  Inv'
<1>1. /\ pc[c] = "idle" /\ at[c] = 1 /\ held[c] = None
      /\ runtime \in Run /\ runtime # None /\ runtime' = None
      /\ held' = [held EXCEPT ![c] = None]
      /\ UNCHANGED <<created, driver, handling, held, at>>
  BY DEF Shutdown, Inv, TypeOK, PlacesKnown
<1>2. CASE LastReference(c, runtime)
  <2>1. /\ \A b \in Client : b # c => held[b] # runtime
        /\ victim' = [victim EXCEPT ![c] = runtime]
        /\ pc' = [pc EXCEPT ![c] = "destroying"]
    BY <1>1, <1>2 DEF Shutdown, LastReference, Goto
  <2> QED
    BY <1>1, <2>1, CondemnInv
<1>3. CASE ~LastReference(c, runtime)
  <2>1. \E b \in Client : held'[b] = runtime
    BY <1>1, <1>3 DEF LastReference
  <2>2. pc' = [pc EXCEPT ![c] = "idle"] /\ UNCHANGED victim
    BY <1>1, <1>3 DEF Shutdown, Inv, TypeOK
  <2> QED
    BY <1>1, <2>1, <2>2, LetGoInv
<1> QED
  BY <1>2, <1>3

LEMMA ReturnInv ==
  ASSUME Inv, NEW c \in Client, Return(c)
  PROVE  Inv'
<1>1. /\ pc[c] = "returning" /\ at[c] = 1 /\ held[c] # None /\ held[c] \in Run
      /\ held' = [held EXCEPT ![c] = None]
      /\ runtime \in Run \cup {None}
      /\ UNCHANGED <<created, driver, handling, runtime, at>>
  BY DEF Return, Inv, TypeOK, PlacesKnown
<1>2. CASE runtime # held[c] /\ LastReference(c, held[c])
  <2>1. /\ \A b \in Client : b # c => held[b] # held[c]
        /\ victim' = [victim EXCEPT ![c] = held[c]]
        /\ pc' = [pc EXCEPT ![c] = "destroying"]
    BY <1>1, <1>2 DEF Return, LastReference, Goto
  <2>2. runtime' = IF held[c] = runtime THEN None ELSE runtime
    BY <1>1, <1>2
  <2> QED
    BY <1>1, <1>2, <2>1, <2>2, CondemnInv
<1>3. CASE ~(runtime # held[c] /\ LastReference(c, held[c]))
  <2>1. held[c] = runtime \/ \E b \in Client : held'[b] = held[c]
    BY <1>1, <1>3 DEF LastReference, Inv, TypeOK
  <2>2. pc' = [pc EXCEPT ![c] = "idle"] /\ UNCHANGED victim
    BY <1>1, <1>3 DEF Return, Goto
  <2> QED
    BY <1>1, <2>1, <2>2, LetGoInv
<1> QED
  BY <1>2, <1>3
-------------------------------------------------------------------------------
LEMMA InvInit == Init => Inv
<1> SUFFICES ASSUME Init PROVE Inv
  OBVIOUS
<1>1. TypeOK
  BY LoopsCount, CountsAreNat DEF Init, TypeOK, DriverState, Where
<1>2. PlacesKnown /\ BuiltAlone /\ VictimsWhole
  BY DEF Init, PlacesKnown, BuiltAlone, VictimsWhole, Building
<1>3. Unborn
  BY NoneIsNoRun DEF Init, Unborn
<1>4. RunningKnown
  BY DEF Init, RunningKnown
<1>5. NothingUsedAfterFree
  BY NoneIsNoRun DEF Init, NothingUsedAfterFree, IsHeld, Freed
<1>6. NoneLeaked
  BY DEF Init, NoneLeaked
<1> QED
  BY <1>1, <1>2, <1>3, <1>4, <1>5, <1>6 DEF Inv

LEMMA InvNext == Inv /\ [Next]_vars => Inv'
<1> SUFFICES ASSUME Inv, [Next]_vars PROVE Inv'
  OBVIOUS
<1>1. ASSUME NEW c \in Client, NEW valid \in BOOLEAN, BeginInit(c, valid) PROVE Inv'
  BY <1>1, BeginInitInv
<1>2. ASSUME NEW c \in Client, Shutdown(c) \/ BeginCommand(c) PROVE Inv'
  BY <1>2, ShutdownInv, BeginCommandInv
<1>3. ASSUME NEW c \in Client, BindFails(c) \/ StartFails(c) PROVE Inv'
  BY <1>3, ConstructInv, StartInv
<1>4. ASSUME NEW c \in Client, InCall(c) PROVE Inv'
  BY <1>4, ConstructInv, StartInv, UnwindInv, PublishInv, SendNextInv, ReturnInv,
     DestroyNextInv, DestroyEndsInv DEF InCall
<1>5. ASSUME NEW r \in Run, NEW d \in Driver, BeginHandling(r, d) \/ EndHandling(r, d)
      PROVE  Inv'
  BY <1>5, HandlingInv
<1>6. CASE UNCHANGED vars
  BY <1>6 DEF vars, Inv, TypeOK, PlacesKnown, BuiltAlone, Unborn, VictimsWhole, RunningKnown,
     AllRunning, NothingUsedAfterFree, NoneLeaked, IsHeld, Freed
<1> QED
  BY <1>1, <1>2, <1>3, <1>4, <1>5, <1>6 DEF Next

THEOREM InvAlways == Spec => []Inv
  BY InvInit, InvNext, PTL DEF Spec

\* Every variable keeps its type, and a client runs a destructor exactly while
\* it has a victim.
THEOREM TypeCorrect == Spec => []TypeOK
<1>1. Inv => TypeOK
  BY DEF Inv
<1> QED
  BY <1>1, InvAlways, PTL

\* However init, shutdown and command overlap in however many threads, none of
\* them, and no receive thread, meets a runtime that is freed or being freed.
THEOREM NoUseAfterFree == Spec => []NothingUsedAfterFree
<1>1. Inv => NothingUsedAfterFree
  BY DEF Inv
<1> QED
  BY <1>1, InvAlways, PTL

\* A command never finds a driver whose threads do not run, although init
\* starts the drivers one by one and may fail at any of them.
THEOREM CommandsMeetRunningDrivers == Spec => []CommandsReachRunning
<1>1. Inv => CommandsReachRunning
  <2> SUFFICES ASSUME Inv, NEW r \in Run,
                      r = runtime \/ \E c \in Client : held[c] = r /\ pc[c] = "commanding",
                      NEW d \in Driver
               PROVE  driver[r][d] = "running"
    BY DEF CommandsReachRunning
  <2> QED
    BY NoneIsNoRun DEF Inv, RunningKnown, AllRunning
<1> QED
  BY <1>1, InvAlways, PTL

\* No failure of init, and no race of two calls that replace a runtime, loses
\* one with its threads running or its socket open.
THEOREM NothingLeaks == Spec => []NoneLeaked
<1>1. Inv => NoneLeaked
  BY DEF Inv
<1> QED
  BY <1>1, InvAlways, PTL
===============================================================================
