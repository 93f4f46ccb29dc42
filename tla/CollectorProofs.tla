-------------------------- MODULE CollectorProofs --------------------------
(***************************************************************************)
(* That the power of the RAPL collector accounts for the energy used, and  *)
(* counts none of it twice, for any zones, any counters and any number of  *)
(* overlapping attempts; that the Corsair AXi collector reports every      *)
(* value where it was measured and reads the connectors in turn, for any   *)
(* numbers of registers and connectors; and that its codec reads every     *)
(* word as the number it stands for.                                       *)
(*                                                                         *)
(* Sums over zones are reasoned about without an induction theorem: of the *)
(* sets for which a claim fails, a smallest one is taken (Minimal).        *)
(***************************************************************************)
EXTENDS MCCollectors, SequenceTheorems, FiniteSetTheorems, WellFoundedInduction, TLAPS

(* What the constants say of a zone, with its number as an integer.        *)
LEMMA Zone ==
  ASSUME NEW i \in FindZones
  PROVE  /\ i \in DOMAIN Dirs /\ i \in FindZones
         /\ Dirs[i].wrap \in Nat \ {0} /\ Dirs[i].maxRange \in {0, Dirs[i].wrap}
  BY RaplConstants DEF RaplConstants, FindZones

(* One unit more is one step of the counter.                               *)
LEMMA FollowsStep ==
  ASSUME NEW wrap \in Nat \ {0}, NEW from \in 0..(wrap - 1), NEW energy \in Nat,
         NEW to \in 0..(wrap - 1),
         energy < wrap => to = from + energy \/ to = from + energy - wrap
  PROVE  LET next == IF to + 1 = wrap THEN 0 ELSE to + 1
         IN  energy + 1 < wrap => next = from + (energy + 1) \/ next = from + (energy + 1) - wrap
  OBVIOUS

LEMMA ProductIsInteger == ASSUME NEW m \in Nat, NEW n \in Int PROVE m * n \in Int
  BY Z3

(* raplWatts finds out what was used, unless it cannot be told.            *)
LEMMA DeltaIsUsed ==
  ASSUME NEW i \in FindZones, NEW prev \in Level(i), NEW energy \in Level(i),
         NEW joules \in Nat, NEW seconds \in Int,
         Follows(i, prev, joules, energy), ~Untold(i, prev, energy, joules, seconds)
  PROVE  Counts(i, prev, energy, seconds) /\ Delta(i, prev, energy) = joules
<1> DEFINE w == Dirs[i].wrap
           most == MaxWatts * seconds
<1>1. w \in Nat \ {0} /\ Dirs[i].maxRange \in {0, w}
  BY Zone
<1>2. most \in Int
  <2>1. MaxWatts \in Nat
    BY RaplConstants DEF RaplConstants
  <2> QED  BY <2>1, ProductIsInteger
<1>3. /\ joules < w /\ seconds > 0 /\ joules <= most
      /\ energy < prev => Dirs[i].maxRange # 0
  BY <1>1, <1>2 DEF Untold
<1>4. prev \in 0..(w - 1) /\ energy \in 0..(w - 1)
  BY DEF Level
<1>5. energy = prev + joules \/ energy = prev + joules - w
  BY <1>3 DEF Follows
<1>6. Delta(i, prev, energy) = joules
  <2>1. CASE energy < prev
    <3>1. energy = prev + joules - w /\ Dirs[i].maxRange = w
      BY <1>1, <1>3, <1>4, <1>5, <2>1
    <3> QED  BY <1>1, <1>4, <2>1, <3>1 DEF Delta
  <2>2. CASE ~(energy < prev)
    <3>1. energy = prev + joules
      BY <1>1, <1>3, <1>4, <1>5, <2>2
    <3> HIDE DEF w, most
    <3> QED  BY <1>1, <1>4, <2>2, <3>1 DEF Delta
  <2> QED  BY <2>1, <2>2
<1>7. Delta(i, prev, energy) \in 0..(MaxWatts * seconds)
  BY <1>2, <1>3, <1>6
<1>8. energy < prev => Dirs[i].maxRange > 0
  BY <1>1, <1>3
<1> QED  BY <1>3, <1>6, <1>7, <1>8 DEF Counts

-----------------------------------------------------------------------------
LEMMA InitInv == Init => RaplInv
<1> SUFFICES ASSUME Init PROVE RaplInv
  OBVIOUS
<1>1. TypeOK
  BY RaplConstants DEF Init, TypeOK, NotRead, Nothing, Never, None, FindZones
<1>2. OneAtWork
  BY DEF Init, OneAtWork
<1>3. InRange
  <2> SUFFICES ASSUME NEW i \in FindZones
               PROVE  /\ counter[i] \in Level(i) /\ last[i].energy \in Level(i)
                      /\ i \in begun <=> last[i].at # Never
                      /\ \A a \in Attempts : Holds(a, i) => held[a].energy \in Level(i)
    BY DEF InRange
  <2>1. counter[i] = 0 /\ last[i] = NotRead /\ 0 \in Level(i)
    BY Zone DEF Init, Level
  <2> QED  BY <2>1 DEF Init, NotRead, Holds
<1>4. ReadingsFollow
  BY DEF Init, ReadingsFollow, Holds
<1>5. EnergyIsAccounted
  BY DEF Init, EnergyIsAccounted
<1> QED  BY <1>1, <1>2, <1>3, <1>4, <1>5 DEF RaplInv

-----------------------------------------------------------------------------
(* One lemma for each kind of step.                                        *)

LEMMA UseStep ==
  ASSUME RaplInv, NEW p \in Parts, Use(p)
  PROVE  RaplInv'
<1> USE DEF RaplInv
<1>1. \A i \in DOMAIN Dirs :
        \/ counter'[i] = counter[i] /\ spent'[i] = spent[i]
        \/ /\ counter'[i] = (IF counter[i] + 1 = Dirs[i].wrap THEN 0 ELSE counter[i] + 1)
           /\ spent'[i] = spent[i] + 1
  BY DEF Use, TypeOK
<1>2. TypeOK'
  <2>1. counter' \in [DOMAIN Dirs -> Nat] /\ spent' \in [DOMAIN Dirs -> Nat] /\ total' \in Nat
    BY DEF Use, TypeOK
  <2> QED  BY <2>1 DEF Use, TypeOK, history
<1>3. OneAtWork'
  BY DEF Use, OneAtWork, history
<1>4. InRange'
  <2> SUFFICES ASSUME NEW i \in FindZones PROVE counter'[i] \in Level(i)
    BY DEF Use, InRange, Holds, history
  <2>1. Dirs[i].wrap \in Nat \ {0} /\ i \in DOMAIN Dirs /\ counter[i] \in 0..(Dirs[i].wrap - 1)
    BY Zone DEF InRange, Level
  <2> QED  BY <1>1, <2>1 DEF Level
<1>5. ReadingsFollow'
  <2>1. \A i \in FindZones, from \in Nat :
          from \in Level(i) /\ Follows(i, from, spent[i], counter[i])
            => Follows(i, from, spent'[i], counter'[i])
    <3> SUFFICES ASSUME NEW i \in FindZones, NEW from \in Level(i),
                        Follows(i, from, spent[i], counter[i])
                 PROVE  Follows(i, from, spent'[i], counter'[i])
      OBVIOUS
    <3> DEFINE w == Dirs[i].wrap
    <3>1. /\ w \in Nat \ {0} /\ i \in DOMAIN Dirs /\ from \in 0..(w - 1)
          /\ counter[i] \in 0..(w - 1) /\ spent[i] \in Nat
      BY Zone DEF InRange, Level, TypeOK
    <3>2. spent[i] < w => counter[i] = from + spent[i] \/ counter[i] = from + spent[i] - w
      BY DEF Follows
    <3>3. CASE counter'[i] = counter[i] /\ spent'[i] = spent[i]
      BY <3>2, <3>3 DEF Follows
    <3>4. CASE /\ counter'[i] = (IF counter[i] + 1 = w THEN 0 ELSE counter[i] + 1)
               /\ spent'[i] = spent[i] + 1
      <4>1. spent'[i] < w => counter'[i] = from + spent'[i] \/ counter'[i] = from + spent'[i] - w
        BY <3>1, <3>2, <3>4, FollowsStep
      <4> QED  BY <4>1 DEF Follows
    <3> QED  BY <1>1, <3>1, <3>3, <3>4
  <2> SUFFICES ASSUME NEW i \in FindZones \ lost
               PROVE  /\ \A a \in Attempts : Holds(a, i) =>
                           /\ Follows(i, held[a].energy, spent'[i], counter'[i])
                           /\ i \in begun => Follows(i, last[i].energy, held[a].used, held[a].energy)
                      /\ i \in begun /\ (\A a \in Attempts : ~Holds(a, i)) =>
                           Follows(i, last[i].energy, spent'[i], counter'[i])
    BY DEF Use, ReadingsFollow, Holds, history
  <2>2. \A a \in Attempts : held[a].energy \in Nat /\ (Holds(a, i) => held[a].energy \in Level(i))
    BY DEF InRange, TypeOK
  <2>3. last[i].energy \in Nat /\ last[i].energy \in Level(i)
    BY DEF InRange, TypeOK
  <2> QED  BY <2>1, <2>2, <2>3 DEF ReadingsFollow
<1>6. EnergyIsAccounted'
  BY DEF Use, EnergyIsAccounted, history
<1> QED  BY <1>2, <1>3, <1>4, <1>5, <1>6

LEMMA RestartStep ==
  ASSUME RaplInv, NEW z \in FindZones, Restart(z)
  PROVE  RaplInv'
<1> USE DEF RaplInv
<1>1. z \in DOMAIN Dirs /\ 0 \in Level(z)
  BY Zone DEF Level
<1>2. /\ counter' \in [DOMAIN Dirs -> Nat]
      /\ counter'[z] = 0 /\ \A i \in DOMAIN Dirs \ {z} : counter'[i] = counter[i]
  BY <1>1 DEF Restart, TypeOK
<1>3. TypeOK'
  BY <1>2 DEF Restart, TypeOK
<1>4. OneAtWork'
  BY DEF Restart, OneAtWork
<1>5. InRange'
  <2>1. \A i \in FindZones : counter'[i] \in Level(i)
    BY <1>1, <1>2, Zone DEF InRange
  <2> QED  BY <2>1 DEF Restart, InRange, Holds
<1>6. ReadingsFollow'
  <2>1. \A i \in FindZones \ lost' : i \in FindZones \ lost /\ counter'[i] = counter[i]
    BY <1>2, Zone DEF Restart
  <2> QED  BY <2>1 DEF Restart, ReadingsFollow, Holds
<1>7. EnergyIsAccounted'
  BY DEF Restart, EnergyIsAccounted
<1> QED  BY <1>3, <1>4, <1>5, <1>6, <1>7

LEMMA LockStep ==
  ASSUME RaplInv, NEW b \in Attempts, Lock(b)
  PROVE  RaplInv'
<1> USE DEF RaplInv
<1>1. \A a \in Attempts : (phase'[a] = "stamp") <=> (phase[a] = "stamp")
  BY DEF Lock, TypeOK
<1>2. TypeOK'
  BY DEF Lock, TypeOK, hardware, history
<1>3. OneAtWork'
  <2>1. \A a \in Attempts : phase[a] = "idle"
    BY RaplConstants DEF Lock, Free, OneAtWork, RaplConstants
  <2> QED  BY <2>1 DEF Lock, OneAtWork, TypeOK
<1>4. \A a \in Attempts, i \in FindZones : Holds(a, i)' <=> Holds(a, i)
  BY <1>1 DEF Lock, Holds
<1>5. InRange'
  BY <1>4 DEF Lock, InRange, hardware, history
<1>6. ReadingsFollow'
  BY <1>4 DEF Lock, ReadingsFollow, hardware, history
<1>7. EnergyIsAccounted'
  BY DEF Lock, EnergyIsAccounted, history
<1> QED  BY <1>2, <1>3, <1>5, <1>6, <1>7

LEMMA UnlockStep ==
  ASSUME RaplInv, NEW b \in Attempts, Unlock(b)
  PROVE  RaplInv'
<1> USE DEF RaplInv
<1>1. \A a \in Attempts : (phase'[a] = "stamp") <=> (phase[a] = "stamp")
  BY DEF Unlock, TypeOK
<1>2. TypeOK'
  BY DEF Unlock, TypeOK, hardware, history
<1>3. OneAtWork'
  BY DEF Unlock, OneAtWork, TypeOK
<1>4. \A a \in Attempts, i \in FindZones : Holds(a, i)' <=> Holds(a, i)
  BY <1>1 DEF Unlock, Holds
<1>5. InRange'
  BY <1>4 DEF Unlock, InRange, hardware, history
<1>6. ReadingsFollow'
  BY <1>4 DEF Unlock, ReadingsFollow, hardware, history
<1>7. EnergyIsAccounted'
  BY DEF Unlock, EnergyIsAccounted, history
<1> QED  BY <1>2, <1>3, <1>5, <1>6, <1>7

LEMMA ReadFailsStep ==
  ASSUME RaplInv, NEW b \in Attempts, NEW z \in FindZones, ReadFails(b, z)
  PROVE  RaplInv'
<1> USE DEF RaplInv
<1>1. last' = last
  BY DEF ReadFails, AfterFailure
<1>2. TypeOK'
  BY <1>1 DEF ReadFails, TypeOK, hardware, history
<1>3. OneAtWork'
  BY DEF ReadFails, OneAtWork
<1>4. \A a \in Attempts, i \in FindZones : Holds(a, i)' <=> Holds(a, i)
  BY DEF ReadFails, Holds
<1>5. InRange'
  BY <1>1, <1>4 DEF ReadFails, InRange, hardware, history
<1>6. ReadingsFollow'
  BY <1>1, <1>4 DEF ReadFails, ReadingsFollow, hardware, history
<1>7. EnergyIsAccounted'
  BY DEF ReadFails, EnergyIsAccounted, history
<1> QED  BY <1>2, <1>3, <1>5, <1>6, <1>7

LEMMA ReadStep ==
  ASSUME RaplInv, NEW b \in Attempts, NEW z \in FindZones, Read(b, z)
  PROVE  RaplInv'
<1> USE DEF RaplInv
<1>1. z \in DOMAIN Dirs /\ phase[b] = "zones"
  BY Zone DEF Read
<1>2. /\ spent' \in [DOMAIN Dirs -> Nat]
      /\ spent'[z] = 0 /\ \A i \in DOMAIN Dirs \ {z} : spent'[i] = spent[i]
  BY <1>1 DEF Read, TypeOK
<1>3. /\ held'[b] = [zone |-> z, energy |-> counter[z], used |-> spent[z]]
      /\ phase'[b] = "stamp"
      /\ \A a \in Attempts \ {b} : held'[a] = held[a] /\ phase'[a] = phase[a]
  BY DEF Read, TypeOK
<1>4. \A a \in Attempts \ {b} : phase[a] = "idle"
  BY <1>1 DEF OneAtWork
<1>5. \A a \in Attempts, i \in FindZones :
        /\ ~Holds(a, i)
        /\ Holds(a, i)' <=> a = b /\ i = z
  <2>1. \A a \in Attempts : phase[a] # "stamp"
    BY <1>1, <1>4
  <2> QED  BY <2>1, <1>3 DEF Holds
<1>6. TypeOK'
  <2>1. held' \in [Attempts -> [zone : FindZones \cup {0}, energy : Nat, used : Nat]]
    BY <1>1 DEF Read, TypeOK
  <2> QED  BY <1>2, <2>1 DEF Read, TypeOK, history
<1>7. OneAtWork'
  BY <1>1, <1>3, <1>4 DEF Read, OneAtWork
<1>8. InRange'
  <2> SUFFICES ASSUME NEW a \in Attempts, NEW i \in FindZones, Holds(a, i)'
               PROVE  held'[a].energy \in Level(i)
    BY DEF Read, InRange, history
  <2> QED  BY <1>3, <1>5 DEF InRange
<1>9. ReadingsFollow'
  <2> SUFFICES ASSUME NEW i \in FindZones \ lost
               PROVE  /\ \A a \in Attempts : Holds(a, i)' =>
                           /\ Follows(i, held'[a].energy, spent'[i], counter[i])
                           /\ i \in begun =>
                                Follows(i, last[i].energy, held'[a].used, held'[a].energy)
                      /\ i \in begun /\ (\A a \in Attempts : ~Holds(a, i)') =>
                           Follows(i, last[i].energy, spent'[i], counter[i])
    BY DEF Read, ReadingsFollow, history
  <2>1. i \in begun => Follows(i, last[i].energy, spent[i], counter[i])
    BY <1>5 DEF ReadingsFollow
  <2>2. i \in DOMAIN Dirs
    BY Zone
  <2>3. CASE i = z
    <3>1. counter[i] \in Nat
      BY <2>2 DEF TypeOK
    <3>2. Follows(i, counter[i], 0, counter[i])
      BY <3>1 DEF Follows
    <3> QED  BY <1>2, <1>3, <1>5, <2>1, <2>3, <3>2
  <2>4. CASE i # z
    BY <1>2, <1>5, <2>1, <2>2, <2>4
  <2> QED  BY <2>3, <2>4
<1>10. EnergyIsAccounted'
  BY DEF Read, EnergyIsAccounted, history
<1> QED  BY <1>6, <1>7, <1>8, <1>9, <1>10

LEMMA StampStep ==
  ASSUME RaplInv, NEW b \in Attempts, Stamp(b)
  PROVE  RaplInv'
<1> USE DEF RaplInv
<1> DEFINE z == held[b].zone
           energy == held[b].energy
           seen == last[z].at # Never
           seconds == now - last[z].at
<1>1. /\ phase[b] = "stamp" /\ z \in FindZones /\ Holds(b, z)
      /\ energy \in Level(z) /\ held[b].used \in Nat
      /\ last[z].energy \in Level(z) /\ last[z].at \in Int /\ now \in Nat
      /\ seen <=> z \in begun
  BY DEF Stamp, OneAtWork, InRange, TypeOK, Holds
<1>2. /\ last'[z] = [energy |-> energy, at |-> now]
      /\ \A i \in FindZones \ {z} : last'[i] = last[i]
      /\ begun' = begun \cup {z}
      /\ lost \subseteq lost'
  BY <1>1 DEF Stamp, TypeOK
<1>3. \A a \in Attempts : phase'[a] # "stamp"
  <2>1. \A a \in Attempts \ {b} : phase[a] = "idle"
    BY <1>1 DEF OneAtWork
  <2> QED  BY <2>1 DEF Stamp, TypeOK
<1>4. \A a \in Attempts, i \in FindZones : ~Holds(a, i)'
  BY <1>3 DEF Holds
<1>5. z \notin lost' =>
        /\ Follows(z, energy, spent[z], counter[z])
        /\ seen => /\ Counts(z, last[z].energy, energy, seconds)
                   /\ Delta(z, last[z].energy, energy) = held[b].used
  <2> SUFFICES ASSUME z \notin lost'
               PROVE  /\ Follows(z, energy, spent[z], counter[z])
                      /\ seen => /\ Counts(z, last[z].energy, energy, seconds)
                                 /\ Delta(z, last[z].energy, energy) = held[b].used
    OBVIOUS
  <2>1. z \in FindZones \ lost
    BY <1>1, <1>2
  <2>2. Follows(z, energy, spent[z], counter[z])
    BY <1>1, <2>1 DEF ReadingsFollow
  <2>3. ASSUME seen
        PROVE  /\ Counts(z, last[z].energy, energy, seconds)
               /\ Delta(z, last[z].energy, energy) = held[b].used
    <3>1. Follows(z, last[z].energy, held[b].used, energy)
      BY <1>1, <2>1, <2>3 DEF ReadingsFollow
    <3>2. ~Untold(z, last[z].energy, energy, held[b].used, seconds)
      BY <2>3 DEF Stamp
    <3>3. seconds \in Int
      BY <1>1
    <3> HIDE DEF z, energy, seconds
    <3> QED  BY <1>1, <3>1, <3>2, <3>3, DeltaIsUsed
  <2> QED  BY <2>2, <2>3
<1>6. /\ used' = IF z \in begun THEN [used EXCEPT ![z] = @ + held[b].used] ELSE used
      /\ reported' = IF seen /\ Counts(z, last[z].energy, energy, seconds)
                     THEN [reported EXCEPT ![z] = @ + Delta(z, last[z].energy, energy)]
                     ELSE reported
  BY DEF Stamp
<1>7. Delta(z, last[z].energy, energy) \in Int
  <2>1. Dirs[z].maxRange \in Int /\ last[z].energy \in Int /\ energy \in Int
    BY <1>1, Zone DEF Level
  <2> QED  BY <2>1 DEF Delta
<1>8. TypeOK'
  <2>1. used' \in [FindZones -> Int] /\ reported' \in [FindZones -> Int]
    BY <1>1, <1>6, <1>7 DEF TypeOK
  <2>2. last' \in [FindZones -> [energy : Nat, at : Int]]
    BY <1>1 DEF Stamp, TypeOK
  <2>3. held' \in [Attempts -> [zone : FindZones \cup {0}, energy : Nat, used : Nat]]
    BY DEF Stamp, TypeOK, Nothing
  <2>4. lost' \subseteq FindZones /\ begun' \subseteq FindZones
    BY <1>1, <1>2 DEF Stamp, TypeOK
  <2> QED  BY <2>1, <2>2, <2>3, <2>4 DEF Stamp, TypeOK, hardware
<1>9. OneAtWork'
  BY <1>3 DEF Stamp, OneAtWork, TypeOK
<1>10. InRange'
  <2> SUFFICES ASSUME NEW i \in FindZones
               PROVE  last'[i].energy \in Level(i) /\ (i \in begun' <=> last'[i].at # Never)
    BY <1>4 DEF Stamp, InRange, hardware
  <2>1. CASE i = z
    BY <1>1, <1>2, <2>1 DEF Never
  <2>2. CASE i # z
    BY <1>2, <2>2 DEF InRange
  <2> QED  BY <2>1, <2>2
<1>11. ReadingsFollow'
  <2> SUFFICES ASSUME NEW i \in FindZones \ lost', i \in begun'
               PROVE  Follows(i, last'[i].energy, spent[i], counter[i])
    BY <1>4 DEF Stamp, ReadingsFollow, hardware
  <2>1. CASE i = z
    BY <1>2, <1>5, <2>1
  <2>2. CASE i # z
    <3>1. i \in FindZones \ lost /\ i \in begun
      BY <1>2, <2>2
    <3>2. \A a \in Attempts : ~Holds(a, i)
      BY <1>1, <2>2 DEF OneAtWork, Holds
    <3> QED  BY <1>2, <2>2, <3>1, <3>2 DEF ReadingsFollow
  <2> QED  BY <2>1, <2>2
<1>12. EnergyIsAccounted'
  <2> SUFFICES ASSUME NEW i \in FindZones \ lost' PROVE reported'[i] = used'[i]
    BY DEF EnergyIsAccounted
  <2>1. reported[i] = used[i]
    BY <1>2 DEF EnergyIsAccounted
  <2>2. CASE i = z /\ seen
    BY <1>1, <1>5, <1>6, <2>1, <2>2 DEF TypeOK
  <2>3. CASE i = z /\ ~seen
    BY <1>1, <1>6, <2>1, <2>3
  <2>4. CASE i # z
    BY <1>6, <2>1, <2>4 DEF TypeOK
  <2> QED  BY <2>2, <2>3, <2>4
<1> QED  BY <1>8, <1>9, <1>10, <1>11, <1>12

-----------------------------------------------------------------------------
LEMMA NextStep == RaplInv /\ [Next]_vars => RaplInv'
<1> SUFFICES ASSUME RaplInv, [Next]_vars PROVE RaplInv'
  OBVIOUS
<1>1. CASE Tick
  <2>1. TypeOK'
    BY <1>1 DEF Tick, RaplInv, TypeOK, history
  <2>2. OneAtWork'
    BY <1>1 DEF Tick, RaplInv, OneAtWork
  <2>3. InRange'
    BY <1>1 DEF Tick, RaplInv, InRange, Holds, history
  <2>4. ReadingsFollow'
    BY <1>1 DEF Tick, RaplInv, ReadingsFollow, Holds, history
  <2>5. EnergyIsAccounted'
    BY <1>1 DEF Tick, RaplInv, EnergyIsAccounted, history
  <2> QED  BY <2>1, <2>2, <2>3, <2>4, <2>5 DEF RaplInv
<1>2. ASSUME NEW p \in Parts, Use(p) PROVE RaplInv'
  BY <1>2, UseStep
<1>3. ASSUME NEW i \in FindZones, Restart(i) PROVE RaplInv'
  BY <1>3, RestartStep
<1>4. ASSUME NEW a \in Attempts, Lock(a) \/ Unlock(a) \/ Stamp(a) PROVE RaplInv'
  BY <1>4, LockStep, UnlockStep, StampStep
<1>5. ASSUME NEW a \in Attempts, NEW i \in FindZones, Read(a, i) \/ ReadFails(a, i)
      PROVE  RaplInv'
  BY <1>5, ReadStep, ReadFailsStep
<1>6. CASE UNCHANGED vars
  <2>1. TypeOK'
    BY <1>6 DEF RaplInv, TypeOK, vars, hardware, history
  <2>2. OneAtWork'
    BY <1>6 DEF RaplInv, OneAtWork, vars
  <2>3. InRange'
    BY <1>6 DEF RaplInv, InRange, Holds, vars, hardware, history
  <2>4. ReadingsFollow'
    BY <1>6 DEF RaplInv, ReadingsFollow, Holds, vars, hardware, history
  <2>5. EnergyIsAccounted'
    BY <1>6 DEF RaplInv, EnergyIsAccounted, vars, history
  <2> QED  BY <2>1, <2>2, <2>3, <2>4, <2>5 DEF RaplInv
<1> QED  BY <1>1, <1>2, <1>3, <1>4, <1>5, <1>6 DEF Next

(* The inductive invariant: between two readings of a zone its counter has *)
(* counted what the zone used, but for one turn at most.                   *)
THEOREM RaplCorrect == Spec => []RaplInv
<1>1. Init => RaplInv
  BY InitInv
<1>2. RaplInv /\ [Next]_vars => RaplInv'
  BY NextStep
<1> QED  BY <1>1, <1>2, PTL DEF Spec

(* The power reported for a zone accounts for exactly the energy it used   *)
(* (Sample, raplWatts), for any zones, wraps, failures and overlapping     *)
(* attempts, unless one of its intervals could not be told.                *)
THEOREM PowerAccountsForEnergy == Spec => []EnergyIsAccounted
<1>1. RaplInv => EnergyIsAccounted
  BY DEF RaplInv
<1> QED  BY <1>1, RaplCorrect, PTL

-----------------------------------------------------------------------------
(* What makes these inductive, unless the collector was misled when it     *)
(* opened the dongle: what was left over then has been read before the     *)
(* reply that has the model's name, and from then on a reply is that to    *)
(* the message sent last.                                                  *)
Labels == [reg : {"none", "unpaged", "rail", "connector", "model"}, page : Int, settled : BOOLEAN]
Kinds == {"setup", "read", "write", "select"}
Stages == {"command", "status", "memory"}
Operations == [kind : Kinds, what : Labels]
Messages == [part : Stages, kind : Kinds, what : Labels]
Answers == [len : 1..7, first : {"ok", "busy", "other"}, value : Labels]
Records == [label : Labels, value : Labels]

AxiTypeOK ==
  /\ open \in BOOLEAN /\ asked \in BOOLEAN /\ selected \in BOOLEAN
  /\ todo \in Seq(Operations) /\ part \in Stages /\ polls \in Nat
  /\ connector \in Axi!Connectors
  /\ power \in [Axi!Connectors -> Labels] /\ age \in [Axi!Connectors -> Int]
  /\ values \subseteq Records
  /\ report \subseteq Records
  /\ inbox \in Seq(Messages)
  /\ outbox \in Seq(Answers)
  /\ Len(inbox) + Len(outbox) <= Held
  /\ misled \in BOOLEAN
  /\ rail \in Int /\ page \in Int /\ since \in 0..SettleAfter /\ memory \in Labels

Plan == Axi!OpenOps \o Axi!ReadOps
Done == Len(Plan) - Len(todo)
Opening == todo # <<>> /\ Done < Len(Axi!OpenOps)

Planned ==
  /\ todo = <<>> => ~asked /\ part = "command"
  /\ todo # <<>> =>
       /\ open /\ Done >= 0 /\ \A k \in DOMAIN todo : todo[k] = Plan[Done + k]
       /\ Head(todo).kind = "setup" => part = "command"
       /\ part = "memory" => Head(todo).kind = "read"
  /\ selected => open /\ ~Opening

(* Replies read since the dongle was opened, at least.                     *)
Caught ==
  IF Done = 0 THEN 0 ELSE CASE part = "command" -> 1 [] part = "status" -> 2 [] part = "memory" -> 3

NamesModel(m) == m.part = "memory" /\ m.what = Axi!Model

CatchingUp ==
  ~misled /\ Opening =>
    /\ \A i \in DOMAIN outbox : i + Caught > 3 =>
         outbox[i].len < 7 \/ (Caught = 3 /\ asked /\ inbox = <<>> /\ i = Len(outbox))
    /\ \A i \in DOMAIN inbox : Len(outbox) + i + Caught > 3 =>
         ~NamesModel(inbox[i]) \/ (Caught = 3 /\ asked /\ i = Len(inbox))

(* The command of the first operation has been handled.                    *)
Commanded == todo # <<>> /\ (part # "command" \/ outbox # <<>>)

(* The page to read next is selected, or its reading is under way.         *)
Selected == selected /\ Len(todo) # 1

InStep ==
  ~misled /\ open /\ ~Opening =>
    /\ inbox = <<>> \/ (asked /\ inbox = <<Axi!Message>> /\ outbox = <<>>)
    /\ outbox = <<>> \/ (asked /\ Len(outbox) = 1)
    /\ outbox # <<>> /\ part = "memory" => outbox[1].value = memory
    /\ todo # <<>> /\ Head(todo).kind = "read" /\ Head(todo).what.reg = "rail" =>
         rail = Head(todo).what.page
    /\ Selected => page = connector
    /\ Commanded =>
         CASE Head(todo).kind = "read" -> /\ memory.reg = Head(todo).what.reg
                                          /\ memory.page = Head(todo).what.page
           [] Head(todo).kind = "write" -> rail = Head(todo).what.page
           [] Head(todo).kind = "select" -> page = connector
           [] OTHER -> TRUE

OwnValues ==
  /\ Axi!ReadingsAreTheirOwn
  /\ ~misled => \A r \in values : r.value.reg = r.label.reg /\ r.value.page = r.label.page
  /\ ~misled => \A c \in Axi!Connectors :
                  power[c] # Axi!Nothing => power[c].reg = "connector" /\ power[c].page = c

(* Messages handled since the page was selected: three to read a register, *)
(* two to write one.                                                       *)
Now == (CASE part = "command" -> 0 [] part = "status" -> 1 [] part = "memory" -> 2)
         + IF outbox = <<>> THEN 0 ELSE 1

Waited(n) == since >= n + Now \/ since = SettleAfter

Settling ==
  ~misled /\ todo # <<>> /\ Selected =>
    /\ \A n \in 0..NumUnpaged : Done = 2 + n => Waited(3 * n)
    /\ \A n \in 0..NumRails : Done = 2 + NumUnpaged + 2 * n => Waited(3 * NumUnpaged + 5 * n)
    /\ \A n \in 0..(NumRails - 1) :
         Done = 3 + NumUnpaged + 2 * n => Waited(3 * NumUnpaged + 5 * n + 2)
    /\ Done = NumUnpaged + 2 * NumRails + 3 => since = SettleAfter /\ (Commanded => memory.settled)

Turns ==
  \A c \in Axi!Connectors :
    /\ power[c] # Axi!Nothing =>
         /\ power[c].settled \/ misled
         /\ age[c] = IF c < connector THEN connector - 1 - c ELSE NumConnectors + connector - 1 - c
    /\ power[c] = Axi!Nothing => age[c] = 0

AxiIInv == AxiTypeOK /\ Planned /\ CatchingUp /\ InStep /\ OwnValues /\ Settling /\ Turns

-----------------------------------------------------------------------------
Before == NumUnpaged + 2 * NumRails + 2   \* operations before the last ones

(* The operations that may be in a Sample are operations.                  *)
LEMMA OpsAreTyped ==
  /\ Axi!Nothing \in Labels /\ Axi!Model \in Labels
  /\ \A k \in Int : Axi!Unpaged(k) \in Labels /\ Axi!Rail(k) \in Labels /\ Axi!Connector(k) \in Labels
  /\ \A kind \in Kinds, what \in Labels : Axi!Op(kind, what) \in Operations
BY DEF Axi!Nothing, Axi!Model, Axi!Unpaged, Axi!Rail, Axi!Connector, Labels, Axi!Op, Operations

(* First each register that has no pages is read.                          *)
LEMMA UnpagedOpsAre ==
  /\ Axi!UnpagedOps \in Seq(Operations) /\ Len(Axi!UnpagedOps) = NumUnpaged
  /\ \A k \in 1..NumUnpaged : Axi!UnpagedOps[k] = Axi!Op("read", Axi!Unpaged(k))
<1>1. NumUnpaged \in Nat
  BY Constants DEF Axi!AxiConstants
<1>2. \A k \in 1..NumUnpaged : Axi!Op("read", Axi!Unpaged(k)) \in Operations
  BY OpsAreTyped DEF Kinds
<1>3. Axi!UnpagedOps = [k \in 1..NumUnpaged |-> Axi!Op("read", Axi!Unpaged(k))]
  BY DEF Axi!UnpagedOps
<1> HIDE DEF Operations
<1>. QED
  BY <1>1, <1>2, <1>3

(* A rail is selected before it is read.                                   *)
LEMMA RailOpsAre ==
  /\ Axi!RailOps \in Seq(Operations) /\ Len(Axi!RailOps) = 2 * NumRails
  /\ \A j \in 0..(NumRails - 1) : /\ Axi!RailOps[2 * j + 1] = Axi!Op("write", Axi!Rail(j))
                                  /\ Axi!RailOps[2 * j + 2] = Axi!Op("read", Axi!Rail(j))
<1>1. NumRails \in Nat
  BY Constants DEF Axi!AxiConstants
<1> DEFINE f(i) == Axi!Op(IF i % 2 = 1 THEN "write" ELSE "read", Axi!Rail((i - 1) \div 2))
<1>2. \A i \in 1..(2 * NumRails) : f(i) \in Operations
  <2>1. SUFFICES ASSUME NEW i \in 1..(2 * NumRails) PROVE f(i) \in Operations
    OBVIOUS
  <2>2. (i - 1) \div 2 \in Int
    OBVIOUS
  <2>3. Axi!Rail((i - 1) \div 2) \in Labels
    BY <2>2, OpsAreTyped
  <2>4. (IF i % 2 = 1 THEN "write" ELSE "read") \in Kinds
    BY DEF Kinds
  <2>. QED
    BY <2>3, <2>4, OpsAreTyped
<1>3. Axi!RailOps = [i \in 1..(2 * NumRails) |-> f(i)]
  BY DEF Axi!RailOps
<1>4. ASSUME NEW j \in 0..(NumRails - 1)
      PROVE  f(2 * j + 1) = Axi!Op("write", Axi!Rail(j)) /\ f(2 * j + 2) = Axi!Op("read", Axi!Rail(j))
  <2>1. (2 * j + 1) % 2 = 1 /\ (2 * j + 2) % 2 = 0
    OBVIOUS
  <2>2. (2 * j + 1 - 1) \div 2 = j /\ (2 * j + 2 - 1) \div 2 = j
    OBVIOUS
  <2>. QED
    BY <2>1, <2>2
<1>5. \A j \in 0..(NumRails - 1) : 2 * j + 1 \in 1..(2 * NumRails) /\ 2 * j + 2 \in 1..(2 * NumRails)
  BY <1>1
<1> HIDE DEF f, Operations
<1>6. Axi!RailOps \in Seq(Operations) /\ Len(Axi!RailOps) = 2 * NumRails
  <2>1. 2 * NumRails \in Nat
    BY <1>1
  <2>. QED
    BY <1>2, <1>3, <2>1
<1>. QED
  BY <1>3, <1>4, <1>5, <1>6

(* Elements of a concatenation.                                            *)
LEMMA ConcatElements ==
  ASSUME NEW S, NEW s \in Seq(S), NEW t \in Seq(S)
  PROVE  /\ s \o t \in Seq(S) /\ Len(s \o t) = Len(s) + Len(t)
         /\ \A k \in 1..Len(s) : (s \o t)[k] = s[k]
         /\ \A k \in 1..Len(t) : (s \o t)[Len(s) + k] = t[k]
BY ConcatProperties

(* Last the connector whose page is selected is read, if one is, and the   *)
(* next one selected.                                                      *)
LEMMA ConnectorOpsAre ==
  ASSUME connector \in Axi!Connectors, NEW sel \in BOOLEAN
  PROVE  /\ Axi!ConnectorOps(sel) \in Seq(Operations)
         /\ Axi!ConnectorOps(sel)[1] = Axi!Op("write", Axi!Rail(0))
         /\ sel => /\ Len(Axi!ConnectorOps(sel)) = 3
                   /\ Axi!ConnectorOps(sel)[2] = Axi!Op("read", Axi!Connector(connector))
                   /\ Axi!ConnectorOps(sel)[3] = Axi!Op("select", Axi!Nothing)
         /\ ~sel => /\ Len(Axi!ConnectorOps(sel)) = 2
                    /\ Axi!ConnectorOps(sel)[2] = Axi!Op("select", Axi!Nothing)
<1>1. connector \in Int
  BY DEF Axi!Connectors
<1>2. /\ Axi!Op("write", Axi!Rail(0)) \in Operations
      /\ Axi!Op("read", Axi!Connector(connector)) \in Operations
      /\ Axi!Op("select", Axi!Nothing) \in Operations
  BY <1>1, OpsAreTyped DEF Kinds
<1> DEFINE w == <<Axi!Op("write", Axi!Rail(0))>>
           r == IF sel THEN <<Axi!Op("read", Axi!Connector(connector))>> ELSE <<>>
           s == <<Axi!Op("select", Axi!Nothing)>>
           wr == w \o r
<1> HIDE DEF Operations
<1>3. /\ w \in Seq(Operations) /\ Len(w) = 1 /\ w[1] = Axi!Op("write", Axi!Rail(0))
      /\ s \in Seq(Operations) /\ Len(s) = 1 /\ s[1] = Axi!Op("select", Axi!Nothing)
      /\ r \in Seq(Operations) /\ Len(r) = (IF sel THEN 1 ELSE 0)
      /\ sel => r[1] = Axi!Op("read", Axi!Connector(connector))
  BY <1>2
<1>4. Axi!ConnectorOps(sel) = wr \o s
  BY DEF Axi!ConnectorOps
<1> HIDE DEF w, r, s
<1> HIDE DEF wr
<1>5. /\ wr \in Seq(Operations) /\ Len(wr) = 1 + Len(r)
      /\ \A k \in 1..1 : wr[k] = w[k]
      /\ \A k \in 1..Len(r) : wr[1 + k] = r[k]
  <2>1. w \in Seq(Operations) /\ r \in Seq(Operations)
    BY <1>3
  <2>2. /\ w \o r \in Seq(Operations) /\ Len(w \o r) = Len(w) + Len(r)
        /\ \A k \in 1..Len(w) : (w \o r)[k] = w[k]
        /\ \A k \in 1..Len(r) : (w \o r)[Len(w) + k] = r[k]
    BY <2>1, ConcatElements
  <2>3. Len(w) = 1
    BY <1>3
  <2>. QED
    BY <2>2, <2>3 DEF wr
<1>6. /\ wr \o s \in Seq(Operations) /\ Len(wr \o s) = Len(wr) + Len(s)
      /\ \A k \in 1..Len(wr) : (wr \o s)[k] = wr[k]
      /\ \A k \in 1..Len(s) : (wr \o s)[Len(wr) + k] = s[k]
  BY <1>3, <1>5, ConcatElements
<1>. QED
  BY <1>3, <1>4, <1>5, <1>6

(* Opening the dongle ends with asking for the model.                      *)
LEMMA OpenOpsAre ==
  /\ Axi!OpenOps \in Seq(Operations) /\ Len(Axi!OpenOps) = 2
  /\ Axi!OpenOps[1] = Axi!Op("setup", Axi!Nothing) /\ Axi!OpenOps[2] = Axi!Op("read", Axi!Model)
<1>1. Axi!Op("setup", Axi!Nothing) \in Operations /\ Axi!Op("read", Axi!Model) \in Operations
  BY OpsAreTyped DEF Kinds
<1>. QED
  BY <1>1 DEF Axi!OpenOps

(* The operations of a Sample that opens the device, one by one; one that  *)
(* need not leaves out the first two.                                      *)
LEMMA PlanIs ==
  ASSUME connector \in Axi!Connectors, selected \in BOOLEAN
  PROVE  /\ Axi!ReadOps \in Seq(Operations) /\ Plan \in Seq(Operations)
         /\ Len(Axi!ReadOps) = Len(Plan) - 2
         /\ \A k \in 1..Len(Axi!ReadOps) : Axi!ReadOps[k] = Plan[2 + k]
         /\ Len(Plan) = Before + IF selected THEN 3 ELSE 2
         /\ Plan[1] = Axi!Op("setup", Axi!Nothing) /\ Plan[2] = Axi!Op("read", Axi!Model)
         /\ \A k \in 1..NumUnpaged : Plan[2 + k] = Axi!Op("read", Axi!Unpaged(k))
         /\ \A j \in 0..(NumRails - 1) :
              /\ Plan[NumUnpaged + 2 * j + 3] = Axi!Op("write", Axi!Rail(j))
              /\ Plan[NumUnpaged + 2 * j + 4] = Axi!Op("read", Axi!Rail(j))
         /\ Plan[Before + 1] = Axi!Op("write", Axi!Rail(0))
         /\ selected => Plan[Before + 2] = Axi!Op("read", Axi!Connector(connector))
         /\ Plan[Len(Plan)] = Axi!Op("select", Axi!Nothing)
<1> DEFINE c == Axi!ConnectorOps(selected)
           rc == Axi!RailOps \o c
           urc == Axi!UnpagedOps \o rc
           p == Axi!OpenOps \o urc
<1>1. NumUnpaged \in Nat /\ NumRails \in Nat
  BY Constants DEF Axi!AxiConstants
<1>2. /\ c \in Seq(Operations) /\ c[1] = Axi!Op("write", Axi!Rail(0))
      /\ selected => /\ Len(c) = 3 /\ c[2] = Axi!Op("read", Axi!Connector(connector))
                     /\ c[3] = Axi!Op("select", Axi!Nothing)
      /\ ~selected => Len(c) = 2 /\ c[2] = Axi!Op("select", Axi!Nothing)
  BY ConnectorOpsAre
<1>3. /\ Axi!RailOps \in Seq(Operations) /\ Len(Axi!RailOps) = 2 * NumRails
      /\ Axi!UnpagedOps \in Seq(Operations) /\ Len(Axi!UnpagedOps) = NumUnpaged
      /\ Axi!OpenOps \in Seq(Operations) /\ Len(Axi!OpenOps) = 2
  BY RailOpsAre, UnpagedOpsAre, OpenOpsAre
<1>4. Axi!ReadOps = urc /\ Plan = p
  <2>1. Axi!ReadOps = (Axi!UnpagedOps \o Axi!RailOps) \o c
    BY DEF Axi!ReadOps
  <2>2. (Axi!UnpagedOps \o Axi!RailOps) \o c = Axi!UnpagedOps \o (Axi!RailOps \o c)
    <3>1. \A s, t, u \in Seq(Operations) : (s \o t) \o u = s \o (t \o u)
      BY ConcatAssociative
    <3>2. /\ Axi!UnpagedOps \in Seq(Operations) /\ Axi!RailOps \in Seq(Operations)
          /\ c \in Seq(Operations)
      BY <1>2, <1>3
    <3> HIDE DEF c
    <3>. QED
      BY <3>1, <3>2, Zenon
  <2>. QED
    BY <2>1, <2>2 DEF Plan
<1> HIDE DEF c, Operations
<1> HIDE DEF rc
<1>5. /\ rc \in Seq(Operations) /\ Len(rc) = 2 * NumRails + Len(c)
      /\ \A k \in 1..(2 * NumRails) : rc[k] = Axi!RailOps[k]
      /\ \A k \in 1..Len(c) : rc[2 * NumRails + k] = c[k]
  <2>1. Axi!RailOps \in Seq(Operations) /\ c \in Seq(Operations)
    BY <1>2, <1>3
  <2>2. /\ Axi!RailOps \o c \in Seq(Operations) /\ Len(Axi!RailOps \o c) = Len(Axi!RailOps) + Len(c)
        /\ \A k \in 1..Len(Axi!RailOps) : (Axi!RailOps \o c)[k] = Axi!RailOps[k]
        /\ \A k \in 1..Len(c) : (Axi!RailOps \o c)[Len(Axi!RailOps) + k] = c[k]
    BY <2>1, ConcatElements
  <2>3. Len(Axi!RailOps) = 2 * NumRails
    BY <1>2, <1>3
  <2>. QED
    BY <2>2, <2>3 DEF rc
<1> HIDE DEF urc
<1>6. /\ urc \in Seq(Operations) /\ Len(urc) = NumUnpaged + Len(rc)
      /\ \A k \in 1..NumUnpaged : urc[k] = Axi!UnpagedOps[k]
      /\ \A k \in 1..Len(rc) : urc[NumUnpaged + k] = rc[k]
  <2>1. Axi!UnpagedOps \in Seq(Operations) /\ rc \in Seq(Operations)
    BY <1>3, <1>5
  <2>2. /\ Axi!UnpagedOps \o rc \in Seq(Operations)
        /\ Len(Axi!UnpagedOps \o rc) = Len(Axi!UnpagedOps) + Len(rc)
        /\ \A k \in 1..Len(Axi!UnpagedOps) : (Axi!UnpagedOps \o rc)[k] = Axi!UnpagedOps[k]
        /\ \A k \in 1..Len(rc) : (Axi!UnpagedOps \o rc)[Len(Axi!UnpagedOps) + k] = rc[k]
    BY <2>1, ConcatElements
  <2>3. Len(Axi!UnpagedOps) = NumUnpaged
    BY <1>3, <1>5
  <2>. QED
    BY <2>2, <2>3 DEF urc
<1> HIDE DEF p
<1>7. /\ p \in Seq(Operations) /\ Len(p) = 2 + Len(urc)
      /\ \A k \in 1..2 : p[k] = Axi!OpenOps[k]
      /\ \A k \in 1..Len(urc) : p[2 + k] = urc[k]
  <2>1. Axi!OpenOps \in Seq(Operations) /\ urc \in Seq(Operations)
    BY <1>3, <1>6
  <2>2. /\ Axi!OpenOps \o urc \in Seq(Operations)
        /\ Len(Axi!OpenOps \o urc) = Len(Axi!OpenOps) + Len(urc)
        /\ \A k \in 1..Len(Axi!OpenOps) : (Axi!OpenOps \o urc)[k] = Axi!OpenOps[k]
        /\ \A k \in 1..Len(urc) : (Axi!OpenOps \o urc)[Len(Axi!OpenOps) + k] = urc[k]
    BY <2>1, ConcatElements
  <2>3. Len(Axi!OpenOps) = 2
    BY <1>3, <1>6
  <2>. QED
    BY <2>2, <2>3 DEF p
<1>8. Len(c) \in Nat /\ Len(rc) \in Nat /\ Len(urc) \in Nat /\ Len(c) = IF selected THEN 3 ELSE 2
  BY <1>2, <1>5, <1>6, LenProperties
<1>9. Len(p) = Before + Len(c)
  BY <1>1, <1>5, <1>6, <1>7, <1>8 DEF Before
<1>10. p[1] = Axi!Op("setup", Axi!Nothing) /\ p[2] = Axi!Op("read", Axi!Model)
  BY <1>7, OpenOpsAre
<1>11. ASSUME NEW k \in 1..NumUnpaged PROVE p[2 + k] = Axi!Op("read", Axi!Unpaged(k))
  <2>1. k \in 1..Len(urc)
    BY <1>1, <1>5, <1>6, <1>8
  <2>. QED
    BY <1>6, <1>7, <2>1, UnpagedOpsAre
<1>12. ASSUME NEW k \in 1..(2 * NumRails) PROVE p[NumUnpaged + k + 2] = Axi!RailOps[k]
  <2>1. k \in 1..Len(rc) /\ NumUnpaged + k \in 1..Len(urc)
    BY <1>1, <1>5, <1>6, <1>8
  <2>2. p[2 + (NumUnpaged + k)] = rc[k]
    BY <1>6, <1>7, <2>1
  <2>3. 2 + (NumUnpaged + k) = NumUnpaged + k + 2
    BY <1>1
  <2>. QED
    BY <1>5, <2>2, <2>3
<1>13. ASSUME NEW k \in 1..Len(c) PROVE p[Before + k] = c[k]
  <2>1. 2 * NumRails + k \in 1..Len(rc) /\ NumUnpaged + (2 * NumRails + k) \in 1..Len(urc)
    BY <1>1, <1>5, <1>6, <1>8
  <2>2. p[2 + (NumUnpaged + (2 * NumRails + k))] = rc[2 * NumRails + k]
    BY <1>6, <1>7, <2>1
  <2>3. 2 + (NumUnpaged + (2 * NumRails + k)) = Before + k
    BY <1>1, <1>8 DEF Before
  <2>. QED
    BY <1>5, <2>2, <2>3
<1>14. ASSUME NEW j \in 0..(NumRails - 1)
       PROVE  /\ p[NumUnpaged + 2 * j + 3] = Axi!Op("write", Axi!Rail(j))
              /\ p[NumUnpaged + 2 * j + 4] = Axi!Op("read", Axi!Rail(j))
  <2>1. 2 * j + 1 \in 1..(2 * NumRails) /\ 2 * j + 2 \in 1..(2 * NumRails)
    BY <1>1
  <2>2. /\ p[NumUnpaged + (2 * j + 1) + 2] = Axi!RailOps[2 * j + 1]
        /\ p[NumUnpaged + (2 * j + 2) + 2] = Axi!RailOps[2 * j + 2]
    BY <1>12, <2>1
  <2>3. /\ NumUnpaged + (2 * j + 1) + 2 = NumUnpaged + 2 * j + 3
        /\ NumUnpaged + (2 * j + 2) + 2 = NumUnpaged + 2 * j + 4
    BY <1>1
  <2>. QED
    BY <2>2, <2>3, RailOpsAre
<1>15. /\ p[Before + 1] = Axi!Op("write", Axi!Rail(0))
       /\ selected => p[Before + 2] = Axi!Op("read", Axi!Connector(connector))
  BY <1>2, <1>8, <1>13
<1>16. p[Len(p)] = Axi!Op("select", Axi!Nothing)
  <2>1. Len(c) \in 1..Len(c) /\ c[Len(c)] = Axi!Op("select", Axi!Nothing)
    BY <1>2, <1>8
  <2>. QED
    BY <1>9, <1>13, <2>1
<1>17. Len(urc) = Len(p) - 2
  BY <1>7, <1>8
<1>. QED
  BY <1>4, <1>6, <1>7, <1>8, <1>9, <1>10, <1>11, <1>14, <1>15, <1>16, <1>17

(* Connectors follow each other in a ring.                                 *)
LEMMA NextConnector ==
  ASSUME connector \in Axi!Connectors
  PROVE  /\ (connector + 1) % NumConnectors =
              IF connector + 1 = NumConnectors THEN 0 ELSE connector + 1
         /\ (connector + 1) % NumConnectors \in Axi!Connectors
<1>1. NumConnectors \in Nat \ {0} /\ connector \in 0..(NumConnectors - 1)
  BY Constants DEF Axi!AxiConstants, Axi!Connectors
<1>2. CASE connector + 1 = NumConnectors
  BY <1>1, <1>2 DEF Axi!Connectors
<1>3. CASE connector + 1 < NumConnectors
  BY <1>1, <1>3 DEF Axi!Connectors
<1>. QED
  BY <1>1, <1>2, <1>3

(* Where an operation of the plan can be.                                  *)
LEMMA PlaceInPlan ==
  ASSUME connector \in Axi!Connectors, selected \in BOOLEAN, NEW p \in 1..Len(Plan)
  PROVE  \/ p = 1
         \/ p = 2
         \/ \E k \in 1..NumUnpaged : p = 2 + k
         \/ \E j \in 0..(NumRails - 1) : p = NumUnpaged + 2 * j + 3
         \/ \E j \in 0..(NumRails - 1) : p = NumUnpaged + 2 * j + 4
         \/ p = Before + 1
         \/ selected /\ p = Before + 2
         \/ p = Len(Plan)
<1>1. NumUnpaged \in Nat /\ NumRails \in Nat
  BY Constants DEF Axi!AxiConstants
<1>2. Len(Plan) = Before + IF selected THEN 3 ELSE 2
  BY PlanIs
<1>3. CASE p \in 3..(NumUnpaged + 2)
  <2>1. p - 2 \in 1..NumUnpaged /\ p = 2 + (p - 2)
    BY <1>1, <1>3
  <2>. QED
    BY <2>1
<1>4. CASE p \in (NumUnpaged + 3)..Before
  <2> DEFINE i == p - NumUnpaged - 3
             j == i \div 2
  <2>1. i \in 0..(2 * NumRails - 1) /\ p = NumUnpaged + 3 + i
    BY <1>1, <1>4 DEF Before
  <2> HIDE DEF i
  <2>2. j \in 0..(NumRails - 1) /\ (i = 2 * j \/ i = 2 * j + 1)
    BY <1>1, <2>1
  <2> HIDE DEF j
  <2>3. p = NumUnpaged + 2 * j + 3 \/ p = NumUnpaged + 2 * j + 4
    BY <1>1, <2>1, <2>2
  <2>. QED
    BY <2>2, <2>3
<1>5. p \in {1, 2} \cup (3..(NumUnpaged + 2)) \cup ((NumUnpaged + 3)..Before) \cup {Before + 1}
        \cup (IF selected THEN {Before + 2} ELSE {}) \cup {Len(Plan)}
  BY <1>1, <1>2 DEF Before
<1>. QED
  BY <1>3, <1>4, <1>5

(* What the operations of a plan have to do with their neighbours.         *)
LEMMA OpInPlan ==
  ASSUME connector \in Axi!Connectors, selected \in BOOLEAN, NEW p \in 1..Len(Plan)
  PROVE  /\ Plan[p] \in Operations
         /\ Plan[p].kind = "setup" <=> p = 1
         /\ Plan[p].kind = "select" <=> p = Len(Plan)
         /\ Plan[p].what = Axi!Model <=> p = 2
         /\ p = 2 => Plan[p].kind = "read"
         /\ Plan[p].kind = "read" => Plan[p].what.reg # "none"
         /\ Plan[p].kind = "read" /\ Plan[p].what.reg = "rail" =>
              p > 3 /\ Plan[p - 1] = Axi!Op("write", Plan[p].what)
         /\ Plan[p].kind = "read" /\ Plan[p].what.reg = "connector" =>
              selected /\ p = Before + 2 /\ Plan[p].what = Axi!Connector(connector)
<1>1. NumUnpaged \in Nat \ {0} /\ NumRails \in Nat \ {0} /\ Before \in Nat /\ Before > 4
  BY Constants DEF Axi!AxiConstants, Before
<1>2. Plan[p] \in Operations
  <2>1. Plan \in Seq(Operations)
    BY PlanIs
  <2>. QED
    BY <2>1, ElementOfSeq
<1>3. Len(Plan) = Before + IF selected THEN 3 ELSE 2
  BY PlanIs
<1>4. CASE p = 1
  BY <1>1, <1>2, <1>3, <1>4, PlanIs DEF Axi!Op, Axi!Nothing, Axi!Model
<1>5. CASE p = 2
  <2>1. Plan[p].kind = "read" /\ Plan[p].what = Axi!Model
    BY <1>5, PlanIs DEF Axi!Op
  <2>2. Axi!Model.reg = "model"
    BY DEF Axi!Model
  <2>. QED
    BY <1>1, <1>2, <1>3, <1>5, <2>1, <2>2
<1>6. ASSUME NEW k \in 1..NumUnpaged, p = 2 + k
      PROVE  Plan[p].kind = "read" /\ Plan[p].what.reg = "unpaged" /\ p > 2 /\ p < Len(Plan)
             /\ Plan[p].what # Axi!Model
  <2>1. Plan[p] = Axi!Op("read", Axi!Unpaged(k))
    BY <1>6, PlanIs
  <2>. QED
    BY <1>1, <1>3, <1>6, <2>1 DEF Axi!Op, Axi!Unpaged, Before, Axi!Model
<1>7. ASSUME NEW j \in 0..(NumRails - 1), p = NumUnpaged + 2 * j + 3
      PROVE  Plan[p].kind = "write" /\ p > 2 /\ p < Len(Plan) /\ Plan[p].what # Axi!Model
  <2>1. Plan[p] = Axi!Op("write", Axi!Rail(j))
    BY <1>7, PlanIs
  <2>. QED
    BY <1>1, <1>3, <1>7, <2>1 DEF Axi!Op, Axi!Rail, Before, Axi!Model
<1>8. ASSUME NEW j \in 0..(NumRails - 1), p = NumUnpaged + 2 * j + 4
      PROVE  /\ Plan[p].kind = "read" /\ Plan[p].what.reg = "rail" /\ p > 3 /\ p < Len(Plan)
             /\ Plan[p - 1] = Axi!Op("write", Plan[p].what) /\ Plan[p].what # Axi!Model
  <2>1. /\ Plan[p] = Axi!Op("read", Axi!Rail(j))
        /\ Plan[NumUnpaged + 2 * j + 3] = Axi!Op("write", Axi!Rail(j))
    BY <1>8, PlanIs
  <2>2. p - 1 = NumUnpaged + 2 * j + 3
    BY <1>1, <1>8
  <2>. QED
    BY <1>1, <1>3, <1>8, <2>1, <2>2 DEF Axi!Op, Axi!Rail, Before, Axi!Model
<1>9. ASSUME p = Before + 1
      PROVE  Plan[p].kind = "write" /\ p > 2 /\ p < Len(Plan) /\ Plan[p].what # Axi!Model
  BY <1>1, <1>3, <1>9, PlanIs DEF Axi!Op, Axi!Rail, Axi!Model
<1>10. ASSUME selected, p = Before + 2
       PROVE  /\ Plan[p].kind = "read" /\ Plan[p].what = Axi!Connector(connector)
              /\ p > 2 /\ p < Len(Plan) /\ Plan[p].what.reg = "connector" /\ Plan[p].what # Axi!Model
  <2>1. Plan[p].kind = "read" /\ Plan[p].what = Axi!Connector(connector)
    BY <1>10, PlanIs DEF Axi!Op
  <2>2. Axi!Connector(connector).reg = "connector" /\ Axi!Model.reg = "model"
    BY DEF Axi!Model, Axi!Connector
  <2>. QED
    BY <1>1, <1>3, <1>10, <2>1, <2>2
<1>11. ASSUME p = Len(Plan)
       PROVE  Plan[p].kind = "select" /\ p > 2 /\ Plan[p].what # Axi!Model
  BY <1>1, <1>3, <1>11, PlanIs DEF Axi!Op, Axi!Nothing, Axi!Model
<1> HIDE DEF Operations
<1>. QED
  BY <1>2, <1>4, <1>5, <1>6, <1>7, <1>8, <1>9, <1>10, <1>11, PlaceInPlan

(* The operation under way.                                                *)
LEMMA HeadIs ==
  ASSUME AxiTypeOK, Planned, todo # <<>>
  PROVE  /\ open /\ Done \in Nat /\ Before \in Nat /\ Before > 4
         /\ Len(Plan) = Before + (IF selected THEN 3 ELSE 2)
         /\ Len(todo) = Len(Plan) - Done /\ Len(todo) \in Nat \ {0}
         /\ Done + 1 \in 1..Len(Plan)
         /\ Head(todo) = todo[1] /\ Head(todo) = Plan[Done + 1] /\ Head(todo) \in Operations
         /\ Head(todo).kind = "setup" <=> Done = 0
         /\ Head(todo).kind = "select" <=> Len(todo) = 1
         /\ Head(todo).what = Axi!Model <=> Done = 1
         /\ Done = 1 => Head(todo).kind = "read"
         /\ Head(todo).kind = "read" => Head(todo).what.reg # "none"
         /\ Head(todo).kind = "read" /\ Head(todo).what.reg = "connector" =>
              selected /\ Done = Before + 1 /\ Head(todo).what = Axi!Connector(connector)
         /\ Opening <=> Done < 2
<1>1. connector \in Axi!Connectors /\ selected \in BOOLEAN /\ todo \in Seq(Operations)
  BY DEF AxiTypeOK
<1>2. NumUnpaged \in Nat \ {0} /\ NumRails \in Nat \ {0}
  BY Constants DEF Axi!AxiConstants
<1>3. Before \in Nat /\ Before > 4
  BY <1>2 DEF Before
<1>4. Len(Plan) = Before + (IF selected THEN 3 ELSE 2)
  BY <1>1, PlanIs
<1>5. Len(todo) \in Nat \ {0} /\ Head(todo) = todo[1] /\ 1 \in DOMAIN todo
  <2> HIDE DEF Operations
  <2>. QED
    BY <1>1, EmptySeq, LenProperties
<1>6. open /\ Done >= 0 /\ todo[1] = Plan[Done + 1]
  BY <1>5 DEF Planned
<1>7. Done = Len(Plan) - Len(todo)
  BY DEF Done
<1>8. Done \in Nat /\ Len(todo) = Len(Plan) - Done /\ Done + 1 \in 1..Len(Plan)
  <2> HIDE DEF Done
  <2>. QED
    BY <1>1, <1>3, <1>4, <1>5, <1>6, <1>7
<1>9. Opening <=> Done < 2
  <2>1. Len(Axi!OpenOps) = 2
    BY OpenOpsAre
  <2>. QED
    BY <2>1 DEF Opening
<1> DEFINE p == Done + 1
<1>10. /\ Plan[p] \in Operations
       /\ Plan[p].kind = "setup" <=> p = 1
       /\ Plan[p].kind = "select" <=> p = Len(Plan)
       /\ Plan[p].what = Axi!Model <=> p = 2
       /\ p = 2 => Plan[p].kind = "read"
       /\ Plan[p].kind = "read" => Plan[p].what.reg # "none"
       /\ Plan[p].kind = "read" /\ Plan[p].what.reg = "connector" =>
            selected /\ p = Before + 2 /\ Plan[p].what = Axi!Connector(connector)
  <2>1. p \in 1..Len(Plan)
    BY <1>8
  <2> HIDE DEF p, Operations
  <2>. QED
    BY <1>1, <2>1, OpInPlan
<1>11. /\ p = 1 <=> Done = 0
       /\ p = 2 <=> Done = 1
       /\ p = Len(Plan) <=> Len(todo) = 1
       /\ p = Before + 2 <=> Done = Before + 1
  <2> HIDE DEF Done
  <2>. QED
    BY <1>3, <1>4, <1>8
<1>12. Head(todo) = Plan[p]
  BY <1>5, <1>6
<1> HIDE DEF p, Operations
<1>. QED
  BY <1>3, <1>4, <1>5, <1>6, <1>8, <1>9, <1>10, <1>11, <1>12

(* The queues, and what taking from one and adding to one does.            *)
LEMMA QueueIs ==
  ASSUME NEW S, NEW s \in Seq(S)
  PROVE  Len(s) \in Nat /\ DOMAIN s = 1..Len(s) /\ (s = <<>> <=> Len(s) = 0)
         /\ \A i \in 1..Len(s) : s[i] \in S
BY LenProperties, EmptySeq, ElementOfSeq

LEMMA TakenFrom ==
  ASSUME NEW S, NEW s \in Seq(S), s # <<>>
  PROVE  /\ Tail(s) \in Seq(S) /\ Len(Tail(s)) = Len(s) - 1 /\ Head(s) = s[1] /\ Head(s) \in S
         /\ Len(s) \in Nat \ {0} /\ 1 \in 1..Len(s)
         /\ \A i \in 1..(Len(s) - 1) : Tail(s)[i] = s[i + 1]
         /\ Tail(s) = <<>> <=> Len(s) = 1
<1>1. /\ Tail(s) \in Seq(S) /\ Len(Tail(s)) = Len(s) - 1 /\ Head(s) \in S
      /\ \A i \in 1..Len(Tail(s)) : Tail(s)[i] = s[i + 1]
  BY HeadTailProperties
<1>2. Len(s) \in Nat \ {0}
  BY EmptySeq
<1>3. Tail(s) = <<>> <=> Len(Tail(s)) = 0
  BY <1>1, QueueIs
<1>4. Head(s) = s[1]
  OBVIOUS
<1>. QED
  BY <1>1, <1>2, <1>3, <1>4

(* After an error nothing of the Sample is left.                           *)
LEMMA FailKeeps ==
  ASSUME AxiIInv, Axi!Fail, UNCHANGED <<inbox, rail, page, since, memory>>,
         outbox' = outbox \/ (outbox # <<>> /\ outbox' = Tail(outbox))
  PROVE  AxiIInv'
<1>1. /\ ~open' /\ todo' = <<>> /\ ~asked' /\ part' = "command" /\ polls' = 0 /\ ~selected'
      /\ open' \in BOOLEAN /\ asked' \in BOOLEAN /\ selected' \in BOOLEAN
      /\ connector' = connector /\ values' = {} /\ report' = {} /\ power' = power /\ age' = age
      /\ misled' = misled
  BY DEF Axi!Fail, Axi!Close
<1>2. outbox' \in Seq(Answers) /\ Len(inbox') + Len(outbox') <= Held
  <2>1. /\ inbox \in Seq(Messages) /\ outbox \in Seq(Answers) /\ Len(inbox) + Len(outbox) <= Held
        /\ Len(inbox) \in Nat /\ Len(outbox) \in Nat /\ Held \in Nat
    BY LenProperties, Constants DEF AxiIInv, AxiTypeOK, Axi!AxiConstants
  <2> HIDE DEF Answers, Messages
  <2>2. CASE outbox' = outbox
    BY <2>1, <2>2
  <2>3. CASE outbox # <<>> /\ outbox' = Tail(outbox)
    BY <2>1, <2>3, TakenFrom
  <2>. QED
    BY <2>2, <2>3
<1>3. AxiTypeOK'
  <2>1. <<>> \in Seq(Operations)
    BY EmptySeq
  <2>2. {} \subseteq Records /\ "command" \in Stages /\ 0 \in Nat
    BY DEF Stages
  <2> HIDE DEF Operations, Messages, Answers, Records, Stages
  <2>. QED
    BY <1>1, <1>2, <2>1, <2>2 DEF AxiIInv, AxiTypeOK
<1>4. Planned' /\ CatchingUp' /\ InStep' /\ Settling'
  BY <1>1 DEF Planned, CatchingUp, InStep, Settling, Opening
<1>5. OwnValues' /\ Turns'
  BY <1>1 DEF AxiIInv, OwnValues, Turns, Axi!ReadingsAreTheirOwn, Axi!Connectors
<1>. QED
  BY <1>3, <1>4, <1>5 DEF AxiIInv

(* A step that leaves the connector and its selection leaves the plan.     *)
LEMMA PlanStays ==
  ASSUME connector' = connector, selected' = selected
  PROVE  Plan' = Plan /\ Axi!ReadOps' = Axi!ReadOps
BY DEF Plan, Axi!ReadOps, Axi!ConnectorOps

(* What a Sample that opens the dongle finds in its queues, it has read    *)
(* before the model's name, or will not take for it.                       *)
LEMMA BeginKeeps ==
  ASSUME AxiIInv, Axi!Begin
  PROVE  AxiIInv'
<1>1. /\ todo = <<>> /\ open' /\ part' = "command" /\ polls' = 0 /\ ~asked'
      /\ values' = {} /\ report' = {}
      /\ connector' = connector /\ selected' = selected /\ power' = power /\ age' = age
      /\ rail' = rail /\ page' = page /\ since' = since /\ memory' = memory
      /\ open' = TRUE /\ asked' = FALSE
  BY DEF Axi!Begin, Axi!connectors
<1>19. /\ misled' \in BOOLEAN /\ (~misled' => ~misled)
       /\ ~misled' /\ ~open => ~Axi!Misleading(inbox', outbox')
  <2>1. misled' = (misled \/ (~open /\ Axi!Misleading(inbox', outbox'))) /\ misled \in BOOLEAN
    BY DEF Axi!Begin, AxiIInv, AxiTypeOK
  <2>. QED
    BY <2>1, Zenon
<1>2. connector \in Axi!Connectors /\ selected \in BOOLEAN /\ open \in BOOLEAN /\ (selected => open)
      /\ inbox \in Seq(Messages) /\ outbox \in Seq(Answers) /\ Len(inbox) + Len(outbox) <= Held
      /\ since \in 0..SettleAfter
  BY DEF AxiIInv, AxiTypeOK, Planned
<1>3. NumUnpaged \in Nat \ {0} /\ NumRails \in Nat \ {0} /\ Held \in Nat /\ SettleAfter \in Nat
  BY Constants DEF Axi!AxiConstants
<1>4. Before \in Nat /\ Before > 4
  BY <1>3 DEF Before
<1>5. Plan' = Plan
  BY <1>1, PlanStays
<1>6. /\ Axi!ReadOps \in Seq(Operations) /\ Plan \in Seq(Operations)
      /\ Len(Axi!ReadOps) = Len(Plan) - 2 /\ \A k \in 1..Len(Axi!ReadOps) : Axi!ReadOps[k] = Plan[2 + k]
      /\ Len(Plan) = Before + IF selected THEN 3 ELSE 2
  BY <1>2, PlanIs
<1>7. todo' = IF open THEN Axi!ReadOps ELSE Plan
  <2>1. todo' = (IF open THEN <<>> ELSE Axi!OpenOps) \o Axi!ReadOps
    BY DEF Axi!Begin
  <2>2. <<>> \o Axi!ReadOps = Axi!ReadOps
    BY <1>6, ConcatEmptySeq
  <2>. QED
    BY <1>2, <2>1, <2>2 DEF Plan
<1>8. /\ todo' \in Seq(Operations) /\ todo' # <<>> /\ Done' = (IF open THEN 2 ELSE 0)
      /\ Len(todo') > 4 /\ \A k \in DOMAIN todo' : todo'[k] = Plan[Done' + k]
  <2>1. Done' = Len(Plan) - Len(todo')
    BY <1>5 DEF Done
  <2> HIDE DEF Done, Operations
  <2>2. todo' \in Seq(Operations) /\ Len(todo') = (IF open THEN Len(Plan) - 2 ELSE Len(Plan))
    BY <1>2, <1>6, <1>7
  <2>3. Len(Plan) \in Nat /\ Len(todo') > 4 /\ Done' = (IF open THEN 2 ELSE 0)
    BY <1>2, <1>4, <1>6, <2>1, <2>2
  <2>4. todo' # <<>>
    BY <2>2, <2>3, QueueIs
  <2>5. DOMAIN todo' = 1..Len(todo')
    BY <2>2, QueueIs
  <2>6. \A k \in DOMAIN todo' : todo'[k] = Plan[Done' + k]
    <3>1. CASE open
      BY <1>6, <1>7, <2>3, <2>5, <3>1
    <3>2. CASE ~open
      <4>1. \A k \in DOMAIN todo' : 0 + k = k
        BY <2>5
      <4>. QED
        BY <1>7, <2>3, <3>2, <4>1
    <3>. QED
      BY <3>1, <3>2
  <2>. QED
    BY <2>2, <2>3, <2>4, <2>6
<1>9. /\ inbox' \in Seq(Messages) /\ outbox' \in Seq(Answers) /\ Len(inbox') + Len(outbox') <= Held
      /\ open => inbox' = inbox /\ outbox' = outbox
  <2>1. Len(<<>>) = 0 /\ <<>> \in Seq(Messages) /\ <<>> \in Seq(Answers)
    BY EmptySeq
  <2>2. (UNCHANGED <<inbox, outbox>>) \/ (~open /\ inbox' = <<>> /\ outbox' = <<>>)
    BY DEF Axi!Begin
  <2> HIDE DEF Messages, Answers
  <2>3. CASE UNCHANGED <<inbox, outbox>>
    BY <1>2, <2>3
  <2>4. CASE ~open /\ inbox' = <<>> /\ outbox' = <<>>
    <3>1. inbox' \in Seq(Messages) /\ outbox' \in Seq(Answers)
      BY <2>1, <2>4
    <3>2. Len(inbox') + Len(outbox') <= Held
      BY <1>3, <2>1, <2>4
    <3>. QED
      BY <2>4, <3>1, <3>2
  <2>. QED
    BY <2>2, <2>3, <2>4
<1>10. AxiTypeOK'
  <2>1. {} \subseteq Records /\ "command" \in Stages /\ 0 \in Nat
    BY DEF Stages
  <2> HIDE DEF Operations, Messages, Answers, Records, Stages
  <2>. QED
    BY <1>1, <1>8, <1>9, <1>19, <2>1 DEF AxiIInv, AxiTypeOK
<1>11. Opening' <=> ~open
  <2>1. Len(Axi!OpenOps) = 2
    BY OpenOpsAre
  <2> HIDE DEF Done
  <2>. QED
    BY <1>2, <1>8, <2>1 DEF Opening, Axi!OpenOps
<1>12. Planned'
  <2> HIDE DEF Done
  <2>. QED
    BY <1>1, <1>2, <1>5, <1>8, <1>11 DEF Planned
<1>13. CatchingUp'
  <2>1. SUFFICES ASSUME ~open, ~misled' PROVE CatchingUp'
    BY <1>11 DEF CatchingUp
  <2>2. Caught' = 0
    BY <1>8, <2>1 DEF Caught
  <2>3. /\ DOMAIN inbox' = 1..Len(inbox') /\ DOMAIN outbox' = 1..Len(outbox')
        /\ Len(inbox') \in Nat /\ Len(outbox') \in Nat
    BY <1>9, QueueIs
  <2> HIDE DEF Messages, Answers
  <2>4. ASSUME NEW i \in DOMAIN outbox', i > 3 PROVE outbox'[i].len < 7
    <3>1. ~(outbox'[i].len >= 7)
      BY <1>19, <2>1, <2>4 DEF Axi!Misleading
    <3>2. outbox'[i].len \in Int
      <4>1. outbox'[i] \in Answers
        BY <1>9, <2>3, QueueIs
      <4>. QED
        BY <4>1 DEF Answers
    <3>. QED
      BY <3>1, <3>2
  <2>5. ASSUME NEW i \in DOMAIN inbox', Len(outbox') + i > 3 PROVE ~NamesModel(inbox'[i])
    BY <1>19, <2>1, <2>5 DEF Axi!Misleading, NamesModel
  <2>6. /\ \A i \in DOMAIN outbox' : i + Caught' > 3 => i > 3
        /\ \A i \in DOMAIN inbox' : Len(outbox') + i + Caught' > 3 => Len(outbox') + i > 3
    BY <2>2, <2>3
  <2>. QED
    BY <2>4, <2>5, <2>6 DEF CatchingUp, NamesModel, Axi!Model
<1>14. ASSUME open, ~misled' PROVE inbox' = <<>> /\ outbox' = <<>> /\ (selected => page = connector)
  <2>1. ~Opening /\ ~asked
    BY <1>1 DEF Opening, AxiIInv, Planned
  <2>2. Len(todo) # 1
    BY <1>1
  <2>. QED
    BY <1>9, <1>14, <1>19, <2>1, <2>2 DEF AxiIInv, InStep, Selected
<1>15. ASSUME open
       PROVE  ~(Head(todo').kind = "read" /\ Head(todo').what.reg = "rail")
  <2>1. Head(todo') = Plan[3] /\ 3 \in 1..Len(Plan)
    <3>1. Head(todo') = todo'[1] /\ 1 \in DOMAIN todo'
      <4> HIDE DEF Operations
      <4>. QED
        BY <1>8, TakenFrom, QueueIs
    <3>2. Len(Plan) >= 3 /\ Len(Plan) \in Nat
      BY <1>2, <1>4, <1>6
    <3>. QED
      BY <1>8, <1>15, <3>1, <3>2
  <2>. QED
    BY <1>2, <2>1, OpInPlan
<1>16. InStep'
  <2>1. SUFFICES ASSUME open, ~misled' PROVE InStep'
    BY <1>11 DEF InStep
  <2>. QED
    BY <1>1, <1>14, <1>15, <2>1 DEF InStep, Selected, Commanded
<1>17. OwnValues' /\ Turns'
  BY <1>1, <1>19 DEF AxiIInv, OwnValues, Turns, Axi!ReadingsAreTheirOwn, Axi!Connectors
<1>18. Settling'
  <2>1. SUFFICES ASSUME selected, ~misled' PROVE Settling'
    BY <1>1 DEF Settling, Selected
  <2>2. open /\ Done' = 2 /\ Now' = 0
    BY <1>1, <1>2, <1>8, <1>14, <2>1 DEF Now
  <2>3. since' \in Nat
    BY <1>1, <1>2, <1>3
  <2>4. Waited(0)'
    BY <2>2, <2>3 DEF Waited
  <2>5. \A n \in 0..NumUnpaged : Done' = 2 + n => n = 0 /\ 3 * n = 0
    BY <1>3, <2>2
  <2>6. /\ \A n \in 0..NumRails : Done' # 2 + NumUnpaged + 2 * n
        /\ \A n \in 0..(NumRails - 1) : Done' # 3 + NumUnpaged + 2 * n
        /\ Done' # NumUnpaged + 2 * NumRails + 3
    BY <1>3, <2>2
  <2> HIDE DEF Done
  <2>. QED
    BY <2>4, <2>5, <2>6 DEF Settling
<1>. QED
  BY <1>10, <1>12, <1>13, <1>16, <1>17, <1>18 DEF AxiIInv

(* A step that leaves the operations leaves what the plan says of them.    *)
LEMMA SameOperation ==
  ASSUME todo' = todo, connector' = connector, selected' = selected
  PROVE  Plan' = Plan /\ Done' = Done /\ Opening' = Opening /\ Selected' = Selected
BY PlanStays DEF Done, Opening, Selected, Axi!OpenOps

LEMMA MessageIs ==
  ASSUME AxiTypeOK, todo # <<>>
  PROVE  Axi!Message \in Messages /\ Axi!Message.part = part /\ Axi!Message.kind = Head(todo).kind
         /\ Axi!Message.what = IF Head(todo).kind = "select" THEN Axi!Connector(connector)
                               ELSE Head(todo).what
<1>1. Head(todo) \in Operations
  <2> HIDE DEF Operations
  <2>. QED
    BY TakenFrom DEF AxiTypeOK
<1>2. connector \in Int /\ part \in Stages
  BY DEF AxiTypeOK, Axi!Connectors
<1>3. Axi!Connector(connector) \in Labels
  BY <1>2, OpsAreTyped
<1>. QED
  BY <1>1, <1>2, <1>3 DEF Axi!Message, Messages, Operations

(* A message is sent when nothing is under way.                            *)
LEMMA SendKeeps ==
  ASSUME AxiIInv, Axi!Send
  PROVE  AxiIInv'
<1>1. /\ todo # <<>> /\ ~asked /\ asked' = TRUE /\ open' = open /\ todo' = todo /\ part' = part
      /\ polls' = polls /\ connector' = connector /\ selected' = selected /\ power' = power
      /\ age' = age /\ values' = values /\ report' = report /\ outbox' = outbox /\ rail' = rail
      /\ page' = page /\ since' = since /\ memory' = memory /\ misled' = misled
  BY DEF Axi!Send, Axi!connectors
<1>2. /\ inbox \in Seq(Messages) /\ Len(inbox) \in Nat /\ DOMAIN inbox = 1..Len(inbox)
      /\ outbox \in Seq(Answers) /\ Len(outbox) \in Nat /\ DOMAIN outbox = 1..Len(outbox)
      /\ Held \in Nat /\ Len(inbox) + Len(outbox) <= Held
  <2>1. inbox \in Seq(Messages) /\ outbox \in Seq(Answers) /\ Len(inbox) + Len(outbox) <= Held
    BY DEF AxiIInv, AxiTypeOK
  <2>2. Held \in Nat
    BY Constants DEF Axi!AxiConstants
  <2> HIDE DEF Messages, Answers
  <2>. QED
    BY <2>1, <2>2, QueueIs
<1>3. Axi!Message \in Messages /\ Axi!Message.part = part
  BY <1>1, MessageIs DEF AxiIInv
<1>4. \/ inbox' = inbox
      \/ /\ inbox' = Append(inbox, Axi!Message) /\ Len(inbox') = Len(inbox) + 1
         /\ Len(inbox') + Len(outbox) <= Held /\ inbox' \in Seq(Messages)
         /\ DOMAIN inbox' = 1..(Len(inbox) + 1)
         /\ \A i \in 1..Len(inbox) : inbox'[i] = inbox[i]
         /\ inbox'[Len(inbox) + 1] = Axi!Message
  <2>1. \/ inbox' = inbox
        \/ Len(inbox) + Len(outbox) < Held /\ inbox' = Append(inbox, Axi!Message)
    BY DEF Axi!Send
  <2>2. ASSUME Len(inbox) + Len(outbox) < Held, inbox' = Append(inbox, Axi!Message)
        PROVE  /\ inbox' = Append(inbox, Axi!Message) /\ Len(inbox') = Len(inbox) + 1
               /\ Len(inbox') + Len(outbox) <= Held /\ inbox' \in Seq(Messages)
               /\ DOMAIN inbox' = 1..(Len(inbox) + 1)
               /\ \A i \in 1..Len(inbox) : inbox'[i] = inbox[i]
               /\ inbox'[Len(inbox) + 1] = Axi!Message
    <3> HIDE DEF Messages, Answers
    <3>1. /\ inbox' \in Seq(Messages) /\ Len(inbox') = Len(inbox) + 1
          /\ \A i \in 1..Len(inbox) : inbox'[i] = inbox[i]
          /\ inbox'[Len(inbox) + 1] = Axi!Message
      BY <1>2, <1>3, <2>2, AppendProperties
    <3>2. DOMAIN inbox' = 1..Len(inbox')
      BY <3>1, QueueIs
    <3>. QED
      BY <1>2, <2>2, <3>1, <3>2
  <2>. QED
    BY <2>1, <2>2
<1>5. AxiTypeOK'
  <2>1. inbox' \in Seq(Messages) /\ Len(inbox') + Len(outbox') <= Held
    <3> HIDE DEF Messages
    <3>. QED
      BY <1>1, <1>2, <1>4
  <2> HIDE DEF Operations, Messages, Answers, Records, Stages
  <2>. QED
    BY <1>1, <2>1 DEF AxiIInv, AxiTypeOK
<1>6. Plan' = Plan /\ Done' = Done /\ Opening' = Opening /\ Selected' = Selected
  BY <1>1, SameOperation
<1>7. Planned'
  BY <1>1, <1>6 DEF AxiIInv, Planned
<1>8. CatchingUp'
  <2>1. SUFFICES ASSUME Opening, ~misled PROVE CatchingUp'
    BY <1>1, <1>6 DEF CatchingUp
  <2>2. Caught' = Caught /\ Caught \in Nat
    BY <1>1, <1>6 DEF Caught, AxiIInv, AxiTypeOK, Stages
  <2>3. /\ \A i \in DOMAIN outbox : i + Caught > 3 => outbox[i].len < 7
        /\ \A i \in DOMAIN inbox : Len(outbox) + i + Caught > 3 => ~NamesModel(inbox[i])
    BY <1>1, <2>1 DEF AxiIInv, CatchingUp
  <2>4. part = "memory" => Caught = 3
    <3>1. Done = 0 => part = "command"
      <4>1. Done = 0 => Head(todo).kind = "setup"
        BY <1>1, HeadIs DEF AxiIInv
      <4>. QED
        BY <1>1, <4>1 DEF AxiIInv, Planned
    <3>. QED
      BY <3>1 DEF Caught
  <2>5. \A i \in DOMAIN outbox' : i + Caught' > 3 => outbox'[i].len < 7
    BY <1>1, <2>2, <2>3
  <2>6. CASE inbox' = inbox
    <3>1. \A i \in DOMAIN inbox' : Len(outbox') + i + Caught' > 3 => ~NamesModel(inbox'[i])
      BY <1>1, <2>2, <2>3, <2>6
    <3>. QED
      BY <2>5, <3>1 DEF CatchingUp, NamesModel, Axi!Model
  <2>7. CASE inbox' # inbox
    <3>1. \A i \in DOMAIN inbox' : Len(outbox') + i + Caught' > 3 =>
             ~NamesModel(inbox'[i]) \/ (Caught' = 3 /\ asked' /\ i = Len(inbox'))
      <4>1. NamesModel(Axi!Message) => Caught = 3
        BY <1>3, <2>4 DEF NamesModel
      <4> DEFINE N(m) == NamesModel(m)
      <4>2. /\ \A i \in DOMAIN inbox : Len(outbox) + i + Caught > 3 => ~N(inbox[i])
            /\ N(Axi!Message) => Caught = 3
        BY <2>3, <4>1
      <4> HIDE DEF N
      <4>3. \A i \in DOMAIN inbox' : Len(outbox') + i + Caught' > 3 =>
               ~N(inbox'[i]) \/ (Caught' = 3 /\ asked' /\ i = Len(inbox'))
        BY <1>1, <1>2, <1>4, <2>2, <2>7, <4>2
      <4>. QED
        BY <4>3 DEF N
    <3>. QED
      BY <2>5, <3>1 DEF CatchingUp, NamesModel, Axi!Model
  <2>. QED
    BY <2>6, <2>7
<1>9. InStep'
  <2>1. SUFFICES ASSUME open, ~Opening, ~misled PROVE InStep'
    BY <1>1, <1>6 DEF InStep
  <2>2. inbox = <<>> /\ outbox = <<>>
    BY <1>1, <2>1 DEF AxiIInv, InStep
  <2>3. inbox' = <<>> \/ inbox' = <<Axi!Message>>
    BY <1>4, <2>2
  <2>4. Axi!Message' = Axi!Message
    BY <1>1 DEF Axi!Message
  <2>5. Commanded' = Commanded
    BY <1>1 DEF Commanded
  <2>. QED
    BY <1>1, <1>6, <2>1, <2>2, <2>3, <2>4, <2>5 DEF AxiIInv, InStep
<1>10. OwnValues' /\ Turns'
  BY <1>1 DEF AxiIInv, OwnValues, Turns, Axi!ReadingsAreTheirOwn, Axi!Connectors
<1>11. Settling'
  <2>1. Now' = Now /\ Commanded' = Commanded
    BY <1>1 DEF Now, Commanded
  <2> HIDE DEF Done
  <2>. QED
    BY <1>1, <1>6, <2>1 DEF AxiIInv, Settling, Waited
<1>. QED
  BY <1>5, <1>7, <1>8, <1>9, <1>10, <1>11 DEF AxiIInv

(* What the dongle measures, and what it says.                             *)
LEMMA MeasuredIs ==
  ASSUME NEW what \in Labels, rail \in Int, page \in Int
  PROVE  /\ Axi!Measured(what) \in Labels /\ Axi!Measured(what).reg = what.reg
         /\ what.reg = "rail" => Axi!Measured(what).page = rail
         /\ what.reg = "connector" => /\ Axi!Measured(what).page = page
                                      /\ Axi!Measured(what).settled = (since >= SettleAfter)
         /\ what.reg \notin {"rail", "connector"} => Axi!Measured(what) = what
<1>1. CASE what.reg = "rail"
  BY <1>1, OpsAreTyped DEF Axi!Measured, Axi!Rail
<1>2. CASE what.reg = "connector"
  <2> DEFINE waited == since >= SettleAfter
             measured == [reg |-> "connector", page |-> page, settled |-> waited]
  <2>1. Axi!Measured(what) = [Axi!Connector(page) EXCEPT !.settled = waited]
    BY <1>2 DEF Axi!Measured
  <2>2. waited \in BOOLEAN
    OBVIOUS
  <2> HIDE DEF waited
  <2>3. [Axi!Connector(page) EXCEPT !.settled = waited] = measured
    BY DEF Axi!Connector
  <2>4. measured \in Labels
    BY <2>2 DEF Labels
  <2>5. Axi!Measured(what) = measured
    BY <2>1, <2>3
  <2>6. measured.reg = "connector" /\ measured.page = page /\ measured.settled = waited
    OBVIOUS
  <2> HIDE DEF measured
  <2>7. /\ Axi!Measured(what) \in Labels /\ Axi!Measured(what).reg = "connector"
        /\ Axi!Measured(what).page = page /\ Axi!Measured(what).settled = waited
    BY <2>4, <2>5, <2>6
  <2>. QED
    BY <1>2, <2>7 DEF waited
<1>3. CASE what.reg \notin {"rail", "connector"}
  BY <1>3 DEF Axi!Measured
<1>. QED
  BY <1>1, <1>2, <1>3

LEMMA RepliesAre ==
  ASSUME NEW m \in Messages, memory \in Labels, NEW r \in Axi!Replies(m)
  PROVE  /\ r \in Answers
         /\ ~NamesModel(m) => r.len < 7
         /\ m.part = "memory" => r.value = memory
<1>1. Axi!Nothing \in Labels
  BY OpsAreTyped
<1>2. CASE m.part = "command"
  BY <1>1, <1>2 DEF Axi!Replies, Axi!Reply, Answers, NamesModel
<1>3. CASE m.part = "status"
  BY <1>1, <1>3 DEF Axi!Replies, Axi!Reply, Answers, NamesModel
<1>4. CASE m.part = "memory" /\ m.what = Axi!Model
  BY <1>4 DEF Axi!Replies, Axi!Reply, Answers, NamesModel
<1>5. CASE m.part = "memory" /\ m.what # Axi!Model
  BY <1>5 DEF Axi!Replies, Axi!Reply, Answers, NamesModel
<1>. QED
  BY <1>2, <1>3, <1>4, <1>5 DEF Messages, Stages

(* A message handled: once the device is open, that of the operation.      *)
LEMMA HandleKeeps ==
  ASSUME AxiIInv, Axi!Handle
  PROVE  AxiIInv'
<1> DEFINE m == Head(inbox)
           command == m.part = "command"
           chosen == command /\ m.kind = "select"
<1>1. /\ inbox # <<>> /\ asked' = asked /\ open' = open /\ todo' = todo /\ part' = part
      /\ polls' = polls /\ connector' = connector /\ selected' = selected /\ power' = power
      /\ age' = age /\ values' = values /\ report' = report /\ inbox' = Tail(inbox)
      /\ misled' = misled
  BY DEF Axi!Handle, Axi!connectors, Axi!sampling
<1>2. /\ rail' = IF command /\ m.kind = "write" THEN m.what.page ELSE rail
      /\ page' = IF chosen THEN m.what.page ELSE page
      /\ since' = IF chosen THEN 0 ELSE IF since < SettleAfter THEN since + 1 ELSE since
      /\ memory' = IF command /\ m.kind = "read" THEN Axi!Measured(m.what) ELSE memory
  BY DEF Axi!Handle
<1>3. PICK r \in Axi!Replies(m) : outbox' = Append(outbox, r)
  BY DEF Axi!Handle
<1>4. /\ inbox \in Seq(Messages) /\ Len(inbox) \in Nat /\ DOMAIN inbox = 1..Len(inbox)
      /\ outbox \in Seq(Answers) /\ Len(outbox) \in Nat /\ DOMAIN outbox = 1..Len(outbox)
      /\ Held \in Nat /\ Len(inbox) + Len(outbox) <= Held /\ SettleAfter \in Nat
      /\ since \in 0..SettleAfter
  <2>1. inbox \in Seq(Messages) /\ outbox \in Seq(Answers) /\ Len(inbox) + Len(outbox) <= Held
        /\ since \in 0..SettleAfter
    BY DEF AxiIInv, AxiTypeOK
  <2>2. Held \in Nat /\ SettleAfter \in Nat
    BY Constants DEF Axi!AxiConstants
  <2> HIDE DEF Messages, Answers
  <2>. QED
    BY <2>1, <2>2, QueueIs
<1>5. memory \in Labels /\ rail \in Int /\ page \in Int
  BY DEF AxiIInv, AxiTypeOK
<1>6. /\ m \in Messages /\ m = inbox[1] /\ Len(inbox) >= 1
      /\ inbox' \in Seq(Messages) /\ Len(inbox') = Len(inbox) - 1
      /\ \A i \in 1..(Len(inbox) - 1) : inbox'[i] = inbox[i + 1]
      /\ inbox' = <<>> <=> Len(inbox) = 1
  <2> HIDE DEF Messages
  <2>. QED
    BY <1>1, <1>4, TakenFrom
<1>7. /\ r \in Answers /\ (~NamesModel(m) => r.len < 7) /\ (m.part = "memory" => r.value = memory)
  <2> HIDE DEF Messages, Answers, m
  <2>. QED
    BY <1>5, <1>6, RepliesAre
<1>8. /\ outbox' \in Seq(Answers) /\ outbox' # <<>> /\ Len(outbox') = Len(outbox) + 1
      /\ \A i \in 1..Len(outbox) : outbox'[i] = outbox[i]
      /\ outbox'[Len(outbox) + 1] = r
  <2> HIDE DEF Answers
  <2>. QED
    BY <1>3, <1>4, <1>7, AppendProperties
<1>9. DOMAIN inbox' = 1..Len(inbox') /\ DOMAIN outbox' = 1..Len(outbox')
  <2> HIDE DEF Messages, Answers
  <2>. QED
    BY <1>6, <1>8, QueueIs
<1>10. m.what \in Labels /\ m.what.page \in Int
  BY <1>6 DEF Messages, Labels
<1>11. AxiTypeOK'
  <2>1. memory' \in Labels /\ rail' \in Int /\ page' \in Int
    <3>1. Axi!Measured(m.what) \in Labels
      <4> HIDE DEF m
      <4>. QED
        BY <1>5, <1>10, MeasuredIs
    <3> HIDE DEF m, Labels
    <3>. QED
      BY <1>2, <1>5, <1>10, <3>1
  <2>2. since' \in 0..SettleAfter
    <3> HIDE DEF m
    <3>. QED
      BY <1>2, <1>4
  <2>3. Len(inbox') + Len(outbox') <= Held
    BY <1>4, <1>6, <1>8
  <2> HIDE DEF Operations, Messages, Answers, Records, Stages, Labels
  <2>. QED
    BY <1>1, <1>6, <1>8, <2>1, <2>2, <2>3 DEF AxiIInv, AxiTypeOK
<1>12. Plan' = Plan /\ Done' = Done /\ Opening' = Opening /\ Selected' = Selected
  BY <1>1, SameOperation
<1>13. Planned'
  BY <1>1, <1>12 DEF AxiIInv, Planned
<1>14. CatchingUp'
  <2>1. SUFFICES ASSUME Opening, ~misled PROVE CatchingUp'
    BY <1>1, <1>12 DEF CatchingUp
  <2>2. Caught' = Caught /\ Caught \in Nat
    BY <1>1, <1>12 DEF Caught, AxiIInv, AxiTypeOK, Stages
  <2>3. /\ \A i \in DOMAIN outbox : i + Caught > 3 => outbox[i].len < 7
        /\ \A i \in DOMAIN inbox : Len(outbox) + i + Caught > 3 =>
             ~NamesModel(inbox[i]) \/ (Caught = 3 /\ asked /\ i = Len(inbox))
    BY <1>1, <2>1 DEF AxiIInv, CatchingUp
  <2> HIDE DEF m, Messages, Answers
  <2>4. ASSUME NEW i \in DOMAIN outbox', i + Caught' > 3
        PROVE  outbox'[i].len < 7 \/ (Caught' = 3 /\ asked' /\ inbox' = <<>> /\ i = Len(outbox'))
    <3>1. CASE i \in 1..Len(outbox)
      BY <1>4, <1>8, <2>2, <2>3, <2>4, <3>1
    <3>2. CASE i = Len(outbox) + 1
      <4>1. Len(outbox) + 1 + Caught > 3 /\ 1 \in DOMAIN inbox
        BY <1>4, <1>6, <2>2, <2>4, <3>2
      <4>2. ~NamesModel(m) \/ (Caught = 3 /\ asked /\ 1 = Len(inbox))
        BY <1>6, <2>3, <4>1
      <4>. QED
        BY <1>1, <1>6, <1>7, <1>8, <2>2, <3>2, <4>2
    <3>. QED
      BY <1>4, <1>8, <1>9, <3>1, <3>2
  <2>5. ASSUME NEW i \in DOMAIN inbox', Len(outbox') + i + Caught' > 3
        PROVE  ~NamesModel(inbox'[i]) \/ (Caught' = 3 /\ asked' /\ i = Len(inbox'))
    <3>1. i + 1 \in DOMAIN inbox /\ Len(outbox) + (i + 1) + Caught > 3 /\ inbox'[i] = inbox[i + 1]
      BY <1>4, <1>6, <1>8, <1>9, <2>2, <2>5
    <3>2. i + 1 = Len(inbox) => i = Len(inbox')
      BY <1>4, <1>6, <1>9
    <3>. QED
      BY <1>1, <2>2, <2>3, <3>1, <3>2
  <2>. QED
    BY <2>4, <2>5 DEF CatchingUp, NamesModel, Axi!Model
<1>15. ASSUME open, ~Opening, ~misled
       PROVE  /\ asked /\ outbox = <<>> /\ Len(inbox) = 1 /\ m = Axi!Message /\ todo # <<>> /\ Done >= 2
              /\ m.part = part /\ m.kind = Head(todo).kind /\ m.kind # "setup"
              /\ m.what = IF m.kind = "select" THEN Axi!Connector(connector) ELSE Head(todo).what
  <2>1. inbox = <<Axi!Message>> /\ asked /\ outbox = <<>>
    BY <1>1, <1>15 DEF AxiIInv, InStep
  <2>2. todo # <<>>
    BY <2>1 DEF AxiIInv, Planned
  <2>3. Done >= 2 /\ Head(todo).kind # "setup"
    BY <1>15, <2>2, HeadIs DEF AxiIInv
  <2>4. /\ Axi!Message.part = part /\ Axi!Message.kind = Head(todo).kind
        /\ Axi!Message.what = IF Head(todo).kind = "select" THEN Axi!Connector(connector)
                              ELSE Head(todo).what
    BY <2>2, MessageIs DEF AxiIInv
  <2>. QED
    BY <1>6, <2>1, <2>2, <2>3, <2>4
<1>16. ASSUME open, ~Opening, ~misled
       PROVE  /\ m.kind = "select" <=> Len(todo) = 1
              /\ m.kind = "read" /\ m.what.reg = "connector" =>
                    selected /\ Len(todo) = 2 /\ m.what = Axi!Connector(connector)
  <2>1. /\ Head(todo).kind = "select" <=> Len(todo) = 1
        /\ Head(todo).kind = "read" /\ Head(todo).what.reg = "connector" =>
              selected /\ Done = Before + 1 /\ Head(todo).what = Axi!Connector(connector)
        /\ Len(Plan) = Before + (IF selected THEN 3 ELSE 2) /\ Len(todo) = Len(Plan) - Done
        /\ Before \in Nat
    BY <1>15, <1>16, HeadIs DEF AxiIInv
  <2> HIDE DEF m, Done
  <2>2. selected /\ Done = Before + 1 => Len(todo) = 2
    BY <2>1
  <2>. QED
    BY <1>15, <1>16, <2>1, <2>2
<1>17. InStep'
  <2>1. SUFFICES ASSUME open, ~Opening, ~misled PROVE InStep'
    BY <1>1, <1>12 DEF InStep
  <2>2. /\ asked' /\ inbox' = <<>> /\ Len(outbox') = 1 /\ outbox'[1] = r /\ todo' # <<>>
    <3>1. Len(outbox) = 0
      BY <1>15, <2>1
    <3>. QED
      BY <1>1, <1>6, <1>8, <1>15, <2>1, <3>1
  <2>3. part = "memory" => outbox'[1].value = memory'
    <3> HIDE DEF m
    <3>. QED
      BY <1>2, <1>7, <1>15, <2>1, <2>2
  <2>4. Head(todo).kind = "read" /\ Head(todo).what.reg = "rail" => rail' = Head(todo).what.page
    <3> HIDE DEF m
    <3>. QED
      BY <1>2, <1>15, <2>1 DEF AxiIInv, InStep
  <2>5. Selected => page' = connector
    <3>1. Selected => ~chosen /\ page = connector
      BY <1>15, <1>16, <2>1 DEF Selected, AxiIInv, InStep
    <3>. QED
      BY <1>2, <3>1
  <2> DEFINE what == Head(todo).what
             After(mem, rl, pg) ==
               CASE Head(todo).kind = "read" -> mem.reg = what.reg /\ mem.page = what.page
                 [] Head(todo).kind = "write" -> rl = what.page
                 [] Head(todo).kind = "select" -> pg = connector
                 [] OTHER -> TRUE
  <2>6. After(memory', rail', page')
    <3>1. CASE ~command
      <4>1. Commanded
        BY <1>15, <2>1, <3>1 DEF Commanded
      <4>2. After(memory, rail, page)
        BY <2>1, <4>1 DEF AxiIInv, InStep
      <4>3. memory' = memory /\ rail' = rail /\ page' = page
        BY <1>2, <3>1
      <4>. QED
        BY <4>2, <4>3
    <3>2. CASE command /\ m.kind = "read"
      <4>1. memory' = Axi!Measured(m.what) /\ m.what = what /\ Head(todo).kind = "read"
        <5> HIDE DEF m
        <5>. QED
          BY <1>2, <1>15, <2>1, <3>2
      <4>2. /\ Axi!Measured(m.what).reg = m.what.reg
            /\ m.what.reg = "rail" => Axi!Measured(m.what).page = rail
            /\ m.what.reg = "connector" => Axi!Measured(m.what).page = page
            /\ m.what.reg \notin {"rail", "connector"} => Axi!Measured(m.what) = m.what
        <5> HIDE DEF m
        <5>. QED
          BY <1>5, <1>10, MeasuredIs
      <4>3. CASE what.reg = "rail"
        <5>1. rail = what.page
          BY <1>15, <2>1, <4>1, <4>3 DEF AxiIInv, InStep
        <5> HIDE DEF m, what
        <5>2. memory'.reg = what.reg /\ memory'.page = what.page
          BY <4>1, <4>2, <4>3, <5>1
        <5>. QED
          BY <4>1, <5>2
      <4>4. CASE what.reg = "connector"
        <5>1. selected /\ Len(todo) = 2 /\ what = Axi!Connector(connector)
          BY <1>16, <2>1, <3>2, <4>1, <4>4
        <5>2. page = connector
          BY <2>1, <5>1 DEF AxiIInv, InStep, Selected
        <5>3. what.page = connector
          BY <5>1 DEF Axi!Connector
        <5> HIDE DEF m, what
        <5>4. memory'.reg = what.reg /\ memory'.page = what.page
          BY <4>1, <4>2, <4>4, <5>2, <5>3
        <5>. QED
          BY <4>1, <5>4
      <4>5. CASE what.reg \notin {"rail", "connector"}
        <5> HIDE DEF m, what
        <5>1. memory'.reg = what.reg /\ memory'.page = what.page
          BY <4>1, <4>2, <4>5
        <5>. QED
          BY <4>1, <5>1
      <4>. QED
        BY <4>3, <4>4, <4>5
    <3>3. CASE command /\ m.kind = "write"
      <4>1. rail' = what.page /\ Head(todo).kind = "write"
        <5> HIDE DEF m
        <5>. QED
          BY <1>2, <1>15, <2>1, <3>3
      <4> HIDE DEF what
      <4>. QED
        BY <4>1
    <3>4. CASE command /\ m.kind = "select"
      <4>1. page' = Axi!Connector(connector).page /\ Head(todo).kind = "select"
        <5> HIDE DEF m
        <5>. QED
          BY <1>2, <1>15, <2>1, <3>4
      <4>2. Axi!Connector(connector).page = connector
        BY DEF Axi!Connector
      <4> HIDE DEF what
      <4>. QED
        BY <4>1, <4>2
    <3>5. m.kind \in {"read", "write", "select"}
      BY <1>6, <1>15, <2>1 DEF Messages, Kinds
    <3>. QED
      BY <3>1, <3>2, <3>3, <3>4, <3>5
  <2>7. (CASE Head(todo').kind = "read" -> /\ memory'.reg = Head(todo').what.reg
                                          /\ memory'.page = Head(todo').what.page
           [] Head(todo').kind = "write" -> rail' = Head(todo').what.page
           [] Head(todo').kind = "select" -> page' = connector'
           [] OTHER -> TRUE)
    BY <1>1, <2>6
  <2>. QED
    BY <1>1, <1>12, <2>2, <2>3, <2>4, <2>5, <2>7 DEF InStep
<1>18. OwnValues' /\ Turns'
  BY <1>1 DEF AxiIInv, OwnValues, Turns, Axi!ReadingsAreTheirOwn, Axi!Connectors
<1>19. Settling'
  <2>1. SUFFICES ASSUME todo # <<>>, Selected, ~misled PROVE Settling'
    BY <1>1, <1>12 DEF Settling
  <2>2. selected /\ open /\ ~Opening /\ ~misled
    BY <2>1 DEF AxiIInv, Planned, Selected
  <2>3. outbox = <<>> /\ outbox' # <<>> /\ ~chosen
    <3>1. m.kind = "select" <=> Len(todo) = 1
      BY <1>16, <2>2
    <3>2. outbox = <<>> /\ outbox' # <<>>
      BY <1>8, <1>15, <2>2
    <3>3. Len(todo) # 1
      BY <2>1 DEF Selected
    <3>4. ~chosen
      BY <3>1, <3>3
    <3>. QED
      BY <3>2, <3>4
  <2>4. since' = (IF since < SettleAfter THEN since + 1 ELSE since) /\ Now' = Now + 1 /\ Now \in Nat
    <3>1. Now' = Now + 1 /\ Now \in Nat
      BY <1>1, <2>3 DEF Now, AxiIInv, AxiTypeOK, Stages
    <3>. QED
      BY <1>2, <2>3, <3>1
  <2>5. \A n \in Nat : Waited(n) => since' >= n + Now' \/ since' = SettleAfter
    BY <1>4, <2>4 DEF Waited
  <2>6. ASSUME Done = NumUnpaged + 2 * NumRails + 3
        PROVE  since' = SettleAfter /\ (Commanded' => memory'.settled)
    <3>1. since = SettleAfter /\ (Commanded => memory.settled)
      BY <2>1, <2>6 DEF AxiIInv, Settling
    <3>2. since' = SettleAfter
      BY <1>4, <2>4, <3>1
    <3>3. memory'.settled
      <4>1. CASE ~command
        <5>1. Commanded
          BY <1>15, <2>2, <4>1 DEF Commanded
        <5>. QED
          BY <1>2, <3>1, <4>1, <5>1
      <4>2. CASE command
        <5>1. Head(todo) = Axi!Op("read", Axi!Connector(connector))
          <6>1. Done + 1 = Before + 2
            <7>1. NumUnpaged \in Nat /\ NumRails \in Nat
              BY Constants DEF Axi!AxiConstants
            <7> HIDE DEF Done
            <7>. QED
              BY <2>6, <7>1 DEF Before
          <6>2. Head(todo) = Plan[Done + 1]
            BY <1>15, <2>2, HeadIs DEF AxiIInv
          <6>. QED
            BY <2>2, <6>1, <6>2, PlanIs DEF AxiIInv, AxiTypeOK
        <5>2. m.kind = "read" /\ m.what = Axi!Connector(connector)
          BY <1>15, <2>2, <5>1 DEF Axi!Op
        <5>3. m.what.reg = "connector"
          BY <5>2 DEF Axi!Connector
        <5>4. Axi!Measured(m.what).settled = (since >= SettleAfter)
          <6> HIDE DEF m
          <6>. QED
            BY <1>5, <1>10, <5>3, MeasuredIs
        <5>5. memory' = Axi!Measured(m.what)
          <6> HIDE DEF m
          <6>. QED
            BY <1>2, <4>2, <5>2
        <5>6. since >= SettleAfter
          BY <1>4, <3>1
        <5> HIDE DEF m
        <5>. QED
          BY <5>4, <5>5, <5>6
      <4>. QED
        BY <4>1, <4>2
    <3>. QED
      BY <3>2, <3>3
  <2>7. NumUnpaged \in Nat /\ NumRails \in Nat
    BY Constants DEF Axi!AxiConstants
  <2>8. /\ \A n \in 0..NumUnpaged : 3 * n \in Nat
        /\ \A n \in 0..NumRails : 3 * NumUnpaged + 5 * n \in Nat /\ 3 * NumUnpaged + 5 * n + 2 \in Nat
        /\ 0..(NumRails - 1) \subseteq 0..NumRails
    BY <2>7
  <2> HIDE DEF Done
  <2>9. /\ \A n \in 0..NumUnpaged : Done = 2 + n => Waited(3 * n)
        /\ \A n \in 0..NumRails : Done = 2 + NumUnpaged + 2 * n => Waited(3 * NumUnpaged + 5 * n)
        /\ \A n \in 0..(NumRails - 1) :
             Done = 3 + NumUnpaged + 2 * n => Waited(3 * NumUnpaged + 5 * n + 2)
    BY <2>1 DEF AxiIInv, Settling
  <2>10. /\ \A n \in 0..NumUnpaged : Done' = 2 + n => Waited(3 * n)'
         /\ \A n \in 0..NumRails : Done' = 2 + NumUnpaged + 2 * n => Waited(3 * NumUnpaged + 5 * n)'
         /\ \A n \in 0..(NumRails - 1) :
              Done' = 3 + NumUnpaged + 2 * n => Waited(3 * NumUnpaged + 5 * n + 2)'
    BY <1>12, <2>5, <2>8, <2>9 DEF Waited
  <2>. QED
    BY <1>12, <2>6, <2>10 DEF Settling
<1>. QED
  BY <1>11, <1>13, <1>14, <1>17, <1>18, <1>19 DEF AxiIInv

(* A reply is read: once the device is open, and if the collector was not  *)
(* misled then, it is the only one there is, and the command of the        *)
(* operation has been handled.                                             *)
LEMMA TakeIs ==
  ASSUME AxiIInv, Axi!Take
  PROVE  /\ asked /\ outbox # <<>> /\ todo # <<>> /\ open /\ outbox' = Tail(outbox)
         /\ inbox' = inbox /\ rail' = rail /\ page' = page /\ since' = since /\ memory' = memory
         /\ outbox \in Seq(Answers) /\ outbox' \in Seq(Answers) /\ Len(outbox) \in Nat \ {0}
         /\ Len(outbox') = Len(outbox) - 1 /\ Head(outbox) = outbox[1] /\ Head(outbox) \in Answers
         /\ DOMAIN outbox = 1..Len(outbox) /\ DOMAIN outbox' = 1..Len(outbox')
         /\ \A i \in DOMAIN outbox' : i + 1 \in DOMAIN outbox /\ outbox'[i] = outbox[i + 1]
         /\ inbox \in Seq(Messages) /\ Len(inbox) \in Nat /\ DOMAIN inbox = 1..Len(inbox)
         /\ Len(inbox') + Len(outbox') <= Held
         /\ Len(outbox) = 1 => outbox' = <<>>
         /\ ~misled /\ ~Opening => inbox' = <<>> /\ outbox' = <<>> /\ Commanded
<1>1. /\ asked /\ outbox # <<>> /\ outbox' = Tail(outbox)
      /\ inbox' = inbox /\ rail' = rail /\ page' = page /\ since' = since /\ memory' = memory
  BY DEF Axi!Take
<1>2. todo # <<>> /\ open
  BY <1>1 DEF AxiIInv, Planned
<1>3. /\ inbox \in Seq(Messages) /\ outbox \in Seq(Answers)
      /\ Len(inbox) + Len(outbox) <= Held /\ Held \in Nat
  BY Constants DEF AxiIInv, AxiTypeOK, Axi!AxiConstants
<1>4. /\ Tail(outbox) \in Seq(Answers) /\ Len(Tail(outbox)) = Len(outbox) - 1 /\ Head(outbox) = outbox[1]
      /\ Head(outbox) \in Answers /\ Len(outbox) \in Nat \ {0}
      /\ \A i \in 1..(Len(outbox) - 1) : Tail(outbox)[i] = outbox[i + 1]
      /\ Tail(outbox) = <<>> <=> Len(outbox) = 1
  <2> HIDE DEF Answers
  <2>. QED
    BY <1>1, <1>3, TakenFrom
<1>5. DOMAIN outbox = 1..Len(outbox) /\ DOMAIN outbox' = 1..Len(outbox')
      /\ Len(inbox) \in Nat /\ DOMAIN inbox = 1..Len(inbox)
  <2> HIDE DEF Answers, Messages
  <2>. QED
    BY <1>1, <1>3, <1>4, QueueIs
<1>6. \A i \in DOMAIN outbox' : i + 1 \in DOMAIN outbox /\ outbox'[i] = outbox[i + 1]
  <2> HIDE DEF Answers, Messages
  <2>. QED
    BY <1>1, <1>4, <1>5
<1>7. Len(inbox') + Len(outbox') <= Held
  <2> HIDE DEF Answers, Messages
  <2>. QED
    BY <1>1, <1>3, <1>4, <1>5
<1>8. ~misled /\ ~Opening => inbox' = <<>> /\ outbox' = <<>> /\ Commanded
  BY <1>1, <1>2, <1>4 DEF AxiIInv, InStep, Commanded
<1> HIDE DEF Answers, Messages
<1>. QED
  BY <1>1, <1>2, <1>3, <1>4, <1>5, <1>6, <1>7, <1>8

(* The next part of an operation.                                          *)
LEMMA GoKeeps ==
  ASSUME AxiIInv, Axi!Take, NEW p \in {"status", "memory"}, Axi!Go(p),
         UNCHANGED <<Axi!connectors, values, report>>,
         polls' \in Nat, Head(todo).kind # "setup", part # "memory",
         p = "memory" => part = "status" /\ Head(todo).kind = "read"
  PROVE  AxiIInv'
<1>1. /\ asked' = FALSE /\ open' = open /\ todo' = todo /\ part' = p
      /\ connector' = connector /\ selected' = selected /\ power' = power
      /\ age' = age /\ values' = values /\ report' = report /\ misled' = misled
  BY DEF Axi!Go, Axi!connectors
<1>2. /\ asked /\ outbox # <<>> /\ todo # <<>> /\ open
      /\ inbox' = inbox /\ rail' = rail /\ page' = page /\ since' = since /\ memory' = memory
      /\ outbox \in Seq(Answers) /\ outbox' \in Seq(Answers) /\ Len(outbox) \in Nat
      /\ Len(outbox') = Len(outbox) - 1
      /\ DOMAIN outbox = 1..Len(outbox) /\ DOMAIN outbox' = 1..Len(outbox')
      /\ \A i \in DOMAIN outbox' : i + 1 \in DOMAIN outbox /\ outbox'[i] = outbox[i + 1]
      /\ inbox \in Seq(Messages) /\ Len(inbox) \in Nat /\ DOMAIN inbox = 1..Len(inbox)
      /\ Len(inbox') + Len(outbox') <= Held
      /\ ~misled /\ ~Opening => inbox' = <<>> /\ outbox' = <<>> /\ Commanded
  BY TakeIs
<1>3. part \in Stages /\ p \in Stages
  BY DEF AxiIInv, AxiTypeOK, Stages
<1>4. AxiTypeOK'
  <2> HIDE DEF Operations, Messages, Answers, Records, Stages, Labels
  <2>. QED
    BY <1>1, <1>2, <1>3 DEF AxiIInv, AxiTypeOK
<1>5. Plan' = Plan /\ Done' = Done /\ Opening' = Opening /\ Selected' = Selected
  BY <1>1, SameOperation
<1>6. Planned'
  BY <1>1, <1>2, <1>5 DEF AxiIInv, Planned
<1>7. CatchingUp'
  <2>1. SUFFICES ASSUME Opening, ~misled PROVE CatchingUp'
    BY <1>1, <1>5 DEF CatchingUp
  <2>2. Done # 0
    BY <1>2, HeadIs DEF AxiIInv
  <2>3. Caught \in {1, 2} /\ Caught' \in {Caught, Caught + 1}
    BY <1>1, <1>3, <1>5, <2>2 DEF Caught, Stages
  <2>4. /\ \A i \in DOMAIN outbox : i + Caught > 3 => outbox[i].len < 7
        /\ \A i \in DOMAIN inbox : Len(outbox) + i + Caught > 3 => ~NamesModel(inbox[i])
    BY <2>1, <2>3 DEF AxiIInv, CatchingUp
  <2> HIDE DEF Answers, Messages
  <2>5. ASSUME NEW i \in DOMAIN outbox', i + Caught' > 3 PROVE outbox'[i].len < 7
    <3>1. i \in Nat /\ i + 1 \in DOMAIN outbox /\ outbox'[i] = outbox[i + 1]
      BY <1>2, <2>5
    <3>2. i + 1 + Caught > 3
      BY <2>3, <2>5, <3>1
    <3>. QED
      BY <2>4, <3>1, <3>2
  <2>6. ASSUME NEW i \in DOMAIN inbox', Len(outbox') + i + Caught' > 3 PROVE ~NamesModel(inbox'[i])
    <3>1. i \in Nat /\ i \in DOMAIN inbox /\ inbox'[i] = inbox[i]
      BY <1>2, <2>6
    <3>2. Len(outbox) + i + Caught > 3
      BY <1>2, <2>3, <2>6, <3>1
    <3>. QED
      BY <2>4, <3>1, <3>2
  <2>. QED
    BY <2>5, <2>6 DEF CatchingUp, NamesModel, Axi!Model
<1>8. InStep'
  <2>1. SUFFICES ASSUME ~Opening, ~misled PROVE InStep'
    BY <1>1, <1>5 DEF InStep
  <2>2. inbox' = <<>> /\ outbox' = <<>> /\ Commanded
    BY <1>2, <2>1
  <2>. QED
    BY <1>1, <1>2, <1>5, <2>1, <2>2 DEF AxiIInv, InStep
<1>9. OwnValues' /\ Turns'
  BY <1>1 DEF AxiIInv, OwnValues, Turns, Axi!ReadingsAreTheirOwn, Axi!Connectors
<1>10. Settling'
  <2>1. SUFFICES ASSUME Selected, ~misled PROVE Settling'
    BY <1>1, <1>5 DEF Settling
  <2>2. ~Opening
    BY <2>1 DEF AxiIInv, Planned, Selected
  <2>3. outbox' = <<>> /\ Commanded
    BY <1>2, <2>1, <2>2
  <2>4. Now' <= Now /\ Now \in Nat /\ Now' \in Nat
    BY <1>1, <1>2, <1>3, <2>3 DEF Now, Stages
  <2>5. since \in Nat /\ SettleAfter \in Nat /\ NumUnpaged \in Nat /\ NumRails \in Nat
    BY Constants DEF AxiIInv, AxiTypeOK, Axi!AxiConstants
  <2>6. \A n \in Nat : Waited(n) => since' >= n + Now' \/ since' = SettleAfter
    <3>1. since' = since
      BY <1>2
    <3>2. SUFFICES ASSUME NEW n \in Nat, Waited(n) PROVE since' >= n + Now' \/ since' = SettleAfter
      OBVIOUS
    <3>3. since >= n + Now \/ since = SettleAfter
      BY <3>2 DEF Waited
    <3>4. since >= n + Now => since >= n + Now'
      <4>1. \A s, x, y \in Nat : y <= x /\ s >= n + x => s >= n + y
        OBVIOUS
      <4>. QED
        BY <2>4, <2>5, <4>1
    <3>. QED
      BY <3>1, <3>3, <3>4
  <2>7. /\ \A n \in 0..NumUnpaged : 3 * n \in Nat
        /\ \A n \in 0..NumRails : 3 * NumUnpaged + 5 * n \in Nat /\ 3 * NumUnpaged + 5 * n + 2 \in Nat
        /\ 0..(NumRails - 1) \subseteq 0..NumRails
    BY <2>5
  <2> HIDE DEF Done
  <2>8. /\ \A n \in 0..NumUnpaged : Done = 2 + n => Waited(3 * n)
        /\ \A n \in 0..NumRails : Done = 2 + NumUnpaged + 2 * n => Waited(3 * NumUnpaged + 5 * n)
        /\ \A n \in 0..(NumRails - 1) :
             Done = 3 + NumUnpaged + 2 * n => Waited(3 * NumUnpaged + 5 * n + 2)
        /\ Done = NumUnpaged + 2 * NumRails + 3 => since = SettleAfter /\ memory.settled
    BY <1>2, <2>1, <2>3 DEF AxiIInv, Settling
  <2>9. /\ \A n \in 0..NumUnpaged : Done' = 2 + n => Waited(3 * n)'
        /\ \A n \in 0..NumRails : Done' = 2 + NumUnpaged + 2 * n => Waited(3 * NumUnpaged + 5 * n)'
        /\ \A n \in 0..(NumRails - 1) :
             Done' = 3 + NumUnpaged + 2 * n => Waited(3 * NumUnpaged + 5 * n + 2)'
    BY <1>5, <2>6, <2>7, <2>8 DEF Waited
  <2>. QED
    BY <1>2, <1>5, <2>8, <2>9 DEF Settling
<1>. QED
  BY <1>4, <1>6, <1>7, <1>8, <1>9, <1>10 DEF AxiIInv

(* On to the next operation.                                               *)
LEMMA Advances ==
  ASSUME AxiTypeOK, Planned, todo # <<>>, todo' = Tail(todo), part' = "command",
         asked' = FALSE, open' = open,
         Len(todo) # 1 => /\ selected' = selected /\ Len(Plan') = Len(Plan)
                          /\ \A k \in (Done + 2)..Len(Plan) : Plan'[k] = Plan[k]
  PROVE  /\ Planned' /\ todo' \in Seq(Operations)
         /\ Len(todo) = 1 => todo' = <<>> /\ ~Opening'
         /\ Len(todo) # 1 => /\ todo' # <<>> /\ Done' = Done + 1 /\ Len(todo') = Len(todo) - 1
                             /\ Head(todo') = Plan[Done + 2] /\ Done + 2 \in 1..Len(Plan)
                             /\ Opening' <=> Done = 0
<1>1. /\ open /\ Done \in Nat /\ Before \in Nat
      /\ Len(Plan) = Before + (IF selected THEN 3 ELSE 2)
      /\ Len(todo) = Len(Plan) - Done /\ Len(todo) \in Nat \ {0} /\ Done + 1 \in 1..Len(Plan)
      /\ Opening <=> Done < 2
  BY HeadIs
<1>2. todo \in Seq(Operations) /\ selected \in BOOLEAN
  BY DEF AxiTypeOK
<1>3. /\ todo' \in Seq(Operations) /\ Len(todo') = Len(todo) - 1
      /\ \A i \in 1..(Len(todo) - 1) : todo'[i] = todo[i + 1]
      /\ todo' = <<>> <=> Len(todo) = 1
      /\ DOMAIN todo = 1..Len(todo)
  <2> HIDE DEF Operations
  <2>. QED
    BY <1>2, TakenFrom, QueueIs
<1>4. DOMAIN todo' = 1..Len(todo') /\ (todo' # <<>> => Head(todo') = todo'[1])
  <2> HIDE DEF Operations
  <2>. QED
    BY <1>3, QueueIs, TakenFrom
<1>5. CASE Len(todo) = 1
  <2>1. todo' = <<>>
    BY <1>3, <1>5
  <2>. QED
    BY <1>1, <1>3, <1>5, <2>1 DEF Planned, Opening
<1>6. CASE Len(todo) # 1
  <2>1. /\ selected' = selected /\ Len(Plan') = Len(Plan)
        /\ \A k \in (Done + 2)..Len(Plan) : Plan'[k] = Plan[k]
    BY <1>6
  <2>2. todo' # <<>>
    BY <1>3, <1>6
  <2>3. Done' = Len(Plan') - Len(todo')
    BY DEF Done
  <2>4. \A k \in DOMAIN todo : todo[k] = Plan[Done + k]
    BY DEF Planned
  <2>5. Len(Axi!OpenOps') = 2
    BY OpenOpsAre DEF Axi!OpenOps
  <2> HIDE DEF Done, Operations
  <2>6. Len(Plan) \in Nat
    BY <1>1, <1>2
  <2>7. Done' = Done + 1 /\ Done + 2 \in 1..Len(Plan)
    BY <1>1, <1>3, <1>6, <2>1, <2>3, <2>6
  <2>8. \A k \in DOMAIN todo' : todo'[k] = Plan'[Done' + k] /\ todo'[k] = Plan[Done + 1 + k]
    <3>1. SUFFICES ASSUME NEW k \in 1..(Len(todo) - 1)
                   PROVE  todo'[k] = Plan'[Done' + k] /\ todo'[k] = Plan[Done + 1 + k]
      BY <1>3, <1>4
    <3>2. k + 1 \in DOMAIN todo /\ todo'[k] = todo[k + 1]
      BY <1>1, <1>3
    <3>3. Done + (k + 1) = Done + 1 + k /\ Done + 1 + k \in (Done + 2)..Len(Plan)
      BY <1>1, <2>6
    <3>. QED
      BY <2>1, <2>4, <2>7, <3>2, <3>3
  <2>9. Head(todo') = Plan[Done + 2]
    <3>1. 1 \in DOMAIN todo' /\ Done + 1 + 1 = Done + 2
      BY <1>1, <1>3, <1>4, <1>6
    <3>. QED
      BY <1>4, <2>2, <2>8, <3>1
  <2>10. Opening' <=> Done = 0
    BY <1>1, <2>2, <2>5, <2>7 DEF Opening
  <2>11. selected => ~Opening'
    BY <1>1, <2>10 DEF Planned
  <2>12. Planned'
    BY <1>1, <2>1, <2>2, <2>7, <2>8, <2>11 DEF Planned
  <2>. QED
    BY <1>3, <1>6, <2>2, <2>7, <2>9, <2>10, <2>12
<1>. QED
  BY <1>5, <1>6

(* What has been waited for the page when an operation is done.            *)
LEMMA SettlingAdvances ==
  ASSUME AxiIInv, Axi!Take, part' = "command", since' = since, misled' = misled,
         Now = IF Head(todo).kind = "read" THEN 3 ELSE 2,
         Len(todo) = 1 => todo' = <<>>,
         Len(todo) # 1 => selected' = selected /\ Done' = Done + 1 /\ Len(todo') = Len(todo) - 1
  PROVE  Settling'
<1>1. SUFFICES ASSUME todo' # <<>>, Selected', ~misled PROVE Settling'
  BY DEF Settling
<1>2. /\ Len(todo) # 1 /\ selected' = selected /\ Done' = Done + 1
      /\ Len(todo') = Len(todo) - 1 /\ Len(todo') # 1 /\ selected
  BY <1>1 DEF Selected
<1>3. todo # <<>> /\ ~Opening
  BY <1>2, TakeIs DEF AxiIInv, Planned
<1>4. outbox' = <<>>
  BY <1>1, <1>3, TakeIs
<1>5. /\ Done \in Nat /\ Done >= 2 /\ Done + 1 \in 1..Len(Plan) /\ Before \in Nat
      /\ Len(Plan) = Before + 3 /\ Len(todo) = Len(Plan) - Done /\ Head(todo) = Plan[Done + 1]
  BY <1>2, <1>3, HeadIs DEF AxiIInv
<1>6. connector \in Axi!Connectors /\ selected \in BOOLEAN /\ since \in Nat
  BY Constants DEF AxiIInv, AxiTypeOK, Axi!AxiConstants
<1>7. /\ NumUnpaged \in Nat /\ NumRails \in Nat /\ SettleAfter \in Nat
      /\ SettleAfter <= 3 * NumUnpaged + 5 * NumRails + 2 /\ since <= SettleAfter
      /\ Before = NumUnpaged + 2 * NumRails + 2
  BY Constants DEF Axi!AxiConstants, AxiIInv, AxiTypeOK, Before
<1>8. Now' = 0 /\ ~Commanded'
  BY <1>4 DEF Now, Commanded
<1>9. \A n \in Nat : Waited(n)' <=> since >= n \/ since = SettleAfter
  BY <1>6, <1>8 DEF Waited
<1>10. /\ \A n \in 0..NumUnpaged : Done = 2 + n => Waited(3 * n)
       /\ \A n \in 0..NumRails : Done = 2 + NumUnpaged + 2 * n => Waited(3 * NumUnpaged + 5 * n)
       /\ \A n \in 0..(NumRails - 1) :
            Done = 3 + NumUnpaged + 2 * n => Waited(3 * NumUnpaged + 5 * n + 2)
  BY <1>1, <1>2, <1>3 DEF AxiIInv, Settling, Selected
<1> DEFINE Due(d) ==
      /\ \A n \in 0..NumUnpaged : d = 2 + n => Waited(3 * n)'
      /\ \A n \in 0..NumRails : d = 2 + NumUnpaged + 2 * n => Waited(3 * NumUnpaged + 5 * n)'
      /\ \A n \in 0..(NumRails - 1) :
           d = 3 + NumUnpaged + 2 * n => Waited(3 * NumUnpaged + 5 * n + 2)'
      /\ d = NumUnpaged + 2 * NumRails + 3 => since = SettleAfter
<1> HIDE DEF Done
<1>11. ASSUME NEW k \in 1..NumUnpaged, Done + 1 = 2 + k PROVE Due(Done + 1)
  <2>1. Now = 3
    <3>1. Plan[Done + 1] = Axi!Op("read", Axi!Unpaged(k))
      BY <1>6, <1>11, PlanIs
    <3>. QED
      BY <1>5, <3>1 DEF Axi!Op
  <2>2. Waited(3 * (k - 1))
    <3>1. k - 1 \in 0..NumUnpaged /\ Done = 2 + (k - 1)
      BY <1>5, <1>7, <1>11
    <3>. QED
      BY <1>10, <3>1
  <2>3. since >= 3 * k \/ since = SettleAfter
    <3>1. since >= 3 * (k - 1) + 3 \/ since = SettleAfter
      BY <2>1, <2>2 DEF Waited
    <3>2. 3 * (k - 1) + 3 = 3 * k
      BY <1>7
    <3>. QED
      BY <3>1, <3>2
  <2>4. Waited(3 * k)'
    BY <1>7, <1>9, <2>3
  <2>5. \A n \in 0..NumUnpaged : Done + 1 = 2 + n => n = k
    BY <1>5, <1>7, <1>11
  <2>6. \A n \in 0..NumRails : Done + 1 = 2 + NumUnpaged + 2 * n => 3 * NumUnpaged + 5 * n = 3 * k
    BY <1>5, <1>7, <1>11
  <2>7. /\ \A n \in 0..(NumRails - 1) : Done + 1 # 3 + NumUnpaged + 2 * n
        /\ Done + 1 # NumUnpaged + 2 * NumRails + 3
    BY <1>5, <1>7, <1>11
  <2>. QED
    BY <2>4, <2>5, <2>6, <2>7
<1>12. ASSUME NEW j \in 0..(NumRails - 1), Done + 1 = NumUnpaged + 2 * j + 3 PROVE Due(Done + 1)
  <2>1. Now = 2
    <3>1. Plan[Done + 1] = Axi!Op("write", Axi!Rail(j))
      BY <1>6, <1>12, PlanIs
    <3>. QED
      BY <1>5, <3>1 DEF Axi!Op
  <2>2. Waited(3 * NumUnpaged + 5 * j)
    <3>1. j \in 0..NumRails /\ Done = 2 + NumUnpaged + 2 * j
      BY <1>5, <1>7, <1>12
    <3>. QED
      BY <1>10, <3>1
  <2>3. since >= 3 * NumUnpaged + 5 * j + 2 \/ since = SettleAfter
    BY <2>1, <2>2 DEF Waited
  <2>4. Waited(3 * NumUnpaged + 5 * j + 2)'
    <3>1. 3 * NumUnpaged + 5 * j + 2 \in Nat
      BY <1>7
    <3>. QED
      BY <1>9, <2>3, <3>1
  <2>5. \A n \in 0..(NumRails - 1) : Done + 1 = 3 + NumUnpaged + 2 * n => n = j
    BY <1>5, <1>7, <1>12
  <2>6. /\ \A n \in 0..NumUnpaged : Done + 1 # 2 + n
        /\ \A n \in 0..NumRails : Done + 1 # 2 + NumUnpaged + 2 * n
        /\ Done + 1 # NumUnpaged + 2 * NumRails + 3
    BY <1>5, <1>7, <1>12
  <2>. QED
    BY <2>4, <2>5, <2>6
<1>13. ASSUME NEW j \in 0..(NumRails - 1), Done + 1 = NumUnpaged + 2 * j + 4 PROVE Due(Done + 1)
  <2>1. Now = 3
    <3>1. Plan[Done + 1] = Axi!Op("read", Axi!Rail(j))
      BY <1>6, <1>13, PlanIs
    <3>. QED
      BY <1>5, <3>1 DEF Axi!Op
  <2>2. Waited(3 * NumUnpaged + 5 * j + 2)
    <3>1. Done = 3 + NumUnpaged + 2 * j
      BY <1>5, <1>7, <1>13
    <3>. QED
      BY <1>10, <3>1
  <2>3. since >= 3 * NumUnpaged + 5 * (j + 1) \/ since = SettleAfter
    <3>1. since >= 3 * NumUnpaged + 5 * j + 2 + 3 \/ since = SettleAfter
      BY <2>1, <2>2 DEF Waited
    <3>2. 3 * NumUnpaged + 5 * j + 2 + 3 = 3 * NumUnpaged + 5 * (j + 1)
      BY <1>7
    <3>. QED
      BY <3>1, <3>2
  <2>4. Waited(3 * NumUnpaged + 5 * (j + 1))'
    <3>1. 3 * NumUnpaged + 5 * (j + 1) \in Nat
      BY <1>7
    <3>. QED
      BY <1>9, <2>3, <3>1
  <2>5. \A n \in 0..NumRails : Done + 1 = 2 + NumUnpaged + 2 * n => n = j + 1
    BY <1>5, <1>7, <1>13
  <2>6. /\ \A n \in 0..NumUnpaged : Done + 1 # 2 + n
        /\ \A n \in 0..(NumRails - 1) : Done + 1 # 3 + NumUnpaged + 2 * n
        /\ Done + 1 # NumUnpaged + 2 * NumRails + 3
    BY <1>5, <1>7, <1>13
  <2>. QED
    BY <2>4, <2>5, <2>6
<1>14. ASSUME Done + 1 = Before + 1 PROVE Due(Done + 1)
  <2>1. Now = 2
    <3>1. Plan[Done + 1] = Axi!Op("write", Axi!Rail(0))
      BY <1>6, <1>14, PlanIs
    <3>. QED
      BY <1>5, <3>1 DEF Axi!Op
  <2>2. Waited(3 * NumUnpaged + 5 * NumRails)
    <3>1. NumRails \in 0..NumRails /\ Done = 2 + NumUnpaged + 2 * NumRails
      BY <1>5, <1>7, <1>14
    <3>. QED
      BY <1>10, <3>1
  <2>3. since = SettleAfter
    <3>1. since >= 3 * NumUnpaged + 5 * NumRails + 2 \/ since = SettleAfter
      BY <2>1, <2>2 DEF Waited
    <3>. QED
      BY <1>6, <1>7, <3>1
  <2>4. \A n \in Nat : Waited(n)'
    BY <1>9, <2>3
  <2>5. /\ \A n \in 0..NumUnpaged : Done + 1 # 2 + n
        /\ \A n \in 0..NumRails : Done + 1 # 2 + NumUnpaged + 2 * n
        /\ \A n \in 0..(NumRails - 1) : Done + 1 # 3 + NumUnpaged + 2 * n
    BY <1>5, <1>7, <1>14
  <2>. QED
    BY <2>3, <2>5
<1>15. Done + 1 # 1 /\ Done + 1 # 2 /\ Done + 1 # Before + 2 /\ Done + 1 # Len(Plan)
  BY <1>2, <1>5
<1>16. Due(Done + 1)
  <2> HIDE DEF Due
  <2>. QED
    BY <1>5, <1>6, <1>11, <1>12, <1>13, <1>14, <1>15, PlaceInPlan
<1>. QED
  BY <1>1, <1>2, <1>8, <1>16 DEF Settling

(* What the Sample returns if it is done.                                  *)
Returned(vals, pow) ==
  vals \cup {[label |-> Axi!Connector(c), value |-> pow[c]] :
               c \in {d \in Axi!Connectors : pow[d] # Axi!Nothing}}

(* What is returned is the values of the Sample and those of connectors.   *)
LEMMA ReportIsOwn ==
  ASSUME report \subseteq Records, Axi!ReadingsAreTheirOwn, misled' = misled,
         report' = report \/ report' = Returned(values', power'),
         values' \subseteq Records, power' \in [Axi!Connectors -> Labels],
         ~misled => \A r \in values' : r.value.reg = r.label.reg /\ r.value.page = r.label.page,
         ~misled => \A c \in Axi!Connectors :
           power'[c] # Axi!Nothing => power'[c].reg = "connector" /\ power'[c].page = c
  PROVE  report' \subseteq Records /\ Axi!ReadingsAreTheirOwn'
<1>1. CASE report' = report
  BY <1>1 DEF Axi!ReadingsAreTheirOwn
<1>2. CASE report' = Returned(values', power')
  <2>1. SUFFICES ASSUME NEW r \in report'
                 PROVE  /\ r \in Records
                        /\ ~misled => r.value.reg = r.label.reg /\ r.value.page = r.label.page
    BY DEF Axi!ReadingsAreTheirOwn
  <2>2. CASE r \in values'
    BY <2>2
  <2>3. ASSUME NEW c \in Axi!Connectors, power'[c] # Axi!Nothing,
               r = [label |-> Axi!Connector(c), value |-> power'[c]]
        PROVE  /\ r \in Records
               /\ ~misled => r.value.reg = r.label.reg /\ r.value.page = r.label.page
    <3>1. Axi!Connector(c) \in Labels /\ Axi!Connector(c).reg = "connector" /\ Axi!Connector(c).page = c
      BY OpsAreTyped DEF Axi!Connectors, Axi!Connector
    <3>2. power'[c] \in Labels /\ (~misled => power'[c].reg = "connector" /\ power'[c].page = c)
      BY <2>3
    <3> HIDE DEF Labels
    <3>3. r \in Records
      BY <2>3, <3>1, <3>2 DEF Records
    <3>. QED
      BY <2>3, <3>1, <3>2, <3>3
  <2>. QED
    BY <1>2, <2>1, <2>2, <2>3 DEF Returned
<1>. QED
  BY <1>1, <1>2

(* A page is written, or the dongle set up.                                *)
LEMMA WriteKeeps ==
  ASSUME AxiIInv, Axi!Take, Axi!WriteDone,
         \/ part = "command" /\ Head(todo).kind = "setup"
         \/ part = "status" /\ Head(todo).kind \in Axi!Writes
  PROVE  AxiIInv'
<1>1. /\ todo' = Tail(todo) /\ part' = "command" /\ asked' = FALSE /\ polls' = 0 /\ open' = open
      /\ selected' = (selected \/ Head(todo).kind = "select")
      /\ values' = values /\ connector' = connector /\ power' = power /\ age' = age
      /\ misled' = misled
      /\ report' = report \/ report' = Returned(values', power')
  BY DEF Axi!WriteDone, Axi!Finish, Returned
<1>2. /\ asked /\ outbox # <<>> /\ todo # <<>> /\ open
      /\ inbox' = inbox /\ rail' = rail /\ page' = page /\ since' = since /\ memory' = memory
      /\ outbox \in Seq(Answers) /\ outbox' \in Seq(Answers) /\ Len(outbox) \in Nat
      /\ Len(outbox') = Len(outbox) - 1
      /\ DOMAIN outbox = 1..Len(outbox) /\ DOMAIN outbox' = 1..Len(outbox')
      /\ \A i \in DOMAIN outbox' : i + 1 \in DOMAIN outbox /\ outbox'[i] = outbox[i + 1]
      /\ inbox \in Seq(Messages) /\ Len(inbox) \in Nat /\ DOMAIN inbox = 1..Len(inbox)
      /\ Len(inbox') + Len(outbox') <= Held
      /\ ~misled /\ ~Opening => inbox' = <<>> /\ outbox' = <<>> /\ Commanded
  BY TakeIs
<1>3. /\ Done \in Nat /\ Head(todo) = Plan[Done + 1] /\ Done + 1 \in 1..Len(Plan)
      /\ Head(todo).kind = "setup" <=> Done = 0
      /\ Head(todo).kind = "select" <=> Len(todo) = 1
      /\ Done = 1 => Head(todo).kind = "read"
      /\ Opening <=> Done < 2
  BY <1>2, HeadIs DEF AxiIInv
<1>4. selected \in BOOLEAN /\ connector \in Axi!Connectors
  BY DEF AxiIInv, AxiTypeOK
<1>5. Len(todo) # 1 => selected' = selected /\ Plan' = Plan
  <2>1. Len(todo) # 1 => selected' = selected
    BY <1>1, <1>3, <1>4
  <2>. QED
    BY <1>1, <2>1, PlanStays
<1>6. Head(todo).kind # "read" /\ (Done = 0 <=> part = "command") /\ Done # 1
  BY <1>3 DEF Axi!Writes
<1>7. /\ Planned' /\ todo' \in Seq(Operations)
      /\ Len(todo) = 1 => todo' = <<>> /\ ~Opening'
      /\ Len(todo) # 1 => /\ todo' # <<>> /\ Done' = Done + 1 /\ Len(todo') = Len(todo) - 1
                          /\ Head(todo') = Plan[Done + 2] /\ Done + 2 \in 1..Len(Plan)
                          /\ Opening' <=> Done = 0
  BY <1>1, <1>2, <1>5, Advances DEF AxiIInv
<1>8. OwnValues' /\ report' \subseteq Records
  <2>1. /\ values' \subseteq Records /\ power' \in [Axi!Connectors -> Labels] /\ report \subseteq Records
        /\ Axi!ReadingsAreTheirOwn
        /\ ~misled => \A r \in values' : r.value.reg = r.label.reg /\ r.value.page = r.label.page
        /\ ~misled => \A c \in Axi!Connectors :
             power'[c] # Axi!Nothing => power'[c].reg = "connector" /\ power'[c].page = c
    BY <1>1 DEF AxiIInv, AxiTypeOK, OwnValues
  <2>2. report' \subseteq Records /\ Axi!ReadingsAreTheirOwn'
    BY <1>1, <2>1, ReportIsOwn
  <2>. QED
    BY <1>1, <2>1, <2>2 DEF OwnValues, Axi!Connectors
<1>9. AxiTypeOK'
  <2>1. "command" \in Stages /\ 0 \in Nat /\ asked' \in BOOLEAN /\ selected' \in BOOLEAN
    BY <1>1, <1>4 DEF Stages
  <2> HIDE DEF Operations, Messages, Answers, Records, Stages, Labels
  <2>. QED
    BY <1>1, <1>2, <1>7, <1>8, <2>1 DEF AxiIInv, AxiTypeOK
<1>10. CatchingUp'
  <2>1. SUFFICES ASSUME Opening', ~misled PROVE CatchingUp'
    BY <1>1 DEF CatchingUp
  <2>2. Done = 0 /\ Opening /\ part = "command" /\ Done' = 1
    BY <1>3, <1>6, <1>7, <2>1
  <2>3. Caught = 0 /\ Caught' = 1
    BY <1>1, <2>2 DEF Caught
  <2>4. /\ \A i \in DOMAIN outbox : i + Caught > 3 => outbox[i].len < 7
        /\ \A i \in DOMAIN inbox : Len(outbox) + i + Caught > 3 => ~NamesModel(inbox[i])
    BY <2>1, <2>2, <2>3 DEF AxiIInv, CatchingUp
  <2> HIDE DEF Answers, Messages
  <2>5. ASSUME NEW i \in DOMAIN outbox', i + Caught' > 3 PROVE outbox'[i].len < 7
    <3>1. i \in Nat /\ i + 1 \in DOMAIN outbox /\ outbox'[i] = outbox[i + 1]
      BY <1>2, <2>5
    <3>2. i + 1 + Caught > 3
      BY <2>3, <2>5, <3>1
    <3>. QED
      BY <2>4, <3>1, <3>2
  <2>6. ASSUME NEW i \in DOMAIN inbox', Len(outbox') + i + Caught' > 3 PROVE ~NamesModel(inbox'[i])
    <3>1. i \in Nat /\ i \in DOMAIN inbox /\ inbox'[i] = inbox[i]
      BY <1>2, <2>6
    <3>2. Len(outbox) + i + Caught > 3
      BY <1>2, <2>3, <2>6, <3>1
    <3>. QED
      BY <2>4, <3>1, <3>2
  <2>. QED
    BY <2>5, <2>6 DEF CatchingUp, NamesModel, Axi!Model
<1>11. InStep'
  <2>1. SUFFICES ASSUME ~Opening', ~misled PROVE InStep'
    BY <1>1 DEF InStep
  <2>2. ~Opening /\ ~misled
    BY <1>3, <1>6, <1>7, <2>1
  <2>3. inbox' = <<>> /\ outbox' = <<>> /\ Commanded /\ ~Commanded'
    BY <1>1, <1>2, <2>2 DEF Commanded
  <2>4. ASSUME todo' # <<>>, Head(todo').kind = "read", Head(todo').what.reg = "rail"
        PROVE  rail' = Head(todo').what.page
    <3>1. Len(todo) # 1 /\ Head(todo') = Plan[Done + 2] /\ Done + 2 \in 1..Len(Plan)
      BY <1>7, <2>4
    <3>2. PICK p \in 1..Len(Plan) : p = Done + 2
      BY <3>1
    <3>3. Plan[p].kind = "read" /\ Plan[p].what.reg = "rail" =>
            Plan[p - 1] = Axi!Op("write", Plan[p].what)
      BY <1>4, OpInPlan
    <3>4. Head(todo) = Axi!Op("write", Head(todo').what)
      <4>1. p - 1 = Done + 1
        <5> HIDE DEF Done
        <5>. QED
          BY <1>3, <3>2
      <4>. QED
        BY <1>3, <2>4, <3>1, <3>2, <3>3, <4>1
    <3>5. Head(todo).kind = "write" /\ Head(todo).what = Head(todo').what
      BY <3>4 DEF Axi!Op
    <3>6. rail = Head(todo).what.page
      BY <1>2, <2>2, <2>3, <3>5 DEF AxiIInv, InStep
    <3>. QED
      BY <1>2, <3>5, <3>6
  <2>5. Selected' => page' = connector'
    <3>1. CASE Len(todo) = 1
      <4>1. Head(todo).kind = "select"
        BY <1>3, <3>1
      <4>2. page = connector
        BY <1>2, <2>2, <2>3, <4>1 DEF AxiIInv, InStep
      <4>. QED
        BY <1>1, <1>2, <4>2
    <3>2. CASE Len(todo) # 1
      <4>1. Selected' => Selected
        BY <1>5, <3>2 DEF Selected
      <4>. QED
        BY <1>1, <1>2, <2>2, <4>1 DEF AxiIInv, InStep
    <3>. QED
      BY <3>1, <3>2
  <2>. QED
    BY <2>3, <2>4, <2>5 DEF InStep
<1>12. Turns'
  BY <1>1 DEF AxiIInv, Turns, Axi!Connectors
<1>13. Settling'
  <2>1. CASE Done = 0
    <3>1. ~selected /\ Head(todo).kind # "select" /\ Opening
      BY <1>3, <2>1 DEF AxiIInv, Planned
    <3>2. ~selected'
      BY <1>1, <3>1
    <3>. QED
      BY <3>2 DEF Settling, Selected
  <2>2. CASE Done # 0
    <3>1. Now = 2
      BY <1>2, <1>6, <2>2 DEF Now
    <3> HIDE DEF Done
    <3>. QED
      BY <1>1, <1>2, <1>5, <1>6, <1>7, <3>1, SettlingAdvances
  <2>. QED
    BY <2>1, <2>2
<1>. QED
  BY <1>7, <1>8, <1>9, <1>10, <1>11, <1>12, <1>13 DEF AxiIInv

(* A plan ends with the selection, whichever connector is due.             *)
PlanTyped == connector \in Axi!Connectors /\ selected \in BOOLEAN
PlanEnd ==
  /\ Len(Plan) = Before + (IF selected THEN 3 ELSE 2)
  /\ Plan[Len(Plan)] = Axi!Op("select", Axi!Nothing)

LEMMA PlanEnds == PlanTyped => PlanEnd
BY PlanIs DEF PlanTyped, PlanEnd

LEMMA NextPlanEnds == PlanTyped' => PlanEnd'
BY PlanEnds, PTL

(* When a value has been read there is nothing left to read, and the value *)
(* is that of the register.                                                *)
LEMMA ReadIs ==
  ASSUME AxiIInv, Axi!Take, part = "memory", Axi!LongEnough(Head(outbox))
  PROVE  /\ Head(todo).kind = "read" /\ Len(todo) # 1 /\ Done # 0 /\ Done \in Nat
         /\ Opening <=> Head(todo).what = Axi!Model
         /\ ~misled => inbox' = <<>> /\ outbox' = <<>>
         /\ ~misled /\ ~Opening => /\ Head(outbox).value = memory /\ memory.reg = Head(todo).what.reg
                        /\ memory.page = Head(todo).what.page
         /\ Head(outbox).value \in Labels /\ Head(todo).what \in Labels
<1>1. /\ asked /\ outbox # <<>> /\ todo # <<>> /\ open /\ inbox' = inbox
      /\ outbox \in Seq(Answers) /\ Len(outbox) \in Nat \ {0} /\ Head(outbox) = outbox[1]
      /\ Head(outbox) \in Answers /\ DOMAIN outbox = 1..Len(outbox)
      /\ Len(outbox) = 1 => outbox' = <<>>
      /\ ~misled /\ ~Opening => inbox' = <<>> /\ outbox' = <<>> /\ Commanded
  BY TakeIs
<1>2. Head(todo).kind = "read"
  BY <1>1 DEF AxiIInv, Planned
<1>3. /\ Done \in Nat
      /\ Head(todo).kind = "setup" <=> Done = 0
      /\ Head(todo).kind = "select" <=> Len(todo) = 1
      /\ Head(todo).what = Axi!Model <=> Done = 1
      /\ Opening <=> Done < 2
      /\ Head(todo) \in Operations
  BY <1>1, HeadIs DEF AxiIInv
<1>4. Done # 0 /\ Len(todo) # 1
  BY <1>2, <1>3
<1>5. Opening <=> Head(todo).what = Axi!Model
  <2> HIDE DEF Done
  <2>. QED
    BY <1>3, <1>4
<1>6. ASSUME ~misled PROVE inbox' = <<>> /\ outbox' = <<>>
  <2>1. CASE Opening
    <3>1. Caught = 3
      BY <1>4 DEF Caught
    <3>2. outbox[1].len >= 7
      BY <1>1, <1>5, <2>1 DEF Axi!LongEnough
    <3>3. 1 \in DOMAIN outbox /\ 1 + Caught > 3
      BY <1>1, <3>1
    <3>4. inbox = <<>> /\ 1 = Len(outbox)
      <4>1. outbox[1].len \in Int
        BY <1>1 DEF Answers
      <4>2. \A x \in Int : x >= 7 => ~(x < 7)
        OBVIOUS
      <4>3. ~(outbox[1].len < 7)
        BY <3>2, <4>1, <4>2
      <4>. QED
        BY <1>6, <2>1, <3>3, <4>3 DEF AxiIInv, CatchingUp
    <3>. QED
      BY <1>1, <3>4
  <2>2. CASE ~Opening
    BY <1>1, <1>6, <2>2
  <2>. QED
    BY <2>1, <2>2
<1>7. ASSUME ~Opening, ~misled
      PROVE  /\ Head(outbox).value = memory /\ memory.reg = Head(todo).what.reg
             /\ memory.page = Head(todo).what.page
  BY <1>1, <1>2, <1>7 DEF AxiIInv, InStep
<1>8. Head(outbox).value \in Labels /\ Head(todo).what \in Labels
  BY <1>1, <1>3 DEF Answers, Operations
<1>. QED
  BY <1>2, <1>3, <1>4, <1>5, <1>6, <1>7, <1>8

(* What every reading does, whichever register was read.                   *)
LEMMA ReadAdvances ==
  ASSUME AxiIInv, Axi!Take, part = "memory", Axi!LongEnough(Head(outbox)),
         todo' = Tail(todo), part' = "command", asked' = FALSE, open' = open, misled' = misled,
         selected' = selected, connector' = connector \/ Len(todo') = 1,
         Len(Plan') = Len(Plan), \A k \in (Done + 2)..Len(Plan) : Plan'[k] = Plan[k]
  PROVE  Planned' /\ todo' \in Seq(Operations) /\ CatchingUp' /\ InStep' /\ Settling'
<1>1. /\ Head(todo).kind = "read" /\ Len(todo) # 1 /\ Done # 0 /\ Done \in Nat
      /\ ~misled => inbox' = <<>> /\ outbox' = <<>>
  BY ReadIs
<1>2. outbox # <<>> /\ todo # <<>> /\ page' = page /\ rail' = rail /\ since' = since
  BY TakeIs
<1>3. /\ Planned' /\ todo' \in Seq(Operations)
      /\ todo' # <<>> /\ Done' = Done + 1 /\ Len(todo') = Len(todo) - 1
      /\ Head(todo') = Plan[Done + 2] /\ Done + 2 \in 1..Len(Plan) /\ ~Opening'
  BY <1>1, <1>2, Advances DEF AxiIInv
<1>4. CatchingUp'
  BY <1>3 DEF CatchingUp
<1>5. ~(Head(todo').kind = "read" /\ Head(todo').what.reg = "rail")
  <2>1. SUFFICES ASSUME Head(todo').kind = "read", Head(todo').what.reg = "rail" PROVE FALSE
    OBVIOUS
  <2>2. PICK p \in 1..Len(Plan) : p = Done + 2
    BY <1>3
  <2>3. Plan[p - 1] = Axi!Op("write", Plan[p].what)
    <3>1. Plan[p].kind = "read" /\ Plan[p].what.reg = "rail"
      BY <1>3, <2>1, <2>2
    <3>. QED
      BY <3>1, OpInPlan DEF AxiIInv, AxiTypeOK
  <2>4. Head(todo) = Plan[Done + 1]
    BY <1>2, HeadIs DEF AxiIInv
  <2>5. p - 1 = Done + 1
    <3> HIDE DEF Done
    <3>. QED
      BY <1>1, <2>2
  <2>. QED
    BY <1>1, <2>3, <2>4, <2>5 DEF Axi!Op
<1>6. ~misled /\ Selected' => page' = connector'
  <2>1. CASE connector' = connector
    <3>1. Selected' => Selected
      BY <1>1 DEF Selected
    <3>2. Selected => open /\ ~Opening
      BY DEF Selected, AxiIInv, Planned
    <3>. QED
      BY <1>2, <2>1, <3>1, <3>2 DEF AxiIInv, InStep
  <2>2. CASE Len(todo') = 1
    BY <2>2 DEF Selected
  <2>. QED
    BY <2>1, <2>2
<1>7. InStep'
  <2>1. ~misled => ~Commanded'
    BY <1>1 DEF Commanded
  <2>. QED
    BY <1>1, <1>5, <1>6, <2>1 DEF InStep
<1>8. Settling'
  <2>1. Now = 3
    BY <1>2 DEF Now
  <2> HIDE DEF Done
  <2>. QED
    BY <1>1, <1>2, <1>3, <2>1, SettlingAdvances
<1>. QED
  BY <1>3, <1>4, <1>7, <1>8

(* A reading of any register but a connector's.                            *)
LEMMA ReadOtherKeeps ==
  ASSUME AxiIInv, Axi!Take, part = "memory", Axi!LongEnough(Head(outbox)),
         Axi!ReadDone(Head(outbox).value),
         Head(todo).what.reg # "connector"
  PROVE  AxiIInv'
<1> DEFINE v == Head(outbox).value
           label == Head(todo).what
<1>1. /\ todo' = Tail(todo) /\ part' = "command" /\ asked' = FALSE /\ polls' = 0 /\ open' = open
      /\ values' = IF label = Axi!Model THEN values ELSE values \cup {[label |-> label, value |-> v]}
      /\ connector' = connector /\ selected' = selected /\ power' = power /\ age' = age
      /\ misled' = misled
      /\ report' = report \/ report' = Returned(values', power')
  BY DEF Axi!ReadDone, Axi!Finish, Returned, Axi!connectors
<1>2. /\ Len(todo) # 1 /\ Done # 0 /\ Done \in Nat /\ (Opening <=> label = Axi!Model)
      /\ ~misled /\ ~Opening => v = memory /\ memory.reg = label.reg /\ memory.page = label.page
      /\ v \in Labels /\ label \in Labels
  BY ReadIs
<1>3. Plan' = Plan
  BY <1>1, PlanStays
<1>4. Planned' /\ todo' \in Seq(Operations) /\ CatchingUp' /\ InStep' /\ Settling'
  BY <1>1, <1>3, ReadAdvances
<1>5. /\ inbox' = inbox /\ outbox' \in Seq(Answers) /\ Len(inbox') + Len(outbox') <= Held
      /\ rail' = rail /\ page' = page /\ since' = since /\ memory' = memory
  BY TakeIs
<1>6. /\ values' \subseteq Records
      /\ ~misled => \A r \in values' : r.value.reg = r.label.reg /\ r.value.page = r.label.page
  <2>1. /\ values \subseteq Records
        /\ ~misled => \A r \in values : r.value.reg = r.label.reg /\ r.value.page = r.label.page
    BY DEF AxiIInv, AxiTypeOK, OwnValues
  <2>2. CASE label = Axi!Model
    BY <1>1, <2>1, <2>2
  <2>3. CASE label # Axi!Model
    <3> DEFINE new == [label |-> label, value |-> v]
    <3>1. ~misled => v.reg = label.reg /\ v.page = label.page
      BY <1>2, <2>3
    <3> HIDE DEF v, label, Labels
    <3>2. new \in Records
      BY <1>2 DEF Records
    <3>3. ~misled => new.value.reg = new.label.reg /\ new.value.page = new.label.page
      BY <3>1
    <3>4. values' = values \cup {new}
      BY <1>1, <2>3
    <3> HIDE DEF new
    <3>. QED
      BY <2>1, <3>2, <3>3, <3>4
  <2>. QED
    BY <2>2, <2>3
<1>7. OwnValues' /\ report' \subseteq Records
  <2>1. /\ power' \in [Axi!Connectors -> Labels] /\ report \subseteq Records /\ Axi!ReadingsAreTheirOwn
        /\ ~misled => \A c \in Axi!Connectors :
             power'[c] # Axi!Nothing => power'[c].reg = "connector" /\ power'[c].page = c
    BY <1>1 DEF AxiIInv, AxiTypeOK, OwnValues
  <2>2. report' \subseteq Records /\ Axi!ReadingsAreTheirOwn'
    BY <1>1, <1>6, <2>1, ReportIsOwn
  <2>. QED
    BY <1>1, <1>6, <2>1, <2>2 DEF OwnValues, Axi!Connectors
<1>8. AxiTypeOK'
  <2>1. "command" \in Stages /\ 0 \in Nat /\ asked' \in BOOLEAN
    BY <1>1 DEF Stages
  <2> HIDE DEF Operations, Messages, Answers, Records, Stages, Labels
  <2>. QED
    BY <1>1, <1>4, <1>5, <1>6, <1>7, <2>1 DEF AxiIInv, AxiTypeOK
<1>9. Turns'
  BY <1>1 DEF AxiIInv, Turns, Axi!Connectors
<1>. QED
  BY <1>4, <1>7, <1>8, <1>9 DEF AxiIInv

(* A reading of a connector: the next one is due, and all others are one   *)
(* reading older.                                                          *)
LEMMA ReadConnectorKeeps ==
  ASSUME AxiIInv, Axi!Take, part = "memory", Axi!LongEnough(Head(outbox)),
         Axi!ReadDone(Head(outbox).value),
         Head(todo).what.reg = "connector"
  PROVE  AxiIInv'
<1> DEFINE v == Head(outbox).value
           label == Head(todo).what
<1>1. /\ todo' = Tail(todo) /\ part' = "command" /\ asked' = FALSE /\ polls' = 0 /\ open' = open
      /\ values' = values /\ selected' = selected /\ misled' = misled
      /\ power' = [power EXCEPT ![connector] = v]
      /\ age' = [c \in Axi!Connectors |-> IF c = connector THEN 0
                                      ELSE IF power[c] = Axi!Nothing THEN 0 ELSE age[c] + 1]
      /\ connector' = (connector + 1) % NumConnectors
      /\ report' = report \/ report' = Returned(values', power')
  BY DEF Axi!ReadDone, Axi!Finish, Returned
<1>2. /\ Len(todo) # 1 /\ Done # 0 /\ Done \in Nat /\ (Opening <=> label = Axi!Model)
      /\ ~misled /\ ~Opening => v = memory /\ memory.reg = label.reg /\ memory.page = label.page
      /\ v \in Labels /\ label \in Labels /\ Head(todo).kind = "read"
  BY ReadIs
<1>3. ~Opening
  BY <1>2 DEF Axi!Model
<1>4. /\ todo # <<>> /\ outbox # <<>> /\ (~misled => Commanded)
      /\ inbox' = inbox /\ outbox' \in Seq(Answers) /\ Len(inbox') + Len(outbox') <= Held
      /\ rail' = rail /\ page' = page /\ since' = since /\ memory' = memory
  BY <1>3, TakeIs
<1>5. /\ selected /\ Done = Before + 1 /\ label = Axi!Connector(connector) /\ Before \in Nat
      /\ Len(Plan) = Before + (IF selected THEN 3 ELSE 2) /\ Len(todo) = Len(Plan) - Done
  BY <1>2, <1>4, HeadIs DEF AxiIInv
<1>6. /\ connector \in Axi!Connectors /\ connector' \in Axi!Connectors /\ selected \in BOOLEAN
      /\ connector' = IF connector + 1 = NumConnectors THEN 0 ELSE connector + 1
  BY <1>1, NextConnector DEF AxiIInv, AxiTypeOK
<1>7. ASSUME ~misled PROVE v.reg = "connector" /\ v.page = connector /\ v.settled
  <2>1. v = memory /\ v.reg = "connector" /\ v.page = connector
    BY <1>2, <1>3, <1>5, <1>7 DEF Axi!Connector
  <2>2. Done = NumUnpaged + 2 * NumRails + 3
    <3>1. NumUnpaged \in Nat /\ NumRails \in Nat
      BY Constants DEF Axi!AxiConstants
    <3> HIDE DEF Done
    <3>. QED
      BY <1>5, <3>1 DEF Before
  <2>3. memory.settled
    BY <1>2, <1>4, <1>5, <1>7, <2>2 DEF AxiIInv, Settling, Selected
  <2>. QED
    BY <2>1, <2>3
<1>8. /\ Len(Plan') = Len(Plan) /\ \A k \in (Done + 2)..Len(Plan) : Plan'[k] = Plan[k]
      /\ Len(todo') = 1
  <2>1. PlanEnd /\ PlanEnd'
    BY <1>1, <1>6, PlanEnds, NextPlanEnds DEF PlanTyped, Axi!Connectors
  <2>2. Before' = Before
    BY DEF Before
  <2>3. Len(todo') = Len(todo) - 1
    <3> HIDE DEF Operations
    <3>. QED
      BY <1>1, <1>4, TakenFrom DEF AxiIInv, AxiTypeOK
  <2> HIDE DEF Done
  <2>4. Len(Plan') = Len(Plan) /\ Len(Plan) = Before + 3
    BY <1>1, <1>5, <1>6, <2>1, <2>2 DEF PlanEnd
  <2>5. (Done + 2)..Len(Plan) = {Len(Plan)} /\ Len(todo) = 2
    BY <1>5, <2>4
  <2>6. /\ Plan'[Len(Plan')] = Axi!Op("select", Axi!Nothing)
        /\ Plan[Len(Plan)] = Axi!Op("select", Axi!Nothing)
    BY <2>1 DEF PlanEnd, Axi!Op, Axi!Nothing
  <2>. QED
    BY <2>3, <2>4, <2>5, <2>6
<1>9. Planned' /\ todo' \in Seq(Operations) /\ CatchingUp' /\ InStep' /\ Settling'
  BY <1>1, <1>8, ReadAdvances
<1>10. /\ power \in [Axi!Connectors -> Labels] /\ age \in [Axi!Connectors -> Int]
       /\ power' \in [Axi!Connectors -> Labels] /\ age' \in [Axi!Connectors -> Int]
       /\ \A c \in Axi!Connectors : power'[c] = IF c = connector THEN v ELSE power[c]
  <2>1. power \in [Axi!Connectors -> Labels] /\ age \in [Axi!Connectors -> Int]
    BY DEF AxiIInv, AxiTypeOK
  <2> HIDE DEF v, Labels, Axi!Connectors
  <2>. QED
    BY <1>1, <1>2, <1>6, <2>1
<1>11. ~misled => \A c \in Axi!Connectors :
         power'[c] # Axi!Nothing => power'[c].reg = "connector" /\ power'[c].page = c
  <2> HIDE DEF v, Axi!Connectors
  <2>. QED
    BY <1>7, <1>10 DEF AxiIInv, OwnValues
<1>12. OwnValues' /\ report' \subseteq Records
  <2>1. /\ values' \subseteq Records /\ report \subseteq Records /\ Axi!ReadingsAreTheirOwn
        /\ ~misled => \A r \in values' : r.value.reg = r.label.reg /\ r.value.page = r.label.page
    BY <1>1 DEF AxiIInv, AxiTypeOK, OwnValues
  <2>2. report' \subseteq Records /\ Axi!ReadingsAreTheirOwn'
    BY <1>1, <1>10, <1>11, <2>1, ReportIsOwn
  <2>. QED
    BY <1>1, <1>11, <2>1, <2>2 DEF OwnValues, Axi!Connectors
<1>13. AxiTypeOK'
  <2>1. "command" \in Stages /\ 0 \in Nat /\ asked' \in BOOLEAN /\ Axi!Connectors' = Axi!Connectors
    BY <1>1 DEF Stages, Axi!Connectors
  <2> HIDE DEF Operations, Messages, Answers, Records, Stages, Labels, Axi!Connectors
  <2>. QED
    BY <1>1, <1>4, <1>6, <1>9, <1>10, <1>12, <2>1 DEF AxiIInv, AxiTypeOK
<1>14. Turns'
  <2>1. NumConnectors \in Nat \ {0}
    BY Constants DEF Axi!AxiConstants
  <2>2. SUFFICES ASSUME NEW c \in Axi!Connectors
                 PROVE  /\ power'[c] # Axi!Nothing =>
                             /\ power'[c].settled \/ misled
                             /\ age'[c] = IF c < connector' THEN connector' - 1 - c
                                          ELSE NumConnectors + connector' - 1 - c
                        /\ power'[c] = Axi!Nothing => age'[c] = 0
    BY <1>1 DEF Turns, Axi!Connectors
  <2>3. c \in Nat /\ c < NumConnectors /\ connector \in Nat /\ connector < NumConnectors
    BY <1>6, <2>1 DEF Axi!Connectors
  <2>4. CASE c = connector
    <3>1. power'[c] = v /\ age'[c] = 0
      BY <1>1, <1>10, <2>4
    <3>2. v.settled \/ misled
      BY <1>7
    <3>3. 0 = IF c < connector' THEN connector' - 1 - c ELSE NumConnectors + connector' - 1 - c
      BY <1>6, <2>1, <2>3, <2>4
    <3> HIDE DEF v
    <3>. QED
      BY <3>1, <3>2, <3>3
  <2>5. CASE c # connector /\ power[c] = Axi!Nothing
    BY <1>1, <1>10, <2>5
  <2>6. CASE c # connector /\ power[c] # Axi!Nothing
    <3>1. /\ power'[c] = power[c] /\ age'[c] = age[c] + 1
      BY <1>1, <1>10, <2>6
    <3>2. /\ power[c].settled \/ misled
          /\ age[c] = IF c < connector THEN connector - 1 - c ELSE NumConnectors + connector - 1 - c
      BY <2>6 DEF AxiIInv, Turns
    <3>3. (IF c < connector THEN connector - 1 - c ELSE NumConnectors + connector - 1 - c) + 1
            = IF c < connector' THEN connector' - 1 - c ELSE NumConnectors + connector' - 1 - c
      BY <1>6, <2>1, <2>3, <2>6
    <3>. QED
      BY <2>6, <3>1, <3>2, <3>3
  <2>. QED
    BY <2>4, <2>5, <2>6
<1>. QED
  BY <1>9, <1>12, <1>13, <1>14 DEF AxiIInv

LEMMA InitHolds == Axi!Init => AxiIInv
<1> SUFFICES ASSUME Axi!Init PROVE AxiIInv
  OBVIOUS
<1>1. /\ open = FALSE /\ todo = <<>> /\ part = "command" /\ asked = FALSE /\ polls = 0
      /\ connector = 0 /\ selected = FALSE
      /\ power = [c \in Axi!Connectors |-> Axi!Nothing] /\ age = [c \in Axi!Connectors |-> 0]
      /\ values = {} /\ report = {} /\ inbox = <<>> /\ outbox = <<>>
      /\ rail = 0 /\ page = 0 /\ since = 0 /\ memory = Axi!Nothing /\ misled = FALSE
  BY DEF Axi!Init
<1>2. 0 \in Axi!Connectors /\ 0 \in 0..SettleAfter /\ Held \in Nat
  BY Constants DEF Axi!AxiConstants, Axi!Connectors
<1>3. AxiTypeOK
  <2>1. /\ <<>> \in Seq(Operations) /\ <<>> \in Seq(Messages) /\ <<>> \in Seq(Answers) /\ Len(<<>>) = 0
        /\ "command" \in Stages
    BY EmptySeq DEF Stages
  <2>2. Len(inbox) + Len(outbox) <= Held
    BY <1>1, <1>2, <2>1
  <2> HIDE DEF Operations, Messages, Answers, Records, Stages, Labels, Axi!Nothing, Axi!Connectors
  <2>. QED
    BY <1>1, <1>2, <2>1, <2>2, OpsAreTyped DEF AxiTypeOK
<1>4. Planned /\ CatchingUp /\ InStep /\ Settling
  BY <1>1 DEF Planned, CatchingUp, InStep, Settling, Opening
<1>5. OwnValues /\ Turns
  BY <1>1 DEF OwnValues, Turns, Axi!ReadingsAreTheirOwn
<1>. QED
  BY <1>3, <1>4, <1>5 DEF AxiIInv

(* So every step keeps the invariant, and the invariant implies the        *)
(* properties.                                                             *)
LEMMA StepKeeps ==
  ASSUME AxiIInv, Axi!Next
  PROVE  AxiIInv'
<1>1. CASE Axi!Begin
  BY <1>1, BeginKeeps
<1>2. CASE Axi!OpenFails
  BY <1>2, FailKeeps DEF Axi!OpenFails, Axi!dongle
<1>3. CASE Axi!Send
  BY <1>3, SendKeeps
<1>4. CASE Axi!SendFails
  BY <1>4, FailKeeps DEF Axi!SendFails, Axi!dongle
<1>5. CASE Axi!TimesOut
  BY <1>5, FailKeeps DEF Axi!TimesOut, Axi!dongle
<1>6. ASSUME Axi!Take, Axi!Fail PROVE AxiIInv'
  BY <1>6, FailKeeps DEF Axi!Take
<1>7. CASE Axi!CommandDone
  <2>1. part = "command" /\ Axi!Take /\ part # "memory"
    BY <1>7 DEF Axi!CommandDone
  <2>2. CASE Axi!Fail
    BY <1>6, <2>1, <2>2
  <2>3. CASE Head(todo).kind = "setup" /\ Axi!WriteDone
    BY <2>1, <2>3, WriteKeeps
  <2>4. CASE /\ Head(todo).kind # "setup" /\ Axi!Go("status") /\ polls' = 0
             /\ UNCHANGED <<Axi!connectors, values, report>>
    BY <2>1, <2>4, GoKeeps
  <2>. QED
    BY <1>7, <2>2, <2>3, <2>4 DEF Axi!CommandDone
<1>8. CASE Axi!StatusDone
  <2>1. part = "status" /\ Axi!Take /\ part # "memory"
    BY <1>8 DEF Axi!StatusDone
  <2>2. Head(todo).kind # "setup" /\ Head(todo).kind \in Kinds /\ polls \in Nat
    <3>1. todo # <<>>
      BY <2>1, TakeIs
    <3>2. Head(todo) \in Operations
      BY <3>1, HeadIs DEF AxiIInv
    <3>. QED
      BY <2>1, <3>1, <3>2 DEF Operations, AxiIInv, Planned, AxiTypeOK
  <2>3. CASE Axi!Go("status") /\ polls' = polls + 1 /\ UNCHANGED <<Axi!connectors, values, report>>
    <3>1. polls' \in Nat
      BY <2>2, <2>3
    <3>. QED
      BY <2>1, <2>2, <2>3, <3>1, GoKeeps
  <2>4. CASE Axi!Fail
    BY <1>6, <2>1, <2>4
  <2>5. CASE Head(todo).kind \in Axi!Writes /\ Axi!WriteDone
    BY <2>1, <2>5, WriteKeeps
  <2>6. CASE /\ Head(todo).kind \notin Axi!Writes /\ Axi!Go("memory")
             /\ UNCHANGED <<polls, Axi!connectors, values, report>>
    <3>1. polls' \in Nat /\ Head(todo).kind = "read" /\ UNCHANGED <<Axi!connectors, values, report>>
      BY <2>2, <2>6 DEF Axi!Writes, Kinds
    <3>. QED
      BY <2>1, <2>2, <2>6, <3>1, GoKeeps
  <2>. QED
    BY <1>8, <2>3, <2>4, <2>5, <2>6 DEF Axi!StatusDone
<1>9. CASE Axi!MemoryDone
  <2>1. part = "memory" /\ Axi!Take
    BY <1>9 DEF Axi!MemoryDone
  <2>2. CASE Axi!Fail
    BY <1>6, <2>1, <2>2
  <2>3. CASE Axi!LongEnough(Head(outbox)) /\ Axi!ReadDone(Head(outbox).value)
    BY <2>1, <2>3, ReadOtherKeeps, ReadConnectorKeeps
  <2>. QED
    BY <1>9, <2>2, <2>3 DEF Axi!MemoryDone
<1>10. CASE Axi!Garbled
  BY <1>6, <1>10 DEF Axi!Garbled
<1>11. CASE Axi!Handle
  BY <1>11, HandleKeeps
<1>. QED
  BY <1>1, <1>2, <1>3, <1>4, <1>5, <1>7, <1>8, <1>9, <1>10, <1>11 DEF Axi!Next

LEMMA StutterKeeps ==
  ASSUME AxiIInv, UNCHANGED Axi!vars
  PROVE  AxiIInv'
<1>1. /\ open' = open /\ todo' = todo /\ part' = part /\ asked' = asked /\ polls' = polls
      /\ connector' = connector /\ selected' = selected /\ power' = power /\ age' = age
      /\ values' = values /\ report' = report /\ inbox' = inbox /\ outbox' = outbox /\ rail' = rail
      /\ page' = page /\ since' = since /\ memory' = memory /\ misled' = misled
  BY DEF Axi!vars, Axi!sampling, Axi!connectors, Axi!dongle
<1>2. Plan' = Plan /\ Done' = Done /\ Opening' = Opening /\ Selected' = Selected
  BY <1>1, SameOperation
<1>3. Now' = Now /\ Commanded' = Commanded /\ Caught' = Caught /\ Axi!Message' = Axi!Message
  BY <1>1, <1>2 DEF Now, Commanded, Caught, Axi!Message
<1>4. AxiTypeOK'
  BY <1>1 DEF AxiIInv, AxiTypeOK, Axi!Connectors
<1>5. Planned' /\ CatchingUp' /\ InStep'
  BY <1>1, <1>2, <1>3 DEF AxiIInv, Planned, CatchingUp, InStep
<1>6. OwnValues' /\ Turns'
  BY <1>1 DEF AxiIInv, OwnValues, Turns, Axi!ReadingsAreTheirOwn, Axi!Connectors
<1>7. Settling'
  <2> HIDE DEF Done
  <2>. QED
    BY <1>1, <1>2, <1>3 DEF AxiIInv, Settling, Waited
<1>. QED
  BY <1>4, <1>5, <1>6, <1>7 DEF AxiIInv

LEMMA InvImplies ==
  ASSUME AxiIInv
  PROVE  Axi!ReadingsAreTheirOwn /\ Axi!ConnectorsTakeTurns
<1>1. Axi!ReadingsAreTheirOwn
  BY DEF AxiIInv, OwnValues
<1>2. ASSUME NEW c \in Axi!Connectors
      PROVE  age[c] < NumConnectors /\ (power[c] # Axi!Nothing => power[c].settled \/ misled)
  <2>1. NumConnectors \in Nat \ {0} /\ connector \in Axi!Connectors
    BY Constants DEF Axi!AxiConstants, AxiIInv, AxiTypeOK
  <2>2. /\ power[c] # Axi!Nothing =>
             /\ power[c].settled \/ misled
             /\ age[c] = IF c < connector THEN connector - 1 - c ELSE NumConnectors + connector - 1 - c
        /\ power[c] = Axi!Nothing => age[c] = 0
    BY DEF AxiIInv, Turns
  <2>. QED
    BY <2>1, <2>2 DEF Axi!Connectors
<1>. QED
  BY <1>1, <1>2 DEF Axi!ConnectorsTakeTurns

-----------------------------------------------------------------------------
(* Whichever collector is at work, a step is one of the Corsair AXi        *)
(* collector's or leaves it alone, so what is left of a Sample, in the     *)
(* queues and on the selected pages stays as AxiIInv says.                 *)
THEOREM AxiCorrect == MCSpec => []AxiIInv
<1>1. MCInit => AxiIInv
  BY InitHolds DEF MCInit
<1>2. ASSUME AxiIInv, [MCNext]_allVars PROVE AxiIInv'
  <2>1. Axi!Next \/ UNCHANGED Axi!vars
    BY <1>2 DEF MCNext, allVars, axiVars, Axi!vars, Axi!sampling, Axi!connectors, Axi!dongle
  <2>. QED
    BY <1>2, <2>1, StepKeeps, StutterKeeps
<1>. QED
  BY <1>1, <1>2, PTL DEF MCSpec

(* Every value a Sample of the Corsair AXi collector returns was measured  *)
(* in the register and on the page it is reported for, whatever replies    *)
(* are lost, late or damaged and however many the dongle holds, unless one *)
(* left over could be taken for the model's name (misled).                 *)
THEOREM ReadingsCorrect == MCSpec => []ReadingsAreTheirOwn
<1>1. AxiIInv => ReadingsAreTheirOwn
  BY InvImplies DEF ReadingsAreTheirOwn
<1>. QED
  BY <1>1, AxiCorrect, PTL

(* No connector's reading grows older than one turn of the others, and     *)
(* each was read after its page had settled, unless an opening was misled. *)
THEOREM TurnsCorrect == MCSpec => []ConnectorsTakeTurns
<1>1. AxiIInv => ConnectorsTakeTurns
  BY InvImplies DEF ConnectorsTakeTurns
<1>. QED
  BY <1>1, AxiCorrect, PTL

-----------------------------------------------------------------------------
(* Sums over the zones, and that no energy is counted twice.               *)

(* A nonempty set of subsets of a finite set has a minimal one.            *)
LEMMA Minimal ==
  ASSUME NEW S, IsFiniteSet(S), NEW T \in SUBSET SUBSET S, T # {}
  PROVE  \E U \in T : \A V \in T : V \subseteq U => V = U
<1>1. IsWellFoundedOn(StrictSubsetOrdering(S), FiniteSubsetsOf(S))
  BY FS_StrictSubsetOrderingWellFounded
<1>2. FiniteSubsetsOf(S) = SUBSET S
  BY FS_FiniteSubsetsOfFinite
<1>3. PICK U \in T : \A V \in T : ~(<<V, U>> \in StrictSubsetOrdering(S))
  BY <1>1, <1>2, WFMin
<1>. QED
  BY <1>3 DEF StrictSubsetOrdering

(* The member that a sum over a set takes first, the sum, and the equation *)
(* it is defined by.                                                       *)
Pick(s) == CHOOSE x \in s : TRUE

Sum(f, S) == MapThenSumSet(LAMBDA i : f[i], S)

IsSum(W, f, S) == W = [s \in SUBSET S |-> IF s = {} THEN 0 ELSE f[Pick(s)] + W[s \ {Pick(s)}]]

(* A sum is the last value of the function that its equation describes.    *)
LEMMA SumIs == ASSUME NEW S, NEW f
  PROVE Sum(f, S) = (CHOOSE W : IsSum(W, f, S))[S]
BY Zenon DEF Sum, MapThenSumSet, MapThenFoldSet, IsSum, Pick

(* A nonempty set of numbers has a least one.                              *)
LEMMA Least ==
  ASSUME NEW P \in SUBSET Nat, P # {}
  PROVE  \E n \in P : \A m \in P : n <= m
<1>1. PICK top \in P : TRUE
  OBVIOUS
<1> DEFINE T == {0..m : m \in {k \in P : k <= top}}
           all == 0..top
<1>2. IsFiniteSet(all)
  BY FS_Interval
<1>3. T \in SUBSET SUBSET all /\ T # {}
  OBVIOUS
<1>4. PICK U \in T : \A V \in T : V \subseteq U => V = U
  <2> HIDE DEF T, all
  <2>. QED  BY <1>2, <1>3, Minimal
<1>5. PICK n \in P : n <= top /\ U = 0..n
  OBVIOUS
<1>6. ASSUME NEW m \in P, m < n PROVE FALSE
  <2>1. 0..m \in T /\ 0..m \subseteq U
    BY <1>5, <1>6
  <2>2. 0..m = U
    BY <1>4, <2>1
  <2>3. n \in 0..m
    BY <1>5, <2>2
  <2>. QED  BY <1>6, <2>3
<1>. QED
  BY <1>6

(* There is a function that meets the equation of a sum.                   *)
LEMMA SumExists ==
  ASSUME NEW S, IsFiniteSet(S), NEW f
  PROVE  \E W : IsSum(W, f, S)
<1> DEFINE Upto(n) == {s \in SUBSET S : Cardinality(s) <= n}
           Meets(W, n) ==
             W = [s \in Upto(n) |-> IF s = {} THEN 0 ELSE f[Pick(s)] + W[s \ {Pick(s)}]]
           Bad == {n \in Nat : ~\E W : Meets(W, n)}
<1>1. \A s \in SUBSET S : /\ IsFiniteSet(s) /\ Cardinality(s) \in Nat
                          /\ Cardinality(s) <= Cardinality(S)
                          /\ Cardinality(s) = 0 <=> s = {}
                          /\ s # {} => /\ Pick(s) \in s
                                       /\ Cardinality(s \ {Pick(s)}) = Cardinality(s) - 1
  <2> TAKE s \in SUBSET S
  <2>1. IsFiniteSet(s) /\ Cardinality(s) \in Nat /\ Cardinality(s) <= Cardinality(S)
    BY FS_Subset, FS_CardinalityType
  <2>2. Cardinality(s) = 0 <=> s = {}
    BY <2>1, FS_EmptySet
  <2>3. s # {} => Pick(s) \in s
    BY DEF Pick
  <2>4. s # {} => Cardinality(s \ {Pick(s)}) = Cardinality(s) - 1
    BY <2>1, <2>3, FS_RemoveElement
  <2>. QED  BY <2>1, <2>2, <2>3, <2>4
<1>2. Cardinality(S) \in Nat /\ Upto(Cardinality(S)) = SUBSET S
  BY <1>1
<1>3. Bad = {}
  <2>1. SUFFICES ASSUME Bad # {} PROVE FALSE
    OBVIOUS
  <2>2. PICK n \in Bad : \A m \in Bad : n <= m
    <3>1. Bad \in SUBSET Nat
      OBVIOUS
    <3> HIDE DEF Bad
    <3>. QED  BY <2>1, <3>1, Least
  <2>3. CASE n = 0
    <3> DEFINE W == [s \in Upto(0) |-> 0]
    <3>1. \A s \in Upto(0) : s = {}
      <4>1. ASSUME NEW s \in SUBSET S, Cardinality(s) <= 0 PROVE s = {}
        <5>1. Cardinality(s) \in Nat /\ (Cardinality(s) = 0 <=> s = {})
          BY <1>1
        <5>. QED  BY <4>1, <5>1
      <4>. QED  BY <4>1
    <3>2. Meets(W, 0)
      BY <3>1
    <3>. QED  BY <2>3, <3>2
  <2>4. CASE n # 0
    <3>1. n - 1 \in Nat /\ n - 1 \notin Bad
      <4>1. n \in Nat
        OBVIOUS
      <4>2. n - 1 \in Nat /\ ~(n <= n - 1)
        BY <2>4, <4>1
      <4> HIDE DEF Bad
      <4>. QED  BY <2>2, <4>2
    <3>2. PICK W : Meets(W, n - 1)
      BY <3>1
    <3> DEFINE Ext == [s \in Upto(n) |-> IF s \in Upto(n - 1) THEN W[s]
                                         ELSE f[Pick(s)] + W[s \ {Pick(s)}]]
    <3>3. ASSUME NEW s \in Upto(n), s # {}
          PROVE  s \ {Pick(s)} \in Upto(n - 1) /\ s \ {Pick(s)} \in Upto(n)
      BY <1>1, <3>1, <3>3
    <3>4. {} \in Upto(n - 1)
      <4>1. {} \in SUBSET S /\ Cardinality({}) = 0
        BY FS_EmptySet
      <4>. QED  BY <3>1, <4>1
    <3>5. ASSUME NEW s \in Upto(n)
          PROVE  Ext[s] = IF s = {} THEN 0 ELSE f[Pick(s)] + Ext[s \ {Pick(s)}]
      <4>1. CASE s = {}
        BY <3>2, <3>4, <4>1
      <4>2. CASE s # {}
        <5>1. Ext[s \ {Pick(s)}] = W[s \ {Pick(s)}]
          BY <3>3, <4>2
        <5>2. CASE s \in Upto(n - 1)
          <6>1. W[s] = f[Pick(s)] + W[s \ {Pick(s)}]
            BY <3>2, <4>2, <5>2
          <6>. QED  BY <4>2, <5>1, <5>2, <6>1
        <5>3. CASE s \notin Upto(n - 1)
          BY <4>2, <5>1, <5>3
        <5>. QED  BY <5>2, <5>3
      <4>. QED  BY <4>1, <4>2
    <3>6. Ext = [s \in Upto(n) |-> Ext[s]]
      OBVIOUS
    <3>7. Meets(Ext, n)
      <4> HIDE DEF Ext, Upto
      <4>. QED  BY <3>5, <3>6
    <3>. QED  BY <2>2, <3>7
  <2>. QED  BY <2>3, <2>4
<1>4. PICK W : Meets(W, Cardinality(S))
  BY <1>2, <1>3
<1>. QED
  BY <1>2, <1>4 DEF IsSum

(* Sums of which each part but one grows by nothing.                       *)
LEMMA SumGrows ==
  ASSUME NEW S, IsFiniteSet(S), NEW f, NEW g, NEW z, NEW d \in Nat,
         \A i \in S : f[i] \in Int /\ g[i] \in Int,
         \A i \in S : g[i] <= f[i] + (IF i = z THEN d ELSE 0)
  PROVE  Sum(f, S) \in Int /\ Sum(g, S) \in Int /\ Sum(g, S) <= Sum(f, S) + d
<1>1. PICK F : F = (CHOOSE W : IsSum(W, f, S)) /\ IsSum(F, f, S)
  BY SumExists
<1>2. PICK G : G = (CHOOSE W : IsSum(W, g, S)) /\ IsSum(G, g, S)
  BY SumExists
<1>3. Sum(f, S) = F[S] /\ Sum(g, S) = G[S]
  BY <1>1, <1>2, SumIs
<1> DEFINE Grows(s) == /\ F[s] \in Int /\ G[s] \in Int
                       /\ G[s] <= F[s] + (IF z \in s THEN d ELSE 0)
           Bad == {s \in SUBSET S : ~Grows(s)}
<1>4. Bad = {}
  <2>1. SUFFICES ASSUME Bad # {} PROVE FALSE
    OBVIOUS
  <2>2. PICK U \in Bad : \A V \in Bad : V \subseteq U => V = U
    <3>1. Bad \in SUBSET SUBSET S
      OBVIOUS
    <3> HIDE DEF Bad
    <3>. QED  BY <2>1, <3>1, Minimal
  <2>3. U \in SUBSET S /\ ~Grows(U)
    OBVIOUS
  <2>4. F[{}] = 0 /\ G[{}] = 0
    BY <1>1, <1>2 DEF IsSum
  <2>5. U # {}
    <3>1. Grows({})
      BY <2>4
    <3> HIDE DEF Grows
    <3>. QED  BY <2>3, <3>1
  <2> DEFINE p == Pick(U)
             R == U \ {p}
  <2>6. p \in U
    BY <2>5 DEF Pick
  <2>7. F[U] = f[p] + F[R] /\ G[U] = g[p] + G[R]
    BY <1>1, <1>2, <2>3, <2>5 DEF IsSum
  <2>8. Grows(R)
    BY <2>2, <2>3, <2>6
  <2>9. f[p] \in Int /\ g[p] \in Int /\ g[p] <= f[p] + (IF p = z THEN d ELSE 0)
    BY <2>3, <2>6
  <2>10. z \in U <=> z \in R \/ p = z
    BY <2>6
  <2>11. ~(z \in R /\ p = z)
    OBVIOUS
  <2>12. Grows(U)
    <3> HIDE DEF p, R, Bad
    <3>. QED  BY <2>7, <2>8, <2>9, <2>10, <2>11
  <2>. QED  BY <2>3, <2>12
<1>5. Grows(S)
  BY <1>4
<1>. QED
  BY <1>3, <1>5

(* A sum of zeros.                                                         *)
LEMMA SumOfNothing ==
  ASSUME NEW S, IsFiniteSet(S), NEW f, \A i \in S : f[i] = 0
  PROVE  Sum(f, S) = 0
<1>1. PICK F : F = (CHOOSE W : IsSum(W, f, S)) /\ IsSum(F, f, S)
  BY SumExists
<1>2. Sum(f, S) = F[S]
  BY <1>1, SumIs
<1> DEFINE Bad == {s \in SUBSET S : F[s] # 0}
<1>3. Bad = {}
  <2>1. SUFFICES ASSUME Bad # {} PROVE FALSE
    OBVIOUS
  <2>2. PICK U \in Bad : \A V \in Bad : V \subseteq U => V = U
    <3>1. Bad \in SUBSET SUBSET S
      OBVIOUS
    <3> HIDE DEF Bad
    <3>. QED  BY <2>1, <3>1, Minimal
  <2>3. U \in SUBSET S /\ F[U] # 0 /\ F[{}] = 0
    BY <1>1 DEF IsSum
  <2>4. Pick(U) \in U
    BY <2>3 DEF Pick
  <2>5. F[U] = f[Pick(U)] + F[U \ {Pick(U)}]
    BY <1>1, <2>3 DEF IsSum
  <2>6. F[U \ {Pick(U)}] = 0
    BY <2>2, <2>4
  <2>. QED  BY <2>3, <2>4, <2>5, <2>6
<1>. QED
  BY <1>2, <1>3

-----------------------------------------------------------------------------
(* Energy that a zone's readings have accounted for, or that one of them,  *)
(* or the next, will.                                                      *)
PowerZones == {i \in FindZones : Kind(i) = "power"}

(* What an attempt that has read the zone, and not yet compared, found     *)
(* used.                                                                   *)
InHand(i) ==
  IF \E a \in Attempts : Holds(a, i)
  THEN held[CHOOSE a \in Attempts : Holds(a, i)].used ELSE 0

(* What was used in a zone: of the readings made, in hand, and since then. *)
Account == [i \in FindZones |-> used[i] + InHand(i) + spent[i]]

(* The zones counted for power account for no more than was used: what     *)
(* every step keeps, and what the readings alone would not keep.           *)
AccountsAddUp == Sum(Account, PowerZones) <= total

(* Zones counted for power are few, and no part is in two of them.         *)
LEMMA PowerZonesFinite ==
  /\ IsFiniteSet(PowerZones) /\ PowerZones \subseteq FindZones
  /\ \A i, j \in PowerZones : i # j => Dirs[i].parts \cap Dirs[j].parts = {}
<1>1. PowerZones \subseteq FindZones /\ PowerZones \subseteq DOMAIN Dirs
  BY DEF PowerZones, FindZones
<1>2. IsFiniteSet(DOMAIN Dirs)
  BY RaplConstants DEF RaplConstants
<1>3. IsFiniteSet(PowerZones)
  BY <1>1, <1>2, FS_Subset
<1>4. ASSUME NEW i \in PowerZones, NEW j \in PowerZones, i # j
      PROVE  Dirs[i].parts \cap Dirs[j].parts = {}
  <2>1. {Dirs[i].domain, Dirs[j].domain} \subseteq {"package", "dram"}
    BY DEF PowerZones, Kind
  <2>2. Dirs[i].driver = Dirs[j].driver
    BY DEF PowerZones, FindZones
  <2>. QED  BY <1>1, <1>4, <2>1, <2>2, RaplConstants DEF RaplConstants
<1>. QED
  BY <1>1, <1>3, <1>4

(* What is on an account is a number.                                      *)
LEMMA AccountType ==
  ASSUME RaplInv, NEW i \in FindZones
  PROVE  /\ InHand(i) \in Nat /\ spent[i] \in Nat /\ used[i] \in Int
         /\ Account[i] = used[i] + InHand(i) + spent[i] /\ Account[i] \in Int
<1>1. InHand(i) \in Nat
  BY DEF InHand, RaplInv, TypeOK
<1>2. spent[i] \in Nat /\ used[i] \in Int
  BY Zone DEF RaplInv, TypeOK
<1>. QED
  BY <1>1, <1>2 DEF Account

(* A step after which no zone has more on its account, or one part more    *)
(* that was used.                                                          *)
LEMMA AccountsKept ==
  ASSUME RaplInv, RaplInv', AccountsAddUp, NEW z, NEW d \in Nat,
         \A i \in PowerZones : Account'[i] <= Account[i] + (IF i = z THEN d ELSE 0),
         total' = total + d
  PROVE  AccountsAddUp'
<1>1. \A i \in PowerZones : Account[i] \in Int
  BY AccountType, PowerZonesFinite
<1>2. \A i \in PowerZones : Account'[i] \in Int
  <2>1. ASSUME NEW i \in FindZones PROVE Account'[i] \in Int
    <3>1. InHand(i)' \in Nat
      BY DEF InHand, RaplInv, TypeOK
    <3>2. spent'[i] \in Nat /\ used'[i] \in Int
      BY Zone DEF RaplInv, TypeOK
    <3>. QED  BY <3>1, <3>2 DEF Account
  <2>. QED  BY <2>1, PowerZonesFinite
<1>3. /\ Sum(Account, PowerZones) \in Int /\ Sum(Account', PowerZones) \in Int
      /\ Sum(Account', PowerZones) <= Sum(Account, PowerZones) + d
  BY <1>1, <1>2, PowerZonesFinite, SumGrows
<1>4. total \in Nat
  BY DEF RaplInv, TypeOK
<1>. QED
  BY <1>3, <1>4 DEF AccountsAddUp

(* One attempt at most has something of a zone in hand.                    *)
LEMMA InHandIs ==
  ASSUME RaplInv, NEW i \in FindZones
  PROVE  /\ \A a \in Attempts : Holds(a, i) => InHand(i) = held[a].used
         /\ (\A a \in Attempts : ~Holds(a, i)) => InHand(i) = 0
<1>1. ASSUME NEW a \in Attempts, NEW b \in Attempts, Holds(a, i), Holds(b, i) PROVE a = b
  BY <1>1 DEF RaplInv, OneAtWork, Holds
<1>. QED
  BY <1>1 DEF InHand

(* What is in hand and since then stays, when the attempts hold the same.  *)
LEMMA SameHolds ==
  ASSUME RaplInv, NEW i \in FindZones, held' = held,
         \A a \in Attempts : (phase'[a] = "stamp") <=> (phase[a] = "stamp")
  PROVE  InHand(i)' = InHand(i)
BY DEF InHand, Holds

(* Every step keeps the accounts.                                          *)
LEMMA AccountsStep ==
  ASSUME RaplInv, RaplInv', AccountsAddUp, [Next]_vars
  PROVE  AccountsAddUp'
<1>1. \A i \in PowerZones : i \in FindZones /\ i \in DOMAIN Dirs
  BY PowerZonesFinite, Zone
<1>2. \A i \in FindZones : /\ InHand(i) \in Nat /\ spent[i] \in Nat /\ used[i] \in Int
                           /\ Account[i] = used[i] + InHand(i) + spent[i]
  BY AccountType
<1>3. \A i \in FindZones : Account'[i] = used'[i] + InHand(i)' + spent'[i]
  BY DEF Account
<1>4. ASSUME total' = total, \A i \in PowerZones : Account'[i] <= Account[i]
      PROVE  AccountsAddUp'
  <2>1. \A i \in PowerZones : Account[i] \in Int
    BY <1>1, AccountType
  <2>2. \A i \in PowerZones : Account'[i] <= Account[i] + (IF i = 0 THEN 0 ELSE 0)
    BY <1>4, <2>1
  <2>3. total' = total + 0
    BY <1>4 DEF RaplInv, TypeOK
  <2>. QED  BY <2>2, <2>3, AccountsKept
<1>5. ASSUME total' = total, used' = used, spent' = spent, held' = held,
             \A a \in Attempts : (phase'[a] = "stamp") <=> (phase[a] = "stamp")
      PROVE  AccountsAddUp'
  <2>1. \A i \in PowerZones : Account'[i] = Account[i]
    BY <1>1, <1>2, <1>3, <1>5, SameHolds
  <2>2. \A i \in PowerZones : Account[i] \in Int
    BY <1>1, AccountType
  <2>3. \A i \in PowerZones : Account'[i] <= Account[i]
    BY <2>1, <2>2
  <2>. QED  BY <1>4, <1>5, <2>3
<1>6. CASE Tick
  BY <1>5, <1>6 DEF Tick, history
<1>7. ASSUME NEW p \in Parts, Use(p) PROVE AccountsAddUp'
  <2> DEFINE z == CHOOSE i \in PowerZones : p \in Dirs[i].parts
  <2>1. \A i \in PowerZones : p \in Dirs[i].parts => i = z
    BY PowerZonesFinite
  <2>2. ASSUME NEW i \in PowerZones PROVE Account'[i] <= Account[i] + (IF i = z THEN 1 ELSE 0)
    <3>1. InHand(i)' = InHand(i)
      BY <1>1, <1>7, SameHolds DEF Use
    <3>2. used'[i] = used[i]
      BY <1>7 DEF Use, history
    <3>3. spent'[i] = IF p \in Dirs[i].parts THEN spent[i] + 1 ELSE spent[i]
      BY <1>1, <1>7 DEF Use
    <3>4. spent'[i] <= spent[i] + (IF i = z THEN 1 ELSE 0)
      BY <1>1, <1>2, <2>1, <3>3
    <3>5. spent'[i] \in Int
      BY <1>1, <1>2, <3>3
    <3> HIDE DEF z
    <3>. QED  BY <1>1, <1>2, <1>3, <3>1, <3>2, <3>4, <3>5
  <2>3. total' = total + 1
    BY <1>7 DEF Use
  <2> HIDE DEF z
  <2>. QED  BY <2>2, <2>3, AccountsKept
<1>8. ASSUME NEW i \in FindZones, Restart(i) PROVE AccountsAddUp'
  BY <1>5, <1>8 DEF Restart
<1>9. ASSUME NEW a \in Attempts, Lock(a) PROVE AccountsAddUp'
  BY <1>5, <1>9 DEF Lock, hardware, history, RaplInv, TypeOK
<1>10. ASSUME NEW a \in Attempts, Unlock(a) PROVE AccountsAddUp'
  BY <1>5, <1>10 DEF Unlock, hardware, history, RaplInv, TypeOK
<1>11. ASSUME NEW b \in Attempts, Stamp(b) PROVE AccountsAddUp'
  <2> DEFINE z == held[b].zone
  <2>1. z \in FindZones /\ Holds(b, z) /\ phase[b] = "stamp" /\ held[b].used \in Nat
    BY <1>11 DEF Stamp, Holds, RaplInv, OneAtWork, TypeOK
  <2>2. \A a \in Attempts : phase'[a] # "stamp"
    <3>1. \A a \in Attempts \ {b} : phase[a] = "idle"
      BY <2>1 DEF RaplInv, OneAtWork
    <3>. QED  BY <1>11, <3>1 DEF Stamp, RaplInv, TypeOK
  <2>3. ASSUME NEW i \in PowerZones PROVE Account'[i] <= Account[i]
    <3>1. InHand(i)' = 0
      BY <2>2 DEF InHand, Holds
    <3>2. spent'[i] = spent[i]
      BY <1>11 DEF Stamp, hardware
    <3>3. CASE i = z
      <4>1. InHand(i) = held[b].used
        BY <2>1, <3>3, InHandIs
      <4>2. used'[i] \in {used[i], used[i] + held[b].used}
        BY <1>1, <1>11, <3>3 DEF Stamp, RaplInv, TypeOK
      <4>. QED  BY <1>1, <1>2, <1>3, <2>1, <3>1, <3>2, <4>1, <4>2
    <3>4. CASE i # z
      <4>1. used'[i] = used[i]
        BY <1>1, <1>11, <3>4 DEF Stamp, RaplInv, TypeOK
      <4>. QED  BY <1>1, <1>2, <1>3, <3>1, <3>2, <4>1
    <3>. QED  BY <3>3, <3>4
  <2>4. total' = total
    BY <1>11 DEF Stamp, hardware
  <2>. QED  BY <1>4, <2>3, <2>4
<1>12. ASSUME NEW b \in Attempts, NEW z \in FindZones, Read(b, z) PROVE AccountsAddUp'
  <2>1. \A a \in Attempts \ {b} : phase[a] = "idle"
    BY <1>12 DEF Read, RaplInv, OneAtWork
  <2>2. /\ held'[b] = [zone |-> z, energy |-> counter[z], used |-> spent[z]]
        /\ phase'[b] = "stamp" /\ phase[b] = "zones"
        /\ \A a \in Attempts \ {b} : phase'[a] = phase[a]
    BY <1>12 DEF Read, RaplInv, TypeOK
  <2>3. \A a \in Attempts, i \in FindZones : ~Holds(a, i) /\ (Holds(a, i)' <=> a = b /\ i = z)
    BY <2>1, <2>2 DEF Holds
  <2>4. ASSUME NEW i \in PowerZones PROVE Account'[i] <= Account[i]
    <3>1. InHand(i) = 0
      BY <1>1, <2>3, InHandIs
    <3>2. used'[i] = used[i]
      BY <1>12 DEF Read, history
    <3>3. CASE i = z
      <4>1. Holds(b, i)'
        BY <2>3, <3>3
      <4>2. InHand(i)' = held'[b].used
        BY <2>3, <3>3 DEF InHand
      <4>3. spent'[i] = 0
        BY <1>1, <1>12, <3>3 DEF Read, RaplInv, TypeOK
      <4>. QED  BY <1>1, <1>2, <1>3, <2>2, <3>1, <3>2, <3>3, <4>2, <4>3
    <3>4. CASE i # z
      <4>1. InHand(i)' = 0
        BY <1>1, <2>3, <3>4 DEF InHand
      <4>2. spent'[i] = spent[i]
        BY <1>1, <1>12, <3>4 DEF Read, RaplInv, TypeOK
      <4>. QED  BY <1>1, <1>2, <1>3, <3>1, <3>2, <4>1, <4>2
    <3>. QED  BY <3>3, <3>4
  <2>5. total' = total
    BY <1>12 DEF Read
  <2>. QED  BY <1>4, <2>4, <2>5
<1>13. ASSUME NEW b \in Attempts, NEW z \in FindZones, ReadFails(b, z) PROVE AccountsAddUp'
  BY <1>5, <1>13 DEF ReadFails, hardware, history
<1>14. CASE UNCHANGED vars
  BY <1>5, <1>14 DEF vars, hardware, history
<1>. QED
  BY <1>6, <1>7, <1>8, <1>9, <1>10, <1>11, <1>12, <1>13, <1>14 DEF Next

(* The accounts start empty.                                               *)
LEMMA AccountsInit ==
  ASSUME Init
  PROVE  AccountsAddUp
<1> DEFINE zero == [i \in FindZones |-> 0]
<1>1. \A i \in PowerZones : Account[i] = 0 /\ zero[i] = 0
  <2> TAKE i \in PowerZones
  <2>1. i \in FindZones /\ i \in DOMAIN Dirs
    BY PowerZonesFinite, Zone
  <2>2. InHand(i) = 0 /\ used[i] = 0 /\ spent[i] = 0
    BY <2>1 DEF Init, InHand, Holds
  <2>. QED  BY <2>1, <2>2 DEF Account
<1>2. Sum(Account, PowerZones) = 0
  BY <1>1, PowerZonesFinite, SumOfNothing
<1>. QED
  BY <1>2 DEF AccountsAddUp, Init

(* The zones whose watts the collector adds up (raplCollector's power      *)
(* readings) have together reported no more energy than was used, while no *)
(* zone has lost any: no energy is in two zones' power, whatever the       *)
(* counters, and in whatever order overlapping attempts read, compare and  *)
(* fail.                                                                   *)
THEOREM PowerIsCountedOnce == Spec => []PowerAddsUp
<1>1. RaplInv /\ AccountsAddUp => PowerAddsUp
  <2> SUFFICES ASSUME RaplInv, AccountsAddUp, lost = {}
               PROVE  Sum(reported, PowerZones) <= total
    BY Zenon DEF PowerAddsUp, Sum, PowerZones
  <2>1. \A i \in PowerZones : i \in FindZones /\ reported[i] = used[i]
    BY PowerZonesFinite DEF RaplInv, EnergyIsAccounted
  <2>2. \A i \in PowerZones : /\ Account[i] \in Int /\ reported[i] \in Int
                              /\ reported[i] <= Account[i] + (IF i = 0 THEN 0 ELSE 0)
    BY <2>1, AccountType
  <2>3. /\ Sum(Account, PowerZones) \in Int /\ Sum(reported, PowerZones) \in Int
        /\ Sum(reported, PowerZones) <= Sum(Account, PowerZones) + 0
    BY <2>2, PowerZonesFinite, SumGrows
  <2>4. total \in Nat
    BY DEF RaplInv, TypeOK
  <2>. QED  BY <2>3, <2>4 DEF AccountsAddUp
<1>2. Init => AccountsAddUp
  BY AccountsInit
<1>3. RaplInv /\ RaplInv' /\ AccountsAddUp /\ [Next]_vars => AccountsAddUp'
  BY AccountsStep
<1>. QED
  BY <1>1, <1>2, <1>3, RaplCorrect, PTL DEF Spec

-----------------------------------------------------------------------------
(* The words of the Corsair AXi codec.                                     *)

(* The symbols of the sixteen halves.                                      *)
LEMMA Table ==
  /\ Codec!axiEncodeTable(0) = 85 /\ Codec!axiEncodeTable(1) = 86 /\ Codec!axiEncodeTable(2) = 89 /\ Codec!axiEncodeTable(3) = 90
  /\ Codec!axiEncodeTable(4) = 101 /\ Codec!axiEncodeTable(5) = 102 /\ Codec!axiEncodeTable(6) = 105 /\ Codec!axiEncodeTable(7) = 106
  /\ Codec!axiEncodeTable(8) = 149 /\ Codec!axiEncodeTable(9) = 150 /\ Codec!axiEncodeTable(10) = 153 /\ Codec!axiEncodeTable(11) = 154
  /\ Codec!axiEncodeTable(12) = 165 /\ Codec!axiEncodeTable(13) = 166 /\ Codec!axiEncodeTable(14) = 169 /\ Codec!axiEncodeTable(15) = 170
BY DEF Codec!axiEncodeTable

(* The symbols that stand for a half of a byte.                            *)
AllSymbols == {85, 86, 89, 90, 101, 102, 105, 106, 149, 150, 153, 154, 165, 166, 169, 170}

(* The table's symbols are these.                                          *)
LEMMA SymbolsAre ==
  /\ Codec!DataSymbols = AllSymbols
  /\ \A h \in 0..15 : Codec!axiEncodeTable(h) \in AllSymbols
<1>1. \A h \in 0..15 : \/ h = 0 \/ h = 1 \/ h = 2 \/ h = 3 \/ h = 4 \/ h = 5 \/ h = 6 \/ h = 7
                       \/ h = 8 \/ h = 9 \/ h = 10 \/ h = 11 \/ h = 12 \/ h = 13 \/ h = 14 \/ h = 15
  OBVIOUS
<1>2. \A h \in 0..15 : Codec!axiEncodeTable(h) \in AllSymbols
  BY <1>1, Table DEF AllSymbols
<1>3. ASSUME NEW s \in AllSymbols PROVE \E h \in 0..15 : Codec!axiEncodeTable(h) = s
  BY Table DEF AllSymbols
<1>. QED
  BY <1>2, <1>3 DEF Codec!DataSymbols, Codec!Halves

(* Two halves have two symbols.                                            *)
LEMMA SymbolsDiffer ==
  ASSUME NEW g \in 0..15, NEW h \in 0..15, Codec!axiEncodeTable(g) = Codec!axiEncodeTable(h)
  PROVE  g = h
<1>1. \A k \in 0..15 : \/ k = 0 \/ k = 1 \/ k = 2 \/ k = 3 \/ k = 4 \/ k = 5 \/ k = 6 \/ k = 7
                       \/ k = 8 \/ k = 9 \/ k = 10 \/ k = 11 \/ k = 12 \/ k = 13 \/ k = 14 \/ k = 15
  OBVIOUS
<1>. QED
  BY <1>1, Table

(* Decoding a symbol gives the half it was made of.                        *)
LEMMA HalfOfSymbol ==
  ASSUME NEW h \in 0..15
  PROVE  Codec!HalfOf(Codec!axiEncodeTable(h)) = h
<1>1. Codec!axiEncodeTable(h) \in Codec!DataSymbols
  BY DEF Codec!DataSymbols, Codec!Halves
<1>2. \E g \in 0..15 : Codec!axiEncodeTable(h) \in {Codec!axiEncodeTable(g), Codec!HeaderSymbol(g)}
  OBVIOUS
<1>. QED
  BY <1>1, <1>2, SymbolsDiffer DEF Codec!HalfOf, Codec!Halves

(* The dongle's header.                                                    *)
LEMMA HeaderIs == Codec!HeaderSymbol(14) = 168 /\ Codec!HalfOf(168) = 14
<1>1. Codec!HeaderSymbol(14) = 168
  BY Table DEF Codec!HeaderSymbol
<1>2. 168 \notin Codec!DataSymbols
  BY SymbolsAre DEF AllSymbols
<1>3. ASSUME NEW h \in 0..15, Codec!HeaderSymbol(h) = 168, h % 2 = 0 PROVE h = 14
  <2>1. \/ h = 0 \/ h = 1 \/ h = 2 \/ h = 3 \/ h = 4 \/ h = 5 \/ h = 6 \/ h = 7
        \/ h = 8 \/ h = 9 \/ h = 10 \/ h = 11 \/ h = 12 \/ h = 13 \/ h = 14 \/ h = 15
    OBVIOUS
  <2>2. Codec!axiEncodeTable(h) - (Codec!axiEncodeTable(h) % 4) = 168
    BY <1>3 DEF Codec!HeaderSymbol
  <2>. QED  BY <1>3, <2>1, <2>2, Table
<1>4. 14 \in 0..15 /\ 14 % 2 = 0
  OBVIOUS
<1>. QED
  BY <1>1, <1>2, <1>3, <1>4 DEF Codec!HalfOf, Codec!Halves

(* A data symbol of which one bit is wrong is none.                        *)
Flip(s, bit) == IF (s \div bit) % 2 = 1 THEN s - bit ELSE s + bit

(* A symbol with one bit wrong is no symbol.                               *)
LEMMA FlippedIsNone ==
  ASSUME NEW s \in AllSymbols, NEW bit \in Codec!Bits
  PROVE  Flip(s, bit) \notin AllSymbols
BY DEF AllSymbols, Codec!Bits, Flip

(* Two bytes are sent as four symbols, lower halves first.                 *)
LEMMA BodyIs ==
  ASSUME NEW a, NEW b
  PROVE  Codec!Body(<<a, b>>) = <<Codec!axiEncodeTable(a % 16), Codec!axiEncodeTable(a \div 16),
                                  Codec!axiEncodeTable(b % 16), Codec!axiEncodeTable(b \div 16)>>
<1> DEFINE A == <<Codec!axiEncodeTable(a % 16), Codec!axiEncodeTable(a \div 16)>>
           B == <<Codec!axiEncodeTable(b % 16), Codec!axiEncodeTable(b \div 16)>>
           IsFlat(f, s) == f = [i \in 1..Len(s) |-> IF i = 1 THEN s[i] ELSE f[i - 1] \o s[i]]
<1>1. Codec!Body(<<a, b>>) = Codec!FlattenSeq(<<A, B>>)
  BY DEF Codec!Body
<1>2. Codec!FlattenSeq(<<A, B>>) = (CHOOSE f : IsFlat(f, <<A, B>>))[2]
  <2> HIDE DEF A, B
  <2>. QED  BY DEF Codec!FlattenSeq
<1>3. IsFlat([i \in 1..2 |-> IF i = 1 THEN A ELSE A \o B], <<A, B>>)
  <2> HIDE DEF A, B
  <2>. QED  OBVIOUS
<1>4. \A f : IsFlat(f, <<A, B>>) => f[2] = A \o B
  <2> HIDE DEF A, B
  <2>. QED  OBVIOUS
<1>5. Codec!Body(<<a, b>>) = A \o B
  <2> HIDE DEF A, B, IsFlat
  <2>. QED  BY <1>1, <1>2, <1>3, <1>4
<1>. QED
  BY <1>5

(* Short sequences.                                                        *)
LEMMA One ==
  ASSUME NEW S, NEW x \in S
  PROVE  <<x>> \in Seq(S) /\ Len(<<x>>) = 1 /\ <<x>>[1] = x
OBVIOUS

LEMMA Four ==
  ASSUME NEW S, NEW s \in S, NEW t \in S, NEW u \in S, NEW v \in S, NEW c, c = <<s, t, u, v>>
  PROVE  c \in Seq(S) /\ Len(c) = 4 /\ c[1] = s /\ c[2] = t /\ c[3] = u /\ c[4] = v
OBVIOUS

LEMMA Pair ==
  ASSUME NEW S, NEW s \in S, NEW t \in S
  PROVE  <<s, t>> \in Seq(S) /\ Len(<<s, t>>) = 2 /\ <<s, t>>[1] = s /\ <<s, t>>[2] = t
OBVIOUS

(* A frame of six symbols around the halves of two bytes.                  *)
IsReply(f, a, b) ==
  /\ f \in Seq(Int) /\ Len(f) = 6 /\ f[1] = 168 /\ f[6] = 0
  /\ f[2] = Codec!axiEncodeTable(a % 16) /\ f[3] = Codec!axiEncodeTable(a \div 16)
  /\ f[4] = Codec!axiEncodeTable(b % 16) /\ f[5] = Codec!axiEncodeTable(b \div 16)

(* What a byte is.                                                         *)
Byte == 0..255

(* One sequence after another.                                             *)
IsJoin(r, s, t) ==
  /\ r \in Seq(Int) /\ Len(r) = Len(s) + Len(t)
  /\ \A i \in 1..(Len(s) + Len(t)) : r[i] = IF i <= Len(s) THEN s[i] ELSE t[i - Len(s)]

(* One sequence after another is what IsJoin says.                         *)
LEMMA Joined == \A s, t \in Seq(Int) : IsJoin(s \o t, s, t)
BY ConcatProperties DEF IsJoin

(* A body between its header and the zero.                                 *)
LEMMA Framed ==
  ASSUME NEW x, Len(x) = 1, x[1] = 168, NEW z, Len(z) = 1, z[1] = 0,
         NEW body, Len(body) = 4, NEW head, IsJoin(head, x, body), NEW r, IsJoin(r, head, z)
  PROVE  /\ r \in Seq(Int) /\ Len(r) = 6 /\ r[1] = 168 /\ r[6] = 0
         /\ r[2] = body[1] /\ r[3] = body[2] /\ r[4] = body[3] /\ r[5] = body[4]
<1>1. /\ Len(head) = 5 /\ head[1] = 168
      /\ head[2] = body[1] /\ head[3] = body[2] /\ head[4] = body[3] /\ head[5] = body[4]
  BY DEF IsJoin
<1>2. /\ r \in Seq(Int) /\ Len(r) = 6 /\ r[6] = z[1] /\ r[1] = head[1] /\ r[2] = head[2]
      /\ r[3] = head[3] /\ r[4] = head[4] /\ r[5] = head[5]
  BY <1>1 DEF IsJoin
<1>. QED
  BY <1>1, <1>2

(* The reply to a register read, symbol by symbol.                         *)
LEMMA FrameIs ==
  ASSUME NEW a \in Byte, NEW b \in Byte, NEW p, p = <<a, b>>,
         NEW r, r = Codec!ReplyFrame(p)
  PROVE  IsReply(r, a, b)
<1>1. a % 16 \in 0..15 /\ a \div 16 \in 0..15 /\ b % 16 \in 0..15 /\ b \div 16 \in 0..15
  BY DEF Byte
<1>2. \A k \in 0..15 : Codec!axiEncodeTable(k) \in Int
  BY SymbolsAre DEF AllSymbols
<1> DEFINE body == Codec!Body(<<a, b>>)
           s == Codec!axiEncodeTable(a % 16)
           t == Codec!axiEncodeTable(a \div 16)
           u == Codec!axiEncodeTable(b % 16)
           v == Codec!axiEncodeTable(b \div 16)
<1>3. s \in Int /\ t \in Int /\ u \in Int /\ v \in Int
  BY <1>1, <1>2
<1>4. body = <<s, t, u, v>>
  BY BodyIs, Zenon
<1>5. Codec!ReplyFrame(<<a, b>>) = <<168>> \o body \o <<0>>
  BY HeaderIs, Zenon DEF Codec!ReplyFrame
<1> DEFINE f == Codec!ReplyFrame(<<a, b>>)
<1>6. IsReply(f, a, b) <=>
        /\ f \in Seq(Int) /\ Len(f) = 6 /\ f[1] = 168 /\ f[6] = 0
        /\ f[2] = s /\ f[3] = t /\ f[4] = u /\ f[5] = v
  BY Zenon DEF IsReply
<1> HIDE DEF s, t, u, v, body, f
<1>7. body \in Seq(Int) /\ Len(body) = 4 /\ body[1] = s /\ body[2] = t /\ body[3] = u /\ body[4] = v
  BY <1>3, <1>4, Four
<1>8. /\ f \in Seq(Int) /\ Len(f) = 6 /\ f[1] = 168 /\ f[6] = 0
      /\ f[2] = body[1] /\ f[3] = body[2] /\ f[4] = body[3] /\ f[5] = body[4]
  <2> DEFINE x == <<168>>
             z == <<0>>
  <2>1. f = x \o body \o z
    BY <1>5, Zenon DEF f
  <2>2. x \in Seq(Int) /\ Len(x) = 1 /\ x[1] = 168 /\ z \in Seq(Int) /\ Len(z) = 1 /\ z[1] = 0
    OBVIOUS
  <2> HIDE DEF x, z
  <2>3. IsJoin(x \o body, x, body)
    BY <1>7, <2>2, Joined, Zenon
  <2>4. x \o body \in Seq(Int)
    BY <2>3 DEF IsJoin
  <2>5. IsJoin(f, x \o body, z)
    BY <2>1, <2>2, <2>4, Joined, Zenon
  <2> DEFINE head == x \o body
  <2>6. IsJoin(head, x, body) /\ IsJoin(f, head, z)
    BY <2>3, <2>5
  <2> HIDE DEF head
  <2>. QED  BY <1>7, <2>2, <2>6, Framed
<1>9. IsReply(f, a, b)
  BY <1>6, <1>7, <1>8
<1>10. f = r
  BY Zenon DEF f
<1>. QED
  BY <1>9, <1>10, Zenon

(* The halves of two bytes.                                                *)
LEMMA HalvesOf ==
  ASSUME NEW a \in Byte, NEW b \in Byte
  PROVE  \E h \in [1..4 -> 0..15] :
           /\ h[1] = a % 16 /\ h[2] = a \div 16 /\ h[3] = b % 16 /\ h[4] = b \div 16
           /\ a = h[1] + 16 * h[2] /\ b = h[3] + 16 * h[4]
<1> DEFINE h == [i \in 1..4 |-> CASE i = 1 -> a % 16 [] i = 2 -> a \div 16
                                  [] i = 3 -> b % 16 [] i = 4 -> b \div 16]
<1>1. a % 16 \in 0..15 /\ a \div 16 \in 0..15 /\ b % 16 \in 0..15 /\ b \div 16 \in 0..15
  BY DEF Byte
<1>2. a = (a % 16) + 16 * (a \div 16) /\ b = (b % 16) + 16 * (b \div 16)
  BY DEF Byte
<1>3. h[1] = a % 16 /\ h[2] = a \div 16 /\ h[3] = b % 16 /\ h[4] = b \div 16
  OBVIOUS
<1>4. h \in [1..4 -> 0..15]
  BY <1>1
<1> HIDE DEF h
<1>. QED
  BY <1>2, <1>3, <1>4

(* Every word comes through, and through damage the same one or none.      *)
LEMMA FrameDecodes ==
  ASSUME NEW p \in Seq(Byte), Len(p) = 2, NEW f, IsReply(f, p[1], p[2])
  PROVE  /\ Codec!axiDecode(f) = p
         /\ \A i \in 1..Len(f), bit \in Codec!Bits :
              Codec!axiDecode(Codec!Flipped(f, i, bit)) \in {p, Codec!Error}
         /\ \A k \in 0..(Len(f) - 1) : Codec!axiDecode(SubSeq(f, 1, k)) = Codec!Error
<1>a. p[1] \in Byte /\ p[2] \in Byte
  <2>1. 1 \in 1..Len(p) /\ 2 \in 1..Len(p)
    OBVIOUS
  <2>. QED  BY <2>1, ElementOfSeq
<1>b. PICK h \in [1..4 -> 0..15] :
        /\ h[1] = p[1] % 16 /\ h[2] = p[1] \div 16 /\ h[3] = p[2] % 16 /\ h[4] = p[2] \div 16
        /\ p[1] = h[1] + 16 * h[2] /\ p[2] = h[3] + 16 * h[4]
  BY <1>a, HalvesOf
<1>c. p[1] = h[1] + 16 * h[2] /\ p[2] = h[3] + 16 * h[4]
  BY <1>b
<1>1. \A k \in 1..4 : Codec!axiEncodeTable(h[k]) \in AllSymbols /\ h[k] \in 0..15
  BY <1>b, SymbolsAre
<1>2. \A s \in AllSymbols : s \in Nat /\ s # 0
  BY DEF AllSymbols
<1>3. /\ Len(f) = 6 /\ f[1] = 168 /\ f[6] = 0 /\ DOMAIN f = 1..6
      /\ f[2] = Codec!axiEncodeTable(h[1]) /\ f[3] = Codec!axiEncodeTable(h[2])
      /\ f[4] = Codec!axiEncodeTable(h[3]) /\ f[5] = Codec!axiEncodeTable(h[4])
  BY <1>b DEF IsReply
<1>4. /\ Codec!HalfOf(f[2]) = h[1] /\ Codec!HalfOf(f[3]) = h[2]
      /\ Codec!HalfOf(f[4]) = h[3] /\ Codec!HalfOf(f[5]) = h[4]
  BY <1>1, <1>3, HalfOfSymbol
<1>5. \A i \in 2..5 : f[i] \in AllSymbols
  BY <1>1, <1>3
<1>6. f \in Seq(Int)
  BY DEF IsReply
<1>7. ASSUME NEW g \in Seq(Int), Len(g) = 6, \A i \in 2..5 : g[i] = f[i]
      PROVE  Codec!axiDecode(g) \in {p, Codec!Error}
  <2> DEFINE r == [i \in 1..((6 - 2) \div 2) |->
                     Codec!HalfOf(g[2 * i]) + 16 * Codec!HalfOf(g[2 * i + 1])]
  <2>1. Codec!axiDecode(g) \in {r, Codec!Error}
    BY <1>7 DEF Codec!axiDecode
  <2>2. (6 - 2) \div 2 = 2
    OBVIOUS
  <2>3. r = [i \in 1..2 |-> p[i]]
    <3>1. g[2 * 1] = f[2] /\ g[2 * 1 + 1] = f[3] /\ g[2 * 2] = f[4] /\ g[2 * 2 + 1] = f[5]
      BY <1>7
    <3>2. ASSUME NEW i \in 1..2
          PROVE  Codec!HalfOf(g[2 * i]) + 16 * Codec!HalfOf(g[2 * i + 1]) = p[i]
      <4>1. CASE i = 1
        BY <1>c, <1>4, <3>1, <4>1
      <4>2. CASE i = 2
        BY <1>c, <1>4, <3>1, <4>2
      <4>. QED  BY <4>1, <4>2
    <3>. QED  BY <2>2, <3>2
  <2>4. p = [i \in 1..2 |-> p[i]]
    OBVIOUS
  <2>. QED  BY <2>1, <2>3, <2>4
<1>8. Codec!axiDecode(f) = p
  <2>1. Codec!HalfOf(f[1]) \div 2 = 7
    BY <1>3, HeaderIs
  <2>2. \A i \in 2..(6 - 1) : Codec!IsData(f[i])
    BY <1>5, SymbolsAre DEF Codec!IsData
  <2>3. Codec!axiDecode(f) = [i \in 1..((6 - 2) \div 2) |->
                               Codec!HalfOf(f[2 * i]) + 16 * Codec!HalfOf(f[2 * i + 1])]
    BY <1>3, <2>1, <2>2 DEF Codec!axiDecode
  <2>4. (6 - 2) \div 2 = 2
    OBVIOUS
  <2>5. ASSUME NEW i \in 1..2
        PROVE  Codec!HalfOf(f[2 * i]) + 16 * Codec!HalfOf(f[2 * i + 1]) = p[i]
    <3>1. CASE i = 1
      BY <1>c, <1>4, <3>1
    <3>2. CASE i = 2
      BY <1>c, <1>4, <3>2
    <3>. QED  BY <3>1, <3>2
  <2>6. p = [i \in 1..2 |-> p[i]]
    OBVIOUS
  <2>. QED  BY <2>3, <2>4, <2>5, <2>6
<1>9. ASSUME NEW i \in 1..6, NEW bit \in Codec!Bits
      PROVE  Codec!axiDecode(Codec!Flipped(f, i, bit)) \in {p, Codec!Error}
  <2> DEFINE g == Codec!Flipped(f, i, bit)
  <2>1. /\ bit \in Nat \ {0}
        /\ f[i] \in Int
    BY <1>2, <1>3, <1>5 DEF Codec!Bits
  <2>2. /\ DOMAIN g = 1..6 /\ g[i] = Flip(f[i], bit)
        /\ \A j \in 1..6 \ {i} : g[j] = f[j]
    BY <1>3 DEF Codec!Flipped, Flip
  <2>4. Flip(f[i], bit) \in Int
    BY <2>1 DEF Flip
  <2>5. g \in Seq(Int) /\ Len(g) = 6
    <3>1. \A j \in 1..6 : g[j] \in Int
      <4>1. \A j \in 1..6 : f[j] \in Int
        BY <1>2, <1>3, <1>5
      <4> HIDE DEF g
      <4>. QED  BY <2>2, <2>4, <4>1
    <3>2. g = [j \in 1..6 |-> g[j]]
      BY <1>3 DEF Codec!Flipped
    <3> HIDE DEF g
    <3>. QED  BY <3>1, <3>2
  <2>6. CASE i = 1
    <3>1. Codec!axiDecode(g) \in {p, Codec!Error}
      <4> HIDE DEF g
      <4>1. \A j \in 2..5 : g[j] = f[j]
        BY <2>2, <2>6
      <4>. QED  BY <1>7, <2>5, <4>1
    <3>. QED  BY <3>1
  <2>7. CASE i \in 2..5
    <3>1. g[i] \notin AllSymbols
      <4> HIDE DEF g
      <4>. QED  BY <1>5, <2>2, <2>7, FlippedIsNone
    <3>2. i \in 2..(6 - 1) /\ ~Codec!IsData(g[i])
      <4> HIDE DEF g
      <4>. QED  BY <2>7, <3>1, SymbolsAre DEF Codec!IsData
    <3>3. Codec!axiDecode(g) = Codec!Error
      <4> HIDE DEF g
      <4>. QED  BY <2>5, <3>2 DEF Codec!axiDecode
    <3>. QED  BY <3>3
  <2>8. CASE i = 6
    <3>1. g[6] # 0
      <4> HIDE DEF g
      <4>. QED  BY <1>3, <2>2, <2>8 DEF Flip, Codec!Bits
    <3>2. Codec!axiDecode(g) = Codec!Error
      <4> HIDE DEF g
      <4>. QED  BY <2>5, <3>1 DEF Codec!axiDecode
    <3>. QED  BY <3>2
  <2>9. i = 1 \/ i \in 2..5 \/ i = 6
    OBVIOUS
  <2> HIDE DEF g
  <2>. QED  BY <2>6, <2>7, <2>8, <2>9 DEF g
<1>10. ASSUME NEW k \in 0..5 PROVE Codec!axiDecode(SubSeq(f, 1, k)) = Codec!Error
  <2>1. Len(SubSeq(f, 1, k)) = k /\ (k > 0 => SubSeq(f, 1, k)[k] = f[k])
    BY <1>3, <1>6
  <2>2. k > 0 => f[k] # 0
    <3>1. k > 0 => k = 1 \/ k \in 2..5
      OBVIOUS
    <3>. QED  BY <1>2, <1>3, <1>5, <3>1
  <2> HIDE DEF Codec!Error
  <2>. QED  BY <2>1, <2>2 DEF Codec!axiDecode
<1>11. Len(f) - 1 = 5 /\ 1..Len(f) = 1..6
  BY <1>3
<1>. QED
  BY <1>8, <1>9, <1>10, <1>11

(* PMBus LINEAR11: two's complement of five and of eleven bits.            *)
LEMMA LinearIs ==
  ASSUME NEW w \in Nat, w < 65536
  PROVE  LET e == Codec!Int16(w) \div 2048
             m == Codec!Int16(w * 32) \div 32
         IN  e \in -16..15 /\ m \in -1024..1023 /\ (e % 32) * 2048 + (m % 2048) = w
<1> DEFINE e == Codec!Int16(w) \div 2048
           m == Codec!Int16(w * 32) \div 32
<1>1. e \in -16..15 /\ (e % 32) = w \div 2048
  BY DEF Codec!Int16
<1>2. m \in -1024..1023 /\ m % 2048 = w % 2048
  BY DEF Codec!Int16
<1>3. (w % 2048) + 2048 * (w \div 2048) = w
  OBVIOUS
<1> HIDE DEF e, m
<1>4. (e % 32) * 2048 + (m % 2048) = w
  BY <1>1, <1>2, <1>3
<1>5. e \in -16..15 /\ m \in -1024..1023 /\ (e % 32) * 2048 + (m % 2048) = w
  BY <1>1, <1>2, <1>4
<1>. QED
  BY <1>5 DEF e, m

(* axiDecode and linear11 give every register's word as the number it      *)
(* stands for, and a reply that is damaged or cut short as the same or     *)
(* not at all.                                                             *)
THEOREM WordsSurvive == \A w \in Nat : w < 65536 => Codec!WordSurvives(w)
<1> SUFFICES ASSUME NEW w \in Nat, w < 65536 PROVE Codec!WordSurvives(w)
  OBVIOUS
<1> DEFINE lo == w % 256
           hi == w \div 256
           p == <<lo, hi>>
           f == Codec!ReplyFrame(p)
           e == Codec!Int16(w) \div 2048
           m == Codec!Int16(w * 32) \div 32
<1>1. lo \in Byte /\ hi \in Byte /\ lo + 256 * hi = w
  BY DEF Byte
<1>2. e \in -16..15 /\ m \in -1024..1023 /\ (e % 32) * 2048 + (m % 2048) = w
  BY LinearIs
<1>3. /\ Codec!linear11(p).exponent = Codec!Int16(p[1] + 256 * p[2]) \div 2048
      /\ Codec!linear11(p).mantissa = Codec!Int16((p[1] + 256 * p[2]) * 32) \div 32
  <2> HIDE DEF p
  <2>. QED  BY DEF Codec!linear11
<1>4. IsReply(f, lo, hi)
  <2>1. p = <<lo, hi>> /\ f = Codec!ReplyFrame(p)
    OBVIOUS
  <2> HIDE DEF lo, hi, p, f
  <2>. QED  BY <1>1, <2>1, FrameIs
<1>5. p \in Seq(Byte) /\ Len(p) = 2 /\ p[1] = lo /\ p[2] = hi
  <2> HIDE DEF lo, hi
  <2>. QED  BY <1>1, Pair
<1>6. /\ Codec!axiDecode(f) = p
      /\ \A i \in 1..Len(f), bit \in Codec!Bits :
           Codec!axiDecode(Codec!Flipped(f, i, bit)) \in {p, Codec!Error}
      /\ \A k \in 0..(Len(f) - 1) : Codec!axiDecode(SubSeq(f, 1, k)) = Codec!Error
  <2> HIDE DEF lo, hi, p, f
  <2>1. IsReply(f, p[1], p[2])
    BY <1>4, <1>5
  <2>. QED  BY <1>5, <2>1, FrameDecodes
<1>7. /\ Codec!linear11(p).exponent = e
      /\ Codec!linear11(p).mantissa = m
  <2>1. p[1] + 256 * p[2] = w
    <3> HIDE DEF lo, hi, p
    <3>. QED  BY <1>1, <1>5
  <2> HIDE DEF p
  <2>. QED  BY <1>3, <2>1
<1>8. /\ Codec!linear11(Codec!axiDecode(f)).exponent \in -16..15
      /\ Codec!linear11(Codec!axiDecode(f)).mantissa \in -1024..1023
      /\ (Codec!linear11(Codec!axiDecode(f)).exponent % 32) * 2048
           + (Codec!linear11(Codec!axiDecode(f)).mantissa % 2048) = w
  <2> HIDE DEF p, f, e, m
  <2>. QED  BY <1>2, <1>6, <1>7
<1>9. Codec!WordSurvives(w) <=>
        LET frame == Codec!ReplyFrame(p)
            value == Codec!linear11(Codec!axiDecode(frame))
        IN  /\ Codec!axiDecode(frame) = p
            /\ value.exponent \in -16..15 /\ value.mantissa \in -1024..1023
            /\ (value.exponent % 32) * 2048 + (value.mantissa % 2048) = w
            /\ \A i \in 1..Len(frame), bit \in Codec!Bits :
                 Codec!axiDecode(Codec!Flipped(frame, i, bit)) \in {p, Codec!Error}
            /\ \A k \in 0..(Len(frame) - 1) : Codec!axiDecode(SubSeq(frame, 1, k)) = Codec!Error
  BY DEF Codec!WordSurvives
<1> HIDE DEF p
<1>. QED
  BY <1>6, <1>8, <1>9

(* Every register's word that the Corsair AXi driver reads (axiDecode,     *)
(* linear11) comes back as the number it stands for, and a reply damaged   *)
(* in one bit or cut short never as another one, at every step of the      *)
(* model.                                                                  *)
THEOREM WordsAreRead == MCSpec => []WordSurvives
<1> DEFINE Inv == subject = "word" => word \in Words
<1>1. MCInit => Inv
  BY DEF MCInit
<1>2. Inv /\ [MCNext]_allVars => Inv'
  BY DEF MCNext, allVars
<1>3. Inv => WordSurvives
  <2>1. \A w \in Words : w \in Nat /\ w < 65536
    BY DEF Words
  <2>. QED  BY <2>1, WordsSurvive DEF WordSurvives
<1>. QED
  BY <1>1, <1>2, <1>3, PTL DEF MCSpec

=============================================================================
