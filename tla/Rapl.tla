-------------------------------- MODULE Rapl --------------------------------
(***************************************************************************)
(* The RAPL collector: energy counters of nested parts of the machine,     *)
(* which wrap and may restart, turned into power.  Attempts may overlap    *)
(* (Sampler restarts a stale one) and take turns by a mutex.               *)
(*                                                                         *)
(* Energy comes in units, time in instants; the power reported for an      *)
(* interval, times its length, is the energy it accounts for, which is     *)
(* what `reported` adds up.  When Sample returns an error there was no     *)
(* power to report.                                                        *)
(***************************************************************************)
EXTENDS Integers, FiniteSetsExt

CONSTANTS
  Parts,     \* what uses energy: cores, memory...
  Dirs,      \* powercap zones, by number: [driver, domain, parts, readable, wrap, maxRange]
  MaxWatts,  \* maxRAPLWatts
  Attempts,  \* goroutines in Sample
  MaxEnergy, MaxTime  \* bounds

Never == -1
None == "none"

ASSUME RaplConstants ==
  /\ MaxWatts \in Nat /\ None \notin Attempts
  /\ \A i \in DOMAIN Dirs :
       /\ Dirs[i].wrap \in Nat \ {0}
       /\ Dirs[i].maxRange \in {0, Dirs[i].wrap}   \* 0: not readable
  /\ IsFiniteSet(DOMAIN Dirs)
  /\ \A i, j \in DOMAIN Dirs :                     \* packages and memories are apart
       /\ i # j /\ Dirs[i].driver = Dirs[j].driver
       /\ {Dirs[i].domain, Dirs[j].domain} \subseteq {"package", "dram"}
       => Dirs[i].parts \cap Dirs[j].parts = {}

(* findZones: intel-rapl:* leaves the other drivers out, which mirror it.  *)
FindZones_All == {i \in DOMAIN Dirs : Dirs[i].readable}

FindZones == {i \in DOMAIN Dirs : Dirs[i].driver = "intel-rapl" /\ Dirs[i].readable}

(* raplMetric: only packages and memory count towards a total.             *)
Kind(i) == IF Dirs[i].domain \in {"package", "dram"} THEN "power" ELSE "power_component"

VARIABLES
  counter,   \* energy_uj of each directory
  now,
  owner,     \* who holds mu
  phase,     \* of each attempt: "idle", "zones", "stamp"
  left,      \* zones it has yet to read
  held,      \* what it has read: the zone, the energy, and the energy used since
  last       \* c.last: the previous reading of each zone

VARIABLES    \* for the properties
  total,     \* all energy used
  spent,     \* by what a zone measures, since the zone was read
  begun,     \* zones read at least once
  used,      \* between the first and the last reading of a zone
  reported,  \* accounted for by the power reported
  lost       \* zones of which an interval could not be told, see Untold

hardware == <<counter, now, total, spent>>
history == <<begun, used, reported, lost>>
vars == <<hardware, owner, phase, left, held, last, history>>

NotRead == [energy |-> 0, at |-> Never]
Nothing == [zone |-> 0, energy |-> 0, used |-> 0]

Init ==
  /\ counter \in [DOMAIN Dirs -> {0}] /\ now = 0
  /\ owner = None
  /\ phase = [a \in Attempts |-> "idle"]
  /\ left = [a \in Attempts |-> {}]
  /\ held = [a \in Attempts |-> Nothing]
  /\ last = [i \in FindZones |-> NotRead]
  /\ total = 0
  /\ spent = [i \in DOMAIN Dirs |-> 0]
  /\ used = [i \in FindZones |-> 0] /\ reported = [i \in FindZones |-> 0]
  /\ begun = {} /\ lost = {}

-----------------------------------------------------------------------------
(* The machine.                                                            *)
Tick ==
  /\ now < MaxTime
  /\ now' = now + 1
  /\ UNCHANGED <<counter, total, spent, owner, phase, left, held, last, history>>

Use(p) ==
  /\ total < MaxEnergy
  /\ total' = total + 1
  /\ counter' = [i \in DOMAIN Dirs |->
                   IF p \notin Dirs[i].parts THEN counter[i]
                   ELSE IF counter[i] + 1 = Dirs[i].wrap THEN 0 ELSE counter[i] + 1]
  /\ spent' = [i \in DOMAIN Dirs |-> IF p \in Dirs[i].parts THEN spent[i] + 1 ELSE spent[i]]
  /\ UNCHANGED <<now, owner, phase, left, held, last, history>>

(* A suspend or a driver that is loaded again: no interval over it counts. *)
Restart(i) ==
  /\ counter' = [counter EXCEPT ![i] = 0]
  /\ lost' = lost \cup {i}
  /\ UNCHANGED <<now, total, spent, owner, phase, left, held, last, begun, used, reported>>

-----------------------------------------------------------------------------
(* Sample.                                                                 *)
Free_Always == TRUE

Free == owner = None

Lock(a) ==
  /\ phase[a] = "idle" /\ Free
  /\ owner' = a
  /\ phase' = [phase EXCEPT ![a] = "zones"]
  /\ left' = [left EXCEPT ![a] = FindZones]
  /\ UNCHANGED <<hardware, held, last, history>>

Unlock(a) ==
  /\ phase[a] = "zones" /\ left[a] = {}
  /\ owner' = None
  /\ phase' = [phase EXCEPT ![a] = "idle"]
  /\ UNCHANGED <<hardware, left, held, last, history>>

(* A file that cannot be read or parsed leaves what is known of the zone   *)
(* as it is.                                                               *)
AfterFailure(i) == last

ReadFails(a, i) ==
  /\ phase[a] = "zones" /\ i \in left[a]
  /\ left' = [left EXCEPT ![a] = @ \ {i}]
  /\ last' = AfterFailure(i)
  /\ UNCHANGED <<hardware, owner, phase, held, history>>

Read(a, i) ==
  /\ phase[a] = "zones" /\ i \in left[a]
  /\ left' = [left EXCEPT ![a] = @ \ {i}]
  /\ phase' = [phase EXCEPT ![a] = "stamp"]
  /\ held' = [held EXCEPT ![a] = [zone |-> i, energy |-> counter[i], used |-> spent[i]]]
  /\ spent' = [spent EXCEPT ![i] = 0]
  /\ UNCHANGED <<counter, now, total, owner, last, history>>

(* raplWatts, times the interval's length.                                 *)
Delta(i, prev, energy) ==
  IF energy < prev THEN energy - prev + Dirs[i].maxRange ELSE energy - prev

Counts(i, prev, energy, seconds) ==
  /\ seconds > 0
  /\ energy < prev => Dirs[i].maxRange > 0
  /\ Delta(i, prev, energy) \in 0..(MaxWatts * seconds)

(* For the properties: intervals whose energy no one can tell from two     *)
(* readings, or that the collector has reason not to believe.              *)
Untold(i, prev, energy, true, seconds) ==
  \/ true >= Dirs[i].wrap
  \/ energy < prev /\ Dirs[i].maxRange = 0
  \/ seconds <= 0
  \/ true > MaxWatts * seconds

Stamp(a) ==
  /\ phase[a] = "stamp"
  /\ LET i == held[a].zone
         energy == held[a].energy
         seen == last[i].at # Never
         prev == last[i].energy
         seconds == now - last[i].at
     IN  /\ last' = [last EXCEPT ![i] = [energy |-> energy, at |-> now]]
         /\ reported' = IF seen /\ Counts(i, prev, energy, seconds)
                        THEN [reported EXCEPT ![i] = @ + Delta(i, prev, energy)] ELSE reported
         /\ begun' = begun \cup {i}
         /\ used' = IF i \in begun THEN [used EXCEPT ![i] = @ + held[a].used] ELSE used
         /\ lost' = IF seen /\ Untold(i, prev, energy, held[a].used, seconds)
                    THEN lost \cup {i} ELSE lost
  /\ held' = [held EXCEPT ![a] = Nothing]
  /\ phase' = [phase EXCEPT ![a] = "zones"]
  /\ UNCHANGED <<hardware, owner, left>>

Next ==
  \/ Tick
  \/ \E p \in Parts : Use(p)
  \/ \E i \in FindZones : Restart(i)
  \/ \E a \in Attempts :
       \/ Lock(a) \/ Unlock(a) \/ Stamp(a)
       \/ \E i \in FindZones : Read(a, i) \/ ReadFails(a, i)

Spec == Init /\ [][Next]_vars

-----------------------------------------------------------------------------
(* The power reported for a zone accounts for exactly the energy used      *)
(* between its first and its last reading: wraps are put right, intervals  *)
(* follow each other without gap or overlap, through overlapping attempts  *)
(* and files that cannot be read at times.  Excepted is a zone of which an *)
(* interval could not be told: a restarted counter, a whole turn of it     *)
(* within one interval, a wrap without max_energy_range_uj, two readings   *)
(* at one instant, or a power above maxRAPLWatts.                          *)
EnergyIsAccounted == \A i \in FindZones \ lost : reported[i] = used[i]

(* What counts as power adds up to no more than the machine has used: no   *)
(* part is counted by two zones, be it one inside the other, a mirror, or  *)
(* the whole platform (comments in findZones and raplMetric).              *)
PowerAddsUp ==
  lost = {} => MapThenSumSet(LAMBDA i : reported[i], {i \in FindZones : Kind(i) = "power"}) <= total

-----------------------------------------------------------------------------
(* The inductive invariant behind EnergyIsAccounted.                       *)

Level(i) == 0..(Dirs[i].wrap - 1)

TypeOK ==
  /\ counter \in [DOMAIN Dirs -> Nat] /\ now \in Nat
  /\ spent \in [DOMAIN Dirs -> Nat] /\ total \in Nat
  /\ owner \in Attempts \cup {None}
  /\ phase \in [Attempts -> {"idle", "zones", "stamp"}]
  /\ left \in [Attempts -> SUBSET FindZones]
  /\ held \in [Attempts -> [zone : FindZones \cup {0}, energy : Nat, used : Nat]]
  /\ last \in [FindZones -> [energy : Nat, at : Int]]
  /\ used \in [FindZones -> Int] /\ reported \in [FindZones -> Int]
  /\ begun \subseteq FindZones /\ lost \subseteq FindZones

(* A turn of the counter at most is between two readings.                  *)
Follows(i, from, energy, to) ==
  energy < Dirs[i].wrap => to = from + energy \/ to = from + energy - Dirs[i].wrap

Holds(a, i) == phase[a] = "stamp" /\ held[a].zone = i

OneAtWork ==
  \A a \in Attempts :
    /\ phase[a] # "idle" => owner = a
    /\ phase[a] = "stamp" => held[a].zone \in FindZones

InRange ==
  \A i \in FindZones :
    /\ counter[i] \in Level(i) /\ last[i].energy \in Level(i)
    /\ i \in begun <=> last[i].at # Never
    /\ \A a \in Attempts : Holds(a, i) => held[a].energy \in Level(i)

(* From the last reading to the one in hand, and from there to the counter.*)
ReadingsFollow ==
  \A i \in FindZones \ lost :
    /\ \A a \in Attempts : Holds(a, i) =>
         /\ Follows(i, held[a].energy, spent[i], counter[i])
         /\ i \in begun => Follows(i, last[i].energy, held[a].used, held[a].energy)
    /\ i \in begun /\ (\A a \in Attempts : ~Holds(a, i)) =>
         Follows(i, last[i].energy, spent[i], counter[i])

RaplInv == TypeOK /\ OneAtWork /\ InRange /\ ReadingsFollow /\ EnergyIsAccounted
=============================================================================
