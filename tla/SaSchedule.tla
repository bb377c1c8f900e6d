----------------------------- MODULE SaSchedule -----------------------------
(* ISO 15118-2's charging schedules: what the SECC's controller offers for  *)
(* a departure time (secc/controller/simulator.py), the profile this EV     *)
(* makes of it (evcc/controller/simulator.py) and the SECC's check of a     *)
(* profile (secc/states/iso15118_2_states.py).  Times are seconds from the  *)
(* response that carries the offer, powers are watts.                       *)
EXTENDS Integers, Sequences

Day == 86400

\* An entry of the offered PMaxSchedule; only the last one has a duration.
ScheduleEntry == [start : Nat, duration : Nat, power : Nat]
\* An entry of a ChargingProfile, which holds until the next one starts.
ProfileEntry == [start : Nat, power : Nat]
\* The check takes the entries of a profile in the order of their start.
InOrder(profile) ==
  \A i, j \in DOMAIN profile : i <= j => profile[i].start <= profile[j].start

\* The days begun until the departure, the turns of the controller's loop.
Slots(d) == (d + Day - 1) \div Day

\* get_sa_schedule_list: an entry a day, the two powers by turns; a day is
\* offered to an EV that gives no departure time.
SaScheduleList(departure) ==
  LET d == IF departure = 0 THEN Day ELSE departure
  IN [i \in 1..Slots(d) |->
       [start |-> (i - 1) * Day,
        duration |-> IF i = Slots(d) THEN d - (i - 1) * Day ELSE 0,
        power |-> IF i % 2 = 1 THEN 11000 ELSE 7000]]

\* A PMaxSchedule holds 1024 entries, but a SalesTariff only 102; the tariff
\* is made as long as the schedule, even where charging is free and it is not
\* sent, and making a longer one raises.
MaxScheduleEntries == 1024
MaxTariffEntries == 102
Encodable(schedule) ==
  Len(schedule) <= MaxScheduleEntries /\ Len(schedule) <= MaxTariffEntries

\* When an entry of a schedule ends.
EndOf(schedule, i) ==
  IF i < Len(schedule) THEN schedule[i + 1].start
  ELSE schedule[i].start + schedule[i].duration

-----------------------------------------------------------------------------
\* Mutant: the EV asks for 11 kW in every slot, whatever was offered.
OwnProfileOpen(schedule) ==
  [i \in 1..Len(schedule) |-> [start |-> schedule[i].start, power |-> 11000]]

\* process_sa_schedules_v2: the entries offered, and none after their end.
OwnProfile(schedule) ==
  LET n == Len(schedule)
  IN [i \in 1..(n + IF schedule[n].duration # 0 THEN 1 ELSE 0) |->
       IF i <= n THEN [start |-> schedule[i].start, power |-> schedule[i].power]
       ELSE [start |-> schedule[n].start + schedule[n].duration, power |-> 0]]

\* A ChargingProfile has at most 24 entries; making a longer one raises.
MaxProfileEntries == 24

-----------------------------------------------------------------------------
(* _is_charging_profile_valid.  For every entry of the schedule it looks at *)
(* the entries of the profile from an index on, until one starts after the  *)
(* schedule's entry has ended; "cached" entries at the front are skipped.   *)

\* The entries looked at, by their distance from the first that is.
Visited(profile, end, cached) ==
  { k \in 0..(Len(profile) - cached - 1) :
      \A j \in 0..k :
        \/ profile[cached + j + 1].start < end
        \/ profile[cached + j + 1].start = profile[Len(profile)].start }

\* Mutant: an entry that lasts longer than the schedule's is skipped, too.
DoneEager(profile, end, cached) ==
  { k \in Visited(profile, end, cached) :
      profile[cached + k + 1].start # profile[Len(profile)].start }

\* Those taken to end with the schedule's entry.  The end is read at the
\* distance, not at the index.
Done(profile, end, cached) ==
  { k \in Visited(profile, end, cached) :
      /\ profile[cached + k + 1].start # profile[Len(profile)].start
      /\ profile[k + 2].start <= end }

\* cached_start_idx_ev when the i-th entry of the schedule is looked at.
Cached(profile, schedule) ==
  LET C[i \in 1..Len(schedule)] ==
        IF i = 1 THEN 0
        ELSE LET before == C[i - 1]
                 done == Done(profile, EndOf(schedule, i - 1), before)
             IN before + IF done = {} THEN 0
                         ELSE 1 + CHOOSE k \in done : \A j \in done : j <= k
  IN C

ProfileValid(profile, schedule) ==
  LET cached == Cached(profile, schedule)
  IN \A i \in DOMAIN schedule :
       LET from == cached[i]
       IN \A k \in Visited(profile, EndOf(schedule, i), from) :
            profile[from + k + 1].power <= schedule[i].power

-----------------------------------------------------------------------------
\* What the check is for: no entry of the profile exceeds the power of a
\* scheduled entry while both hold.
Overlap(profile, schedule, i, j) ==
  /\ profile[i].start < EndOf(schedule, j)
  /\ i < Len(profile) => profile[i + 1].start > schedule[j].start
AdheresTo(profile, schedule, entries) ==
  \A i \in DOMAIN profile, j \in entries :
    Overlap(profile, schedule, i, j) => profile[i].power <= schedule[j].power
Adheres(profile, schedule) == AdheresTo(profile, schedule, DOMAIN schedule)

============================================================================
