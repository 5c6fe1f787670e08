--------------------------- MODULE TileMapProofs ---------------------------
(* Theorems about TileMap, for all devices, service data and time limits.   *)
EXTENDS TileMap, TLAPS

\* What the listener does in one event, or another thread in between.
LEMMA NextCases ==
    ASSUME Next
    PROVE  \/ \E d \in Device, data \in Data \cup {NoData} : Hear(d, data)
           \/ Alert \/ Add \/ Stamp \/ Compare \/ Record
           \/ Throttle \/ Renotify \/ Seen
           \/ \E d \in Device : Name(d)
           \/ ReadOldTile \/ EnterLoop \/ LeaveLoop \/ QuitLoops
           \/ Scrub
           \/ Tick
  BY DEF Next, Listener

\* The age of a stamp stays in its range when time passes.
LEMMA OlderSeen ==
    ASSUME NEW age \in SeenAge
    PROVE  Older(age, ScrubLimit + 1) \in SeenAge
  BY IntervalAssumption DEF Older, SeenAge, Future

\* The age of a counter stays in its range when time passes.
LEMMA OlderNat ==
    ASSUME NEW limit \in Nat, NEW age \in 0 .. limit
    PROVE  Older(age, limit) \in 0 .. limit
  BY DEF Older, Future

\* An offer of service data that is long enough keeps what is known of offers.
LEMMA OfferTyped ==
    ASSUME cloud \in [Device -> [data : Whole \cup {NoData}, taken : BOOLEAN]],
           lsData \in Whole, NEW taken \in BOOLEAN, Offer(lsDev, lsData, taken)
    PROVE  cloud' \in [Device -> [data : Whole \cup {NoData}, taken : BOOLEAN]]
  BY DEF Offer

\* Every state of the map is well typed (the fields of BtrLeDevProp, and what
\* the listener has heard).
THEOREM TypeCorrect == Spec => []TypeOK
<1>1. Init => TypeOK
  <2> SUFFICES ASSUME Init PROVE TypeOK
    OBVIOUS
  <2>1. entry \in [Device -> Entry \cup {NoEntry}]
    BY DEF Init
  <2>2. cloud \in [Device -> [data : Whole \cup {NoData}, taken : BOOLEAN]]
    BY DEF Init
  <2> QED
    BY <2>1, <2>2 DEF Init, TypeOK
<1>2. TypeOK /\ [Next]_vars => TypeOK'
  <2> SUFFICES ASSUME TypeOK, [Next]_vars PROVE TypeOK'
    OBVIOUS
  <2> USE IntervalAssumption, NoEntryAssumption DEF TypeOK
  <2>1. ASSUME NEW d \in Device, NEW data \in Data \cup {NoData}, Hear(d, data)
        PROVE  TypeOK'
    BY <2>1 DEF Hear
  <2>2. CASE Alert
    <3>1. lsData \notin Short => lsData \in Whole
      BY <2>2 DEF Alert, Whole
    <3>2. cloud' \in [Device -> [data : Whole \cup {NoData}, taken : BOOLEAN]]
      BY <2>2, <3>1, OfferTyped DEF Alert, TooShort
    <3> QED
      BY <2>2, <3>1, <3>2 DEF Alert, TooShort, Finished
  <2>3. CASE Add
    <3>1. ASSUME NEW age \in FreshAges
          PROVE  [data |-> lsData, hash |-> HashOf[lsData], named |-> FALSE,
                  seen |-> age, notified |-> 0] \in Entry
      BY <2>3, FreshAssumption, DataAssumption DEF Add, Entry, Whole
    <3> QED
      BY <2>3, <3>1 DEF Add
  <2>4. CASE Stamp
    <3>1. ASSUME lsDev \in Known
          PROVE  [entry[lsDev] EXCEPT !.seen = 0, !.notified = 0] \in Entry
      <4>1. entry[lsDev] \in Entry
        BY <3>1 DEF Known
      <4>2. 0 \in SeenAge /\ 0 \in 0 .. NotifyInterval
        BY DEF SeenAge
      <4> HIDE DEF TypeOK
      <4> QED
        BY <4>1, <4>2 DEF Entry
    <3>2. Stamped \in [Device -> Entry \cup {NoEntry}]
      BY <3>1 DEF Stamped
    <3> QED
      BY <2>4, <3>2 DEF Stamp, AfterStamp, Finished
  <2>5. CASE Compare
    <3>1. lsData \notin Short => lsData \in Whole
      BY <2>5 DEF Compare, Whole
    <3>2. cloud' \in [Device -> [data : Whole \cup {NoData}, taken : BOOLEAN]]
      BY <2>5, <3>1, OfferTyped DEF Compare, TooShort
    <3> QED
      BY <2>5, <3>1, <3>2 DEF Compare, TooShort, Finished
  <2>6. CASE Record
    <3>1. ASSUME lsDev \in Known, lsData \in Whole
          PROVE  [entry[lsDev] EXCEPT !.data = lsData] \in Entry
      BY <3>1 DEF Known, Entry
    <3> QED
      BY <2>6, <3>1 DEF Record, Finished
  <2>7. CASE Throttle
    BY <2>7 DEF Throttle
  <2>8. CASE Renotify
    BY <2>8 DEF Renotify, Known, Entry
  <2>9. CASE Seen
    <3>1. ASSUME lsDev \in Known
          PROVE  [entry[lsDev] EXCEPT !.seen = 0] \in Entry
      BY <3>1 DEF Known, Entry, SeenAge
    <3> QED
      BY <2>9, <3>1 DEF Seen, Finished
  <2>10. ASSUME NEW d \in Device, Name(d) PROVE TypeOK'
    <3>1. [entry[d] EXCEPT !.named = TRUE] \in Entry
      BY <2>10 DEF Name, Known, Entry
    <3> QED
      BY <2>10, <3>1 DEF Name, lsVars
  <2>11. CASE Scrub
    BY <2>11 DEF Scrub, lsVars
  <2>12. CASE Tick
    <3>1. ASSUME NEW d \in Known
          PROVE  [entry[d] EXCEPT !.seen = Older(@, ScrubLimit + 1),
                                  !.notified = Older(@, NotifyInterval)] \in Entry
      BY <3>1, OlderSeen, OlderNat DEF Known, Entry
    <3>2. entry' \in [Device -> Entry \cup {NoEntry}]
      BY <2>12, <3>1 DEF Tick
    <3> QED
      BY <2>12, <3>2 DEF Tick, lsVars
  <2>13. CASE ReadOldTile \/ EnterLoop \/ LeaveLoop \/ QuitLoops
    BY <2>13 DEF ReadOldTile, EnterLoop, LeaveLoop, QuitLoops, lsVars
  <2>14. CASE UNCHANGED vars
    BY <2>14 DEF vars, lsVars
  <2> QED
    BY <2>1, <2>2, <2>3, <2>4, <2>5, <2>6, <2>7, <2>8, <2>9, <2>10, <2>11,
       <2>12, <2>13, <2>14, NextCases
<1> QED
  BY <1>1, <1>2, PTL DEF Spec

-----------------------------------------------------------------------------
(* Steps that keep the entries but for their stamps *)

\* Nobody enters or leaves, and entries stay found and named as they are.
EntriesStay ==
    \A d \in Device :
        /\ entry'[d] = NoEntry <=> entry[d] = NoEntry
        /\ entry[d] # NoEntry => /\ entry'[d].hash = entry[d].hash
                                 /\ entry'[d].named = entry[d].named

DataStays == \A d \in Device :
                entry[d] # NoEntry => entry'[d].data = entry[d].data

LEMMA StampStays ==
    ASSUME TypeOK, Stamp
    PROVE  EntriesStay /\ DataStays
<1> SUFFICES ASSUME NEW d \in Device
             PROVE  /\ Stamped[d] = NoEntry <=> entry[d] = NoEntry
                    /\ entry[d] # NoEntry => /\ Stamped[d].hash = entry[d].hash
                                             /\ Stamped[d].named = entry[d].named
                                             /\ Stamped[d].data = entry[d].data
  BY DEF Stamp, EntriesStay, DataStays
<1>1. CASE d = lsDev /\ lsDev \in Known /\ lsSent
  <2>1. entry[d] \in Entry
    BY <1>1 DEF TypeOK, Known
  <2>2. Stamped[d] = [entry[d] EXCEPT !.seen = 0, !.notified = 0]
    BY <1>1 DEF Stamped, TypeOK
  <2>3. 0 \in SeenAge /\ 0 \in 0 .. NotifyInterval
    BY IntervalAssumption DEF SeenAge
  <2>4. Stamped[d] \in Entry
    BY <2>1, <2>2, <2>3 DEF Entry
  <2> QED
    BY <1>1, <2>1, <2>2, <2>4, NoEntryAssumption DEF Entry, Known
<1>2. CASE ~(d = lsDev /\ lsDev \in Known /\ lsSent)
  BY <1>2 DEF Stamped, TypeOK
<1> QED
  BY <1>1, <1>2

LEMMA TickStays ==
    ASSUME TypeOK, Tick
    PROVE  EntriesStay /\ DataStays
<1> SUFFICES ASSUME NEW d \in Device
             PROVE  /\ entry'[d] = NoEntry <=> entry[d] = NoEntry
                    /\ entry[d] # NoEntry => /\ entry'[d].hash = entry[d].hash
                                             /\ entry'[d].named = entry[d].named
                                             /\ entry'[d].data = entry[d].data
  BY DEF EntriesStay, DataStays
<1>1. CASE d \in Known
  <2>1. entry[d] \in Entry
    BY <1>1 DEF TypeOK, Known
  <2>2. entry'[d] = [entry[d] EXCEPT !.seen = Older(@, ScrubLimit + 1),
                                     !.notified = Older(@, NotifyInterval)]
    BY <1>1 DEF Tick
  <2>3. /\ Older(entry[d].seen, ScrubLimit + 1) \in SeenAge
        /\ Older(entry[d].notified, NotifyInterval) \in 0 .. NotifyInterval
    BY <2>1, OlderSeen, OlderNat, IntervalAssumption DEF Entry
  <2>4. entry'[d] \in Entry
    BY <2>1, <2>2, <2>3 DEF Entry
  <2> QED
    BY <1>1, <2>1, <2>2, <2>4, NoEntryAssumption DEF Entry, Known
<1>2. CASE d \notin Known
  BY <1>2 DEF Tick, Known
<1> QED
  BY <1>1, <1>2

-----------------------------------------------------------------------------
(* What the cloud took, the listener carries, and the map records. *)

\* The listener adds only devices that are not in the map.
AddsNew == lsPc \in {"alert", "add"} => lsDev \notin Known

\* From an offer to its record the listener carries what it offered.
CarriesOffer ==
    /\ lsPc = "add" => cloud[lsDev] = [data |-> lsData, taken |-> TRUE]
    /\ lsPc \in {"stampChanged", "record"} => cloud[lsDev].data = lsData

\* What the cloud took is in the map, or about to be recorded.
ToldIsRecorded ==
    \A d \in Known :
        \/ cloud[d].taken => entry[d].data = cloud[d].data
        \/ lsDev = d /\ lsPc \in {"stampChanged", "record"}

MapInv == TypeOK /\ AddsNew /\ CarriesOffer /\ ToldIsRecorded

\* The listener adds and notifies only what is new, and what the cloud took
\* of a device in the map is what the map records of it.
THEOREM MapInvariant == Spec => []MapInv
<1>1. Init => AddsNew /\ CarriesOffer /\ ToldIsRecorded
  BY DEF Init, AddsNew, CarriesOffer, ToldIsRecorded, Known
<1>2. MapInv /\ TypeOK' /\ [Next]_vars => AddsNew' /\ CarriesOffer' /\ ToldIsRecorded'
  <2> SUFFICES ASSUME MapInv, TypeOK', [Next]_vars
               PROVE  AddsNew' /\ CarriesOffer' /\ ToldIsRecorded'
    OBVIOUS
  <2> USE NoEntryAssumption DEF MapInv, AddsNew, CarriesOffer, ToldIsRecorded, Known
  <2>0. /\ lsDev \in Device
        /\ entry \in [Device -> Entry \cup {NoEntry}]
        /\ cloud \in [Device -> [data : Whole \cup {NoData}, taken : BOOLEAN]]
    BY DEF TypeOK
  <2>1. ASSUME NEW d \in Device, NEW data \in Data \cup {NoData}, Hear(d, data)
        PROVE  AddsNew' /\ CarriesOffer' /\ ToldIsRecorded'
    BY <2>0, <2>1 DEF Hear
  <2>2. CASE Alert
    BY <2>0, <2>2 DEF Alert, Offer, TooShort, Finished
  <2>3. CASE Add
    BY <2>0, <2>3 DEF Add
  <2>4. CASE Stamp
    BY <2>0, <2>4, StampStays DEF Stamp, AfterStamp, Finished, EntriesStay, DataStays
  <2>5. CASE Compare
    BY <2>0, <2>5 DEF Compare, Offer, TooShort, Finished
  <2>6. CASE Record
    BY <2>0, <2>6 DEF Record, Entry, Finished
  <2>7. CASE Throttle
    BY <2>0, <2>7 DEF Throttle
  <2>8. CASE Renotify
    BY <2>0, <2>8 DEF Renotify
  <2>9. CASE Seen
    BY <2>0, <2>9 DEF Seen, Entry, Finished
  <2>10. ASSUME NEW d \in Device, Name(d)
         PROVE  AddsNew' /\ CarriesOffer' /\ ToldIsRecorded'
    BY <2>0, <2>10 DEF Name, Entry, lsVars
  <2>11. CASE Scrub
    BY <2>0, <2>11 DEF Scrub, lsVars
  <2>12. CASE Tick
    BY <2>0, <2>12, TickStays DEF Tick, EntriesStay, DataStays, lsVars
  <2>13. CASE ReadOldTile \/ EnterLoop \/ LeaveLoop \/ QuitLoops
    BY <2>13 DEF ReadOldTile, EnterLoop, LeaveLoop, QuitLoops, lsVars
  <2>14. CASE UNCHANGED vars
    BY <2>14 DEF vars, lsVars
  <2> QED
    BY <2>1, <2>2, <2>3, <2>4, <2>5, <2>6, <2>7, <2>8, <2>9, <2>10, <2>11,
       <2>12, <2>13, <2>14, NextCases
<1> QED
  BY <1>1, <1>2, TypeCorrect, PTL DEF Spec, MapInv

\* A device enters the map only with service data the cloud has just taken
\* (add_LeDevPropToMap after a successful notifyTileInfoCloud).
THEOREM AddedIsToldCorrect == Spec => AddedIsTold
<1>1. MapInv /\ [Next]_vars =>
        [\A d \in Device :
           entry[d] = NoEntry /\ entry'[d] # NoEntry
             => cloud[d] = [data |-> entry'[d].data, taken |-> TRUE]]_vars
  <2> SUFFICES ASSUME MapInv, Next, NEW d \in Device,
                      entry[d] = NoEntry, entry'[d] # NoEntry
               PROVE  cloud[d] = [data |-> entry'[d].data, taken |-> TRUE]
    OBVIOUS
  <2>1. Add
    <3> USE DEF Known
    <3>1. ASSUME NEW e \in Device, Name(e) PROVE FALSE
      BY <3>1 DEF Name, MapInv, TypeOK
    <3>2. ~Stamp
      BY DEF Stamp, Stamped, MapInv, TypeOK
    <3>3. ~Record /\ ~Seen /\ ~Scrub /\ ~Tick
      BY DEF Record, Seen, Scrub, Tick, MapInv, TypeOK
    <3> QED
      BY <3>1, <3>2, <3>3, NextCases
         DEF Hear, Alert, Compare, Throttle, Renotify, ReadOldTile, EnterLoop, LeaveLoop, QuitLoops
  <2>2. d = lsDev
    BY <2>1 DEF Add, MapInv, TypeOK
  <2> QED
    BY <2>1, <2>2 DEF Add, MapInv, CarriesOffer, TypeOK
<1> QED
  BY <1>1, MapInvariant, PTL DEF Spec, AddedIsTold

\* What the cloud has taken of a device that stays in the map is not offered
\* to it again (the comparison with m_sericeData).
THEOREM NotToldTwiceCorrect == Spec => NotToldTwice
<1>1. MapInv /\ [Next]_vars =>
        [\A d \in Device :
           (lsPc = "compare" /\ lsPc' = "stampChanged" /\ lsDev = d)
             => cloud[d] # [data |-> lsData, taken |-> TRUE]]_vars
  <2> SUFFICES ASSUME MapInv, Next, lsPc = "compare", lsPc' = "stampChanged"
               PROVE  cloud[lsDev] # [data |-> lsData, taken |-> TRUE]
    OBVIOUS
  <2>1. Compare
    BY NextCases DEF Hear, Alert, Add, Stamp, AfterStamp, Record, Throttle, Renotify,
                     Seen, Name, ReadOldTile, EnterLoop, LeaveLoop, QuitLoops, Scrub, Tick,
                     TooShort, Finished, lsVars
  <2>2. lsDev \in Known /\ entry[lsDev].data # lsData
    BY <2>1 DEF Compare, TooShort, Finished
  <2> QED
    BY <2>2 DEF MapInv, ToldIsRecorded
<1> QED
  BY <1>1, MapInvariant, PTL DEF Spec, NotToldTwice
-----------------------------------------------------------------------------
(* The map is the table the ring looks into *)

LEMMA EntriesKeepTable ==
    ASSUME EntriesStay
    PROVE  UNCHANGED Table!table
<1>1. Known' = Known
  BY DEF EntriesStay, Known
<1>2. [d \in Known |-> entry[d].hash]' = [d \in Known |-> entry[d].hash]
  BY <1>1 DEF EntriesStay, Known
<1>3. {d \in Known : entry[d].named}' = {d \in Known : entry[d].named}
  BY <1>1 DEF EntriesStay, Known
<1> QED
  BY <1>2, <1>3 DEF Table!table

\* Whatever the listener, the scrub and the request processor do to the
\* map in between, they do what TileTable promises the ring: every step is a
\* step of the table or a stutter.
THEOREM TableRefined == Spec => IsTileTable
<1> DEFINE key == [d \in Known |-> entry[d].hash]
           named == {d \in Known : entry[d].named}
<1>1. Init => Table!TableInit
  <2> SUFFICES ASSUME Init PROVE Table!TableInit
    OBVIOUS
  <2>1. Known = {}
    BY DEF Init, Known
  <2> QED
    BY <2>1 DEF Table!TableInit
<1>2. TypeOK /\ [Next]_vars => [Table!TableNext]_(Table!table)
  <2> SUFFICES ASSUME TypeOK, [Next]_vars
               PROVE  [Table!TableNext]_(Table!table)
    OBVIOUS
  <2>0. /\ entry \in [Device -> Entry \cup {NoEntry}]
        /\ lsDev \in Device
    BY DEF TypeOK
  <2>1. CASE entry' = entry
    BY <2>1, EntriesKeepTable DEF EntriesStay
  <2>2. CASE Add
    <3>1. CASE lsDev \in Known
      <4>1. entry' = entry
        BY <2>0, <2>2, <3>1 DEF Add, Known
      <4> QED
        BY <2>1, <4>1
    <3>2. CASE lsDev \notin Known
      <4>1. PICK d \in Device : d = lsDev
        BY <2>0
      <4>2. PICK age \in FreshAges :
               entry' = [entry EXCEPT ![d] =
                           [data |-> lsData, hash |-> HashOf[lsData],
                            named |-> FALSE, seen |-> age, notified |-> 0]]
        BY <2>0, <2>2, <3>2, <4>1 DEF Add, Known
      <4>3. [data |-> lsData, hash |-> HashOf[lsData], named |-> FALSE,
             seen |-> age, notified |-> 0] \in Entry
        BY <2>2, FreshAssumption, DataAssumption, IntervalAssumption
           DEF Add, Entry, TypeOK, Whole
      <4>4. Known' = Known \cup {d} /\ d \notin Known
        BY <2>0, <3>2, <4>1, <4>2, <4>3, NoEntryAssumption DEF Known
      <4>5. PICK hash \in Hash : hash = HashOf[lsData]
        BY <2>2, DataAssumption DEF Add, TypeOK, Whole
      <4>6. key' = [e \in Known \cup {d} |-> IF e = d THEN hash ELSE key[e]]
        BY <2>0, <4>2, <4>4, <4>5
      <4>7. named' = named
        BY <2>0, <4>2, <4>4
      <4>8. Table!Enter(d, hash)
        BY <4>4, <4>6, <4>7 DEF Table!Enter
      <4> QED
        BY <4>8 DEF Table!TableNext
    <3> QED
      BY <3>1, <3>2
  <2>3. CASE Stamp
    BY <2>3, StampStays, EntriesKeepTable
  <2>4. CASE Record \/ Seen
    <3>1. lsPc = "record" => lsData \in Whole
      BY DEF TypeOK
    <3>2. 0 \in SeenAge
      BY IntervalAssumption DEF SeenAge
    <3>3. CASE entry' = entry
      BY <2>1, <3>3
    <3>4. CASE entry' # entry
      <4>1. lsDev \in Known /\ entry[lsDev] \in Entry
        BY <2>0, <2>4, <3>4 DEF Record, Seen, Known
      <4>2. \/ /\ lsData \in Whole
               /\ entry' = [entry EXCEPT ![lsDev] = [@ EXCEPT !.data = lsData]]
            \/ entry' = [entry EXCEPT ![lsDev] = [@ EXCEPT !.seen = 0]]
        BY <2>4, <3>1, <4>1 DEF Record, Seen
      <4>3. entry'[lsDev] \in Entry
        BY <2>0, <3>2, <4>1, <4>2 DEF Entry
      <4>4. /\ entry'[lsDev].hash = entry[lsDev].hash
            /\ entry'[lsDev].named = entry[lsDev].named
        BY <2>0, <4>1, <4>2 DEF Entry
      <4>5. \A d \in Device : d # lsDev => entry'[d] = entry[d]
        BY <2>0, <4>2
      <4>6. EntriesStay
        BY <4>1, <4>3, <4>4, <4>5, NoEntryAssumption DEF EntriesStay, Known
      <4> QED
        BY <4>6, EntriesKeepTable
    <3> QED
      BY <3>3, <3>4
  <2>5. ASSUME NEW d \in Device, Name(d) PROVE Table!TableNext
    <3>1. /\ entry' = [entry EXCEPT ![d].named = TRUE]
          /\ entry[d] \in Entry
          /\ d \in Known
      BY <2>0, <2>5 DEF Name, Known
    <3>2. entry'[d] \in Entry
      BY <2>0, <3>1 DEF Entry
    <3>3. Known' = Known
      BY <2>0, <3>1, <3>2, NoEntryAssumption DEF Known
    <3>4. key' = key
      BY <2>0, <3>1, <3>3 DEF Entry
    <3>5. named' = named \cup {d}
      BY <2>0, <3>1, <3>3 DEF Entry
    <3>6. Table!Named(d)
      BY <3>1, <3>4, <3>5 DEF Table!Named
    <3> QED
      BY <3>6 DEF Table!TableNext
  <2>6. CASE Scrub
    <3>1. PICK gone \in SUBSET Known :
            entry' = [d \in Device |-> IF d \in gone THEN NoEntry ELSE entry[d]]
      BY <2>6 DEF Scrub, Removals, Stale
    <3>2. Known' = Known \ gone
      BY <3>1 DEF Known
    <3>3. key' = [e \in Known \ gone |-> key[e]]
      BY <3>1, <3>2 DEF Known
    <3>4. named' = named \ gone
      BY <3>1, <3>2 DEF Known
    <3>5. Table!Leave(gone)
      BY <3>3, <3>4 DEF Table!Leave
    <3> QED
      BY <3>5 DEF Table!TableNext
  <2>7. CASE Tick
    BY <2>7, TickStays, EntriesKeepTable
  <2>8. CASE \/ \E d \in Device, data \in Data \cup {NoData} : Hear(d, data)
             \/ Alert \/ Compare \/ Throttle \/ Renotify
             \/ ReadOldTile \/ EnterLoop \/ LeaveLoop \/ QuitLoops \/ UNCHANGED vars
    <3>1. entry' = entry
      BY <2>8 DEF Hear, Alert, Compare, Throttle, Renotify, ReadOldTile, EnterLoop,
                  LeaveLoop, QuitLoops, vars
    <3> QED
      BY <2>1, <3>1
  <2> QED
    BY <2>2, <2>3, <2>4, <2>5, <2>6, <2>7, <2>8, NextCases
<1> QED
  BY <1>1, <1>2, TypeCorrect, PTL DEF Spec, IsTileTable, Table!TableSpec
=============================================================================
