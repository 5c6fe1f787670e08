-------------------------- MODULE LifecycleProofs --------------------------
(* Proofs about Lifecycle, for any number of callers, calls, events and tile *)
(* managers, when leaving the bus waits for the calls under way (TermWaits). *)
EXTENDS Lifecycle, FiniteSetTheorems, TLAPS

-----------------------------------------------------------------------------
(* The inductive invariant *)

Starting == mainPc \in {"register", "get"}
Joining == mainPc \in {"joinProcessor", "notify", "clearRun", "lockRun"}
Released == mainPc \in {"releaseIf", "forget", "done"}
Ending == Joining \/ Released

\* Threads that may still make a tile manager, or an interface.
Making == {t \in Thread : \/ get[t].at \in {"ifCheck", "ifNew", "ifAssign", "make"}
                          \/ get[t].at = "check" /\ instance = None}
MakingIf == {t \in Thread : \/ get[t].at \in {"ifCheck", "ifNew"}
                            \/ get[t].at = "check" /\ instance = None}

\* What is used exists, whoever made it.
HasInv ==
    /\ mainPc = "get" <=> get["main"].at # "no"
    /\ Starting \/ mainPc \in {"beacon", "listen"} => lsPc = "no"
    /\ ~Starting => Mine # None
    /\ ~Starting /\ mainPc # "done" => instance # None
    /\ mainPc \notin {"forget", "done"} /\ instance # None => ifInstance # None
    /\ instance <= made
    /\ \A m \in Manager : m <= made => ifOf[m] # None
    /\ \A t \in Thread :
         /\ get[t].manager <= made
         /\ get[t].at \in {"ifAssign", "make"} => get[t].iface # None
         /\ get[t].at = "assign" => get[t].manager # None
         /\ get[t].at \in {"make", "assign"} /\ mainPc \notin {"forget", "done"}
              => ifInstance # None
         /\ get[t].at \in {"feature", "return"} /\ mainPc # "done" => instance # None
    /\ Ending => ~bus
    /\ \A c \in Caller : /\ use[c] # "no" => get[c].manager # None
                         /\ Ending => get[c].at = "no" /\ use[c] = "no"

\* Main may make one of each, and an early call one more.
CountInv ==
    /\ mainPc = "register" => /\ ~bus /\ made = 0 /\ ifMade = 0
                              /\ \A t \in Thread : get[t].at = "no"
    /\ mainPc # "done" => /\ made + Cardinality(Making) <= 1 + early
                          /\ ifMade + Cardinality(MakingIf) <= 1 + early

\* The rest is said of a start without an early call.

\* Whether main has not come further in getInstance than one of steps.
Before(steps) == mainPc = "register" \/ get["main"].at \in steps

\* Main alone makes the one interface and the one tile manager, in the order
\* of getInstance.
MadeInv ==
    /\ mainPc = "get" <=> get["main"].at # "no"
    /\ ifMade = IF Before({"check", "ifCheck", "ifNew"}) THEN 0 ELSE 1
    /\ made = IF Before({"check", "ifCheck", "ifNew", "ifAssign", "make"}) THEN 0 ELSE 1
    /\ get["main"].at \in {"ifAssign", "make"} => get["main"].iface = 1
    /\ get["main"].at = "assign" \/ ~Starting => get["main"].manager = 1
    /\ ifInstance = IF Before({"check", "ifCheck", "ifNew", "ifAssign"})
                         \/ mainPc \in {"forget", "done"} THEN None ELSE 1
    /\ instance = IF Before({"check", "ifCheck", "ifNew", "ifAssign", "make", "assign"})
                       \/ mainPc = "done" THEN None ELSE 1
    /\ made = 1 => ifOf[1] = 1
    /\ \A m \in Manager \ {1} : procPc[m] = "no" /\ ifOf[m] = None

\* Callers come when main has its tile manager, and none is left when main
\* begins to release it.
CallInv ==
    /\ Ending => ~bus
    /\ \A c \in Caller :
         /\ Starting \/ Ending => get[c].at = "no" /\ use[c] = "no"
         /\ get[c].at \in {"no", "check", "return"}
         /\ use[c] # "no" => get[c].manager = 1

\* What main has waited for has ended.
EndInv ==
    /\ Starting \/ mainPc \in {"beacon", "listen"} => lsPc = "no"
    /\ Ending \/ mainPc \in {"joinBeacon", "term"} => lsPc = "done"
    /\ Ending \/ mainPc = "term" => at = "done"
    /\ Released => procPc[1] = "done"
    /\ gone \subseteq {1} /\ (gone # {} => Released)
    /\ ifGone \subseteq {1} /\ (ifGone # {} => mainPc \in {"forget", "done"})

LifeInv == TypeOK /\ MadeInv /\ CallInv /\ EndInv

Inv == TypeOK /\ HasInv /\ CountInv /\ (early = 0 => LifeInv)

LEMMA OneIsManager == 1 \in Manager /\ None \notin Manager /\ 1 # None
  BY BoundAssumption DEF Manager, None

LEMMA MainIsThread == "main" \in Thread /\ "main" \notin Caller /\ Caller \subseteq Thread
  BY CallerAssumption DEF Thread

LEMMA ThreadsFinite ==
    ASSUME NEW S \in SUBSET Thread
    PROVE  IsFiniteSet(S) /\ Cardinality(S) \in Nat
<1>1. IsFiniteSet(Thread)
  BY CallerAssumption, FS_AddElement DEF Thread
<1> QED
  BY <1>1, FS_Subset, FS_CardinalityType

LEMMA LifeInit == Init => Inv
<1> SUFFICES ASSUME Init PROVE Inv
  OBVIOUS
<1>1. TypeOK
  <2>1. get \in [Thread -> Getting]
    BY DEF Init, Getting
  <2>2. 0 \in 0 .. MaxCalls /\ 0 \in 0 .. 0 /\ 0 \in 0 .. MaxManagers
    BY BoundAssumption
  <2>3. Beacon!ThreadTypeOK
    BY DEF Init, Beacon!ThreadInit, Beacon!ThreadTypeOK
  <2> QED
    BY <2>1, <2>2, <2>3 DEF Init, TypeOK
<1>2. MadeInv /\ CallInv /\ EndInv
  BY OneIsManager, MainIsThread
     DEF Init, MadeInv, CallInv, EndInv, Before, Starting, Ending, Joining, Released
<1>3. HasInv
  BY OneIsManager, MainIsThread
     DEF Init, HasInv, Manager, None, Starting, Ending, Joining, Released
<1>4. CountInv
  <2>1. Making = {} /\ MakingIf = {}
    BY DEF Init, Making, MakingIf
  <2> QED
    BY <2>1, FS_EmptySet DEF Init, CountInv
<1> QED
  BY <1>1, <1>2, <1>3, <1>4 DEF LifeInv, Inv

\* When main has its tile manager, what is used is there.
LEMMA AllIsThere ==
    ASSUME TypeOK, HasInv
    PROVE  /\ ~Starting => Mine \in Manager /\ ifOf[Mine] \in Manager
           /\ ~Starting /\ mainPc # "done" => instance \in Manager
           /\ ~Starting /\ mainPc \notin {"forget", "done"} => ifInstance \in Manager
           /\ \A c \in Caller : use[c] # "no" => get[c].manager \in Manager
<1>1. \A t \in Thread : get[t].manager \in Manager \cup {None}
  BY DEF TypeOK, Getting
<1>2. ~Starting => Mine \in Manager /\ Mine <= made
  BY <1>1, MainIsThread DEF HasInv, Mine
<1>3. ~Starting => ifOf[Mine] \in Manager
  BY <1>2 DEF HasInv, TypeOK
<1> QED
  BY <1>1, <1>2, <1>3, MainIsThread DEF HasInv, TypeOK

\* Without an early call all that is used is number 1.
LEMMA AllIsOne ==
    ASSUME LifeInv, ~Starting
    PROVE  /\ get["main"].at = "no" /\ Mine = 1 /\ made = 1 /\ ifMade = 1 /\ ifOf[1] = 1
           /\ mainPc # "done" => instance = 1
           /\ mainPc \notin {"forget", "done"} => ifInstance = 1
  BY DEF LifeInv, MadeInv, Starting, Before, Mine, None

-----------------------------------------------------------------------------
(* Types *)

\* One field of a getting thread changes.
LEMMA GetExcept ==
    ASSUME TypeOK, NEW t \in Thread,
           NEW where \in {"no", "check", "ifCheck", "ifNew", "ifAssign", "make", "assign",
                          "feature", "return"},
           NEW x \in Manager \cup {None}
    PROVE  /\ [get EXCEPT ![t].at = where] \in [Thread -> Getting]
           /\ [get EXCEPT ![t].at = where, ![t].iface = x] \in [Thread -> Getting]
           /\ [get EXCEPT ![t].at = where, ![t].manager = x] \in [Thread -> Getting]
<1>1. get[t] \in Getting /\ get \in [Thread -> Getting]
  BY DEF TypeOK
<1>2. /\ [get[t] EXCEPT !.at = where] \in Getting
      /\ [get[t] EXCEPT !.at = where, !.iface = x] \in Getting
      /\ [get[t] EXCEPT !.at = where, !.manager = x] \in Getting
  BY <1>1 DEF Getting
<1>3. /\ [get EXCEPT ![t].at = where] = [get EXCEPT ![t] = [get[t] EXCEPT !.at = where]]
      /\ [get EXCEPT ![t].at = where, ![t].iface = x]
           = [get EXCEPT ![t] = [get[t] EXCEPT !.at = where, !.iface = x]]
      /\ [get EXCEPT ![t].at = where, ![t].manager = x]
           = [get EXCEPT ![t] = [get[t] EXCEPT !.at = where, !.manager = x]]
  BY <1>1
<1> QED
  BY <1>1, <1>2, <1>3

LEMMA TypeGet ==
    ASSUME TypeOK, NEW t \in Thread, GetStep(t)
    PROVE  TypeOK'
<1> USE DEF rpc, objects, listener, processor
<1>1. /\ get[t] \in Getting /\ get \in [Thread -> Getting]
      /\ get[t].iface \in Manager \cup {None} /\ get[t].manager \in Manager \cup {None}
  BY DEF TypeOK, Getting
<1>2. instance \in Manager \cup {None} /\ ifInstance \in Manager \cup {None}
        /\ None \in Manager \cup {None}
  BY DEF TypeOK
<1>3. Beacon!ThreadTypeOK'
  BY DEF TypeOK, GetStep, Beacon!ThreadTypeOK
<1>4. UNCHANGED <<mainPc, exit, rpc, crashed, listener, requests, mutex, run, at, terminate>>
  BY DEF GetStep
<1>5. CASE GetCheck(t) /\ UNCHANGED procPc
  <2>1. get' \in [Thread -> Getting]
    BY <1>1, <1>2, <1>5, GetExcept DEF GetCheck, Go
  <2> QED
    BY <1>3, <1>4, <1>5, <2>1 DEF TypeOK, GetCheck
<1>6. CASE GetIfCheck(t) /\ UNCHANGED procPc
  <2> DEFINE where == IF ifInstance = None THEN "ifNew" ELSE "make"
  <2>0. where \in {"ifNew", "make"}
    OBVIOUS
  <2>1. get' \in [Thread -> Getting]
    <3>1. get' = [get EXCEPT ![t].at = where, ![t].iface = ifInstance]
      BY <1>6 DEF GetIfCheck
    <3> HIDE DEF where
    <3> QED
      BY <1>2, <2>0, <3>1, GetExcept
  <2> QED
    BY <1>3, <1>4, <1>6, <2>1 DEF TypeOK, GetIfCheck
<1>7. CASE GetIfNew(t) /\ UNCHANGED procPc
  <2>0. callback' \in BOOLEAN
    BY <1>7 DEF TypeOK, GetIfNew
  <2>1. ifMade' \in Manager /\ ifMade' \in 0 .. MaxManagers
    BY <1>7, BoundAssumption DEF TypeOK, GetIfNew, Manager
  <2>2. get' \in [Thread -> Getting]
    BY <1>1, <1>2, <1>7, <2>1, GetExcept DEF GetIfNew
  <2> QED
    BY <1>3, <1>4, <1>7, <2>0, <2>1, <2>2 DEF TypeOK, GetIfNew
<1>8. CASE GetIfAssign(t) /\ UNCHANGED procPc
  <2>1. get' \in [Thread -> Getting]
    BY <1>1, <1>2, <1>8, GetExcept DEF GetIfAssign, Go
  <2> QED
    BY <1>1, <1>3, <1>4, <1>8, <2>1 DEF TypeOK, GetIfAssign
<1>9. CASE GetMake(t)
  <2>1. made' \in Manager /\ made' \in 0 .. MaxManagers
    BY <1>9, BoundAssumption DEF TypeOK, GetMake, Manager
  <2>2. get' \in [Thread -> Getting]
    BY <1>1, <1>2, <1>9, <2>1, GetExcept DEF GetMake
  <2>3. ifOf' \in [Manager -> Manager \cup {None}]
    BY <1>1, <1>9, <2>1 DEF TypeOK, GetMake
  <2>4. procPc' \in [Manager -> {"no", "top", "lock", "test", "park", "asleep", "work", "done"}]
    BY <1>9, <2>1 DEF TypeOK, GetMake
  <2> QED
    BY <1>3, <1>4, <1>9, <2>1, <2>2, <2>3, <2>4 DEF TypeOK, GetMake
<1>10. CASE GetAssign(t) /\ UNCHANGED procPc
  <2>1. get' \in [Thread -> Getting]
    BY <1>1, <1>2, <1>10, GetExcept DEF GetAssign, Go
  <2> QED
    BY <1>1, <1>3, <1>4, <1>10, <2>1 DEF TypeOK, GetAssign
<1>11. CASE GetFeature(t) /\ UNCHANGED procPc
  <2>1. get' \in [Thread -> Getting] /\ feature' \in BOOLEAN
    BY <1>1, <1>2, <1>11, GetExcept DEF GetFeature, Go, TypeOK
  <2> QED
    BY <1>3, <1>4, <1>11, <2>1 DEF TypeOK, GetFeature
<1> QED
  BY <1>5, <1>6, <1>7, <1>8, <1>9, <1>10, <1>11 DEF GetStep

LEMMA TypeMain == TypeOK /\ HasInv /\ MainNext => TypeOK'
<1> SUFFICES ASSUME TypeOK, HasInv, MainNext PROVE TypeOK'
  OBVIOUS
<1> USE MainIsThread, OneIsManager DEF rpc, objects, listener, processor
<1>0. TypeOK
  OBVIOUS
<1>1. Beacon!ThreadTypeOK /\ (UNCHANGED <<at, terminate>> => Beacon!ThreadTypeOK')
  BY <1>0 DEF TypeOK, Beacon!ThreadTypeOK
<1>2. CASE Register
  <2>1. get' \in [Thread -> Getting]
    BY <1>0, <1>2, GetExcept DEF Register, Go
  <2> QED
    BY <1>0, <1>1, <1>2, <2>1 DEF Register, MainGoes, TypeOK
<1>3. CASE GetStep("main")
  BY <1>0, <1>3, TypeGet
<1>4. CASE MainHas
  <2>1. get' \in [Thread -> Getting]
    BY <1>0, <1>4, GetExcept DEF MainHas, TypeOK
  <2> QED
    BY <1>0, <1>1, <1>4, <2>1 DEF MainHas, MainGoes, TypeOK
<1>5. CASE StartBeacon \/ StartListener \/ LeaveLoop \/ QuitFlag
  <2>1. CASE StartBeacon
    BY <1>0, <1>1, <2>1 DEF StartBeacon, MainGoes, TypeOK
  <2>2. CASE StartListener
    BY <1>0, <1>1, <2>2 DEF StartListener, MainGoes, TypeOK
  <2>3. CASE LeaveLoop
    BY <1>0, <1>1, <2>3 DEF LeaveLoop, MainGoes, TypeOK
  <2>4. CASE QuitFlag
    BY <1>0, <1>1, <2>4 DEF QuitFlag, MainGoes, TypeOK
  <2> QED
    BY <1>5, <2>1, <2>2, <2>3, <2>4
<1>6. CASE QuitEvent
  <2>1. ifInstance \in Manager
    BY <1>6, AllIsThere DEF QuitEvent, MainGoes, Starting
  <2>2. events' \in [Manager -> Nat]
    BY <1>0, <1>6, <2>1 DEF QuitEvent, Pushed, TypeOK
  <2>3. lsPc' \in {"no", "top", "pop", "asleep", "handle", "stuck", "done"}
    BY <1>0, <1>6 DEF QuitEvent, Pushed, TypeOK
  <2> QED
    BY <1>0, <1>1, <1>6, <2>2, <2>3 DEF QuitEvent, MainGoes, TypeOK
<1>7. CASE QuitBeacon
  BY <1>0, <1>7 DEF QuitBeacon, MainGoes, TypeOK, Beacon!QuitBeacon, Beacon!ThreadTypeOK
<1>8. CASE JoinListener \/ JoinBeacon \/ Term
  <2>1. CASE JoinListener \/ JoinBeacon
    BY <1>0, <1>1, <2>1 DEF JoinListener, JoinBeacon, MainGoes, TypeOK
  <2>2. CASE Term
    BY <1>0, <1>1, <2>2 DEF Term, MainGoes, TypeOK
  <2> QED
    BY <1>8, <2>1, <2>2
<1>9. CASE LockRun \/ ClearRun
  <2>1. instance \in Manager
    BY <1>9, AllIsThere DEF LockRun, ClearRun, MainGoes, Starting
  <2>2. mutex' \in [Manager -> Thread \cup {"processor", "nobody"}]
    <3>1. \A who \in Thread \cup {"processor", "nobody"} :
            [mutex EXCEPT ![instance] = who] \in [Manager -> Thread \cup {"processor", "nobody"}]
      BY <1>0, <2>1 DEF TypeOK
    <3> QED
      BY <1>9, <3>1 DEF LockRun, ClearRun
  <2>3. run' \in [Manager -> BOOLEAN]
    BY <1>0, <1>9 DEF LockRun, ClearRun, TypeOK
  <2> QED
    BY <1>0, <1>1, <1>9, <2>2, <2>3 DEF LockRun, ClearRun, MainGoes, TypeOK
<1>10. CASE NotifyProcessor
  <2>1. procPc' \in [Manager -> {"no", "top", "lock", "test", "park", "asleep", "work", "done"}]
    BY <1>0, <1>10 DEF NotifyProcessor, Woken, TypeOK
  <2> QED
    BY <1>0, <1>1, <1>10, <2>1 DEF NotifyProcessor, MainGoes, TypeOK
<1>11. CASE JoinProcessor
  <2>1. instance \in Manager
    BY <1>11, AllIsThere DEF JoinProcessor, MainGoes, Starting
  <2> QED
    BY <1>0, <1>1, <1>11, <2>1 DEF JoinProcessor, MainGoes, TypeOK
<1>12. CASE ReleaseIf
  BY <1>0, <1>1, <1>12 DEF ReleaseIf, MainGoes, TypeOK
<1>13. CASE Forget
  BY <1>0, <1>1, <1>13 DEF Forget, MainGoes, TypeOK
<1> QED
  BY <1>2, <1>3, <1>4, <1>5, <1>6, <1>7, <1>8, <1>9, <1>10, <1>11, <1>12, <1>13 DEF MainNext

\* Request processors, for each of which the tile manager is given.
LEMMA TypeProcessor ==
    ASSUME TypeOK, NEW m \in Manager, ProcessorNext(m)
    PROVE  TypeOK'
<1> USE DEF rpc, objects, listener, processor
<1>1. Beacon!ThreadTypeOK'
  BY DEF ProcessorNext, TypeOK, Beacon!ThreadTypeOK
<1>2. procPc' \in [Manager -> {"no", "top", "lock", "test", "park", "asleep", "work", "done"}]
  BY DEF ProcessorNext, ProcessorGoes, ProcessorTop, ProcessorLock, ProcessorTake,
         ProcessorQuits, ProcessorWaits, ProcessorParks, ProcessorWorks, TypeOK
<1>3. mutex' \in [Manager -> Thread \cup {"processor", "nobody"}]
  BY DEF ProcessorNext, ProcessorTop, ProcessorLock, ProcessorTake,
         ProcessorQuits, ProcessorWaits, ProcessorParks, ProcessorWorks, TypeOK
<1>4. requests' \in [Manager -> Nat] /\ run' = run
  BY DEF ProcessorNext, ProcessorTop, ProcessorLock, ProcessorTake,
         ProcessorQuits, ProcessorWaits, ProcessorParks, ProcessorWorks, TypeOK
<1> QED
  BY <1>1, <1>2, <1>3, <1>4 DEF ProcessorNext, TypeOK

\* RPC calls.
LEMMA TypeCall ==
    ASSUME TypeOK, HasInv, NEW c \in Caller, CallArrives(c) \/ CallNext(c)
    PROVE  TypeOK'
<1> USE MainIsThread, OneIsManager DEF rpc, objects, listener, processor
<1>0. TypeOK
  OBVIOUS
<1>1. Beacon!ThreadTypeOK /\ (UNCHANGED <<at, terminate>> => Beacon!ThreadTypeOK')
  BY <1>0 DEF TypeOK, Beacon!ThreadTypeOK
<1>2. CASE CallArrives(c)
  <2>1. get' \in [Thread -> Getting]
    BY <1>0, <1>2, GetExcept DEF CallArrives, Go
  <2>2. calls' \in 0 .. MaxCalls /\ early' \in 0 .. calls'
    BY <1>0, <1>2, BoundAssumption DEF CallArrives, TypeOK
  <2> QED
    BY <1>0, <1>1, <1>2, <2>1, <2>2 DEF CallArrives, TypeOK
<1>3. CASE GetStep(c)
  BY <1>0, <1>3, TypeGet
<1>4. CASE CallHas(c)
  <2>1. get' \in [Thread -> Getting]
    BY <1>0, <1>4, GetExcept DEF CallHas, TypeOK
  <2> QED
    BY <1>0, <1>1, <1>4, <2>1 DEF CallHas, TypeOK
<1>5. CASE CallQueues(c)
  <2>1. get[c].manager \in Manager
    BY <1>5, AllIsThere DEF CallQueues
  <2>2. requests' \in [Manager -> Nat]
    BY <1>0, <1>5, <2>1 DEF CallQueues, TypeOK
  <2> QED
    BY <1>0, <1>1, <1>5, <2>2 DEF CallQueues, TypeOK
<1>6. CASE CallNotifies(c)
  <2>1. procPc' \in [Manager -> {"no", "top", "lock", "test", "park", "asleep", "work", "done"}]
    BY <1>0, <1>6 DEF CallNotifies, Woken, TypeOK
  <2> QED
    BY <1>0, <1>1, <1>6, <2>1 DEF CallNotifies, TypeOK
<1> QED
  BY <1>2, <1>3, <1>4, <1>5, <1>6 DEF CallNext

LEMMA TypeOthers ==
    TypeOK /\ HasInv /\ (ListenerNext \/ BeaconNext \/ Callback \/ Terminate \/ Spurious \/ UNCHANGED vars)
      => TypeOK'
<1> SUFFICES ASSUME TypeOK, HasInv,
                    ListenerNext \/ BeaconNext \/ Callback \/ Terminate \/ Spurious
                      \/ UNCHANGED vars
             PROVE  TypeOK'
  OBVIOUS
<1> USE MainIsThread, OneIsManager DEF rpc, objects, listener, processor
<1>0. TypeOK
  OBVIOUS
<1>1. Beacon!ThreadTypeOK /\ (UNCHANGED <<at, terminate>> => Beacon!ThreadTypeOK')
  BY <1>0 DEF TypeOK, Beacon!ThreadTypeOK
<1>2. CASE ListenerNext
  <2>1. lsPc' \in {"no", "top", "pop", "asleep", "handle", "stuck", "done"}
    BY <1>0, <1>2 DEF ListenerNext, ListenerTop, Pop, HandleOldTile, TypeOK
  <2>2. events' \in [Manager -> Nat]
    <3>1. CASE ListenerTop \/ HandleOldTile
      BY <1>0, <3>1 DEF ListenerTop, HandleOldTile, TypeOK
    <3>2. CASE Pop
      <4>1. ifOf[Mine] \in Manager
        BY <3>2, AllIsThere DEF Pop, HasInv
      <4> QED
        BY <1>0, <3>2, <4>1 DEF Pop, TypeOK
    <3> QED
      BY <1>2, <3>1, <3>2 DEF ListenerNext
  <2> QED
    BY <1>0, <1>1, <1>2, <2>1, <2>2 DEF ListenerNext, TypeOK
<1>3. CASE BeaconNext
  <2>1. Beacon!ThreadTypeOK'
    BY <1>1, <1>3 DEF BeaconNext, Beacon!StopWorking, Beacon!StoreLimit, Beacon!ThreadTypeOK
  <2> QED
    BY <1>0, <1>3, <2>1 DEF BeaconNext, TypeOK
<1>4. CASE Callback
  <2>1. events' \in [Manager -> Nat]
    BY <1>0, <1>4 DEF Callback, Pushed, TypeOK
  <2>2. crashed' \in BOOLEAN
    BY <1>0, <1>4 DEF Callback, TypeOK
  <2>3. lsPc' \in {"no", "top", "pop", "asleep", "handle", "stuck", "done"}
    BY <1>0, <1>4 DEF Callback, Pushed, TypeOK
  <2> QED
    BY <1>0, <1>1, <1>4, <2>1, <2>2, <2>3 DEF Callback, TypeOK
<1>5. CASE Terminate
  BY <1>0, <1>1, <1>5 DEF Terminate, TypeOK
<1>6. CASE Spurious
  <2>1. lsPc' \in {"no", "top", "pop", "asleep", "handle", "stuck", "done"}
          /\ procPc' \in [Manager -> {"no", "top", "lock", "test", "park", "asleep", "work", "done"}]
    BY <1>0, <1>6 DEF Spurious, ProcessorGoes, TypeOK
  <2> QED
    BY <1>0, <1>1, <1>6, <2>1 DEF Spurious, TypeOK
<1>7. CASE UNCHANGED vars
  BY <1>0, <1>1, <1>7 DEF vars, TypeOK
<1> QED
  BY <1>2, <1>3, <1>4, <1>5, <1>6, <1>7

LEMMA TypeStep == TypeOK /\ HasInv /\ [Next]_vars => TypeOK'
  BY TypeMain, TypeProcessor, TypeCall, TypeOthers DEF Next

-----------------------------------------------------------------------------
(* What is used exists *)

\* A step of getInstance, for whoever takes it.
LEMMA GetDoes ==
    ASSUME TypeOK, NEW t \in Thread, GetStep(t)
    PROVE  /\ get[t].at \notin {"no", "return"} /\ get'[t].at # "no"
           /\ \A u \in Thread \ {t} : get'[u] = get[u]
           /\ made' \in Nat /\ made <= made'
           /\ \/ get'[t].manager = get[t].manager
              \/ get'[t].manager = made' /\ made' = made + 1
           /\ t \in Making' => t \in Making /\ ~GetMake(t)
           /\ t \in MakingIf' => t \in MakingIf /\ ~GetIfNew(t)
<1> USE DEF objects, Making, MakingIf
<1>0. get \in [Thread -> Getting] /\ get[t] \in Getting /\ made \in Nat
  BY DEF TypeOK
<1>1. CASE GetCheck(t)
  BY <1>0, <1>1 DEF GetCheck, Go, Getting, GetMake, GetIfNew
<1>2. CASE GetIfCheck(t)
  BY <1>0, <1>2 DEF GetIfCheck, Getting, GetMake, GetIfNew
<1>3. CASE GetIfNew(t)
  BY <1>0, <1>3 DEF GetIfNew, Getting, GetMake
<1>4. CASE GetIfAssign(t)
  BY <1>0, <1>4 DEF GetIfAssign, Go, Getting, GetMake, GetIfNew
<1>5. CASE GetMake(t)
  BY <1>0, <1>5 DEF GetMake, Getting, GetIfNew
<1>6. CASE GetAssign(t)
  BY <1>0, <1>6 DEF GetAssign, Go, Getting, GetMake, GetIfNew
<1>7. CASE GetFeature(t)
  BY <1>0, <1>7 DEF GetFeature, Go, Getting, GetMake, GetIfNew
<1> QED
  BY <1>1, <1>2, <1>3, <1>4, <1>5, <1>6, <1>7 DEF GetStep

\* What is used after it exists.
LEMMA HasGet ==
    ASSUME TypeOK, HasInv, NEW t \in Thread, GetStep(t)
    PROVE  HasInv'
<1> USE MainIsThread, OneIsManager DEF objects, rpc, listener
<1>0. /\ get \in [Thread -> Getting] /\ get[t] \in Getting
      /\ made \in Nat /\ ifMade \in Nat
      /\ \A u \in Thread : get[u].manager \in Manager \cup {None}
  BY DEF TypeOK, Getting
<1>1. UNCHANGED <<mainPc, bus, use, lsPc>>
  BY DEF GetStep
<1>2. /\ get[t].at \notin {"no", "return"}
      /\ get'[t].at # "no"
      /\ \A u \in Thread \ {t} : get'[u] = get[u]
  BY GetDoes
<1>3. made <= made' /\ made' \in Nat
  BY GetDoes
<1>4. \A m \in Manager : m <= made' => ifOf'[m] # None
  <2>1. CASE GetMake(t)
    BY <1>0, <2>1 DEF GetMake, HasInv, TypeOK, Manager
  <2>2. CASE ~GetMake(t)
    BY <2>2 DEF GetStep, GetCheck, GetIfCheck, GetIfNew, GetIfAssign, GetAssign,
       GetFeature, HasInv
  <2> QED
    BY <2>1, <2>2
<1>5. instance' <= made' /\ (instance # None => instance' # None)
  <2>1. instance <= made /\ get[t].manager <= made
          /\ (get[t].at = "assign" => get[t].manager # None)
    BY DEF HasInv
  <2>2. instance' = instance \/ (get[t].at = "assign" /\ instance' = get[t].manager)
    BY DEF GetStep, GetCheck, GetIfCheck, GetIfNew, GetIfAssign, GetMake, GetAssign, GetFeature
  <2>3. instance \in Nat /\ get[t].manager \in Nat
    BY <1>0 DEF TypeOK, Manager, None
  <2> QED
    BY <1>0, <1>3, <2>1, <2>2, <2>3
<1>6. ifInstance # None => ifInstance' # None
  BY DEF GetStep, GetCheck, GetIfCheck, GetIfNew, GetIfAssign, GetMake, GetAssign, GetFeature,
     HasInv
<1>7. instance' = instance \/ get[t].at = "assign"
  BY DEF GetStep, GetCheck, GetIfCheck, GetIfNew, GetIfAssign, GetMake, GetAssign, GetFeature
<1>8. /\ get'[t].manager <= made'
      /\ get'[t].at \in {"ifAssign", "make"} => get'[t].iface # None
      /\ get'[t].at = "assign" => get'[t].manager # None
      /\ get'[t].at \in {"make", "assign"} /\ mainPc \notin {"forget", "done"}
           => ifInstance' # None
      /\ get'[t].at \in {"feature", "return"} /\ mainPc # "done" => instance' # None
  <2>1. get[t].manager \in Nat /\ get[t].manager <= made
    BY <1>0 DEF HasInv, Manager, None
  <2>2. CASE GetCheck(t)
    BY <1>0, <1>3, <2>1, <2>2 DEF GetCheck, Go, Getting
  <2>3. CASE GetIfCheck(t)
    BY <1>0, <1>3, <2>1, <2>3 DEF GetIfCheck, Getting
  <2>4. CASE GetIfNew(t)
    BY <1>0, <1>3, <2>1, <2>4 DEF GetIfNew, Getting, None
  <2>5. CASE GetIfAssign(t)
    <3>1. get[t].iface # None
      BY <2>5 DEF GetIfAssign, HasInv
    <3> QED
      BY <1>0, <1>3, <2>1, <2>5, <3>1 DEF GetIfAssign, Go, Getting
  <2>6. CASE GetMake(t)
    <3>1. mainPc \notin {"forget", "done"} => ifInstance # None
      BY <2>6 DEF GetMake, HasInv
    <3> QED
      BY <1>0, <1>3, <2>1, <2>6, <3>1 DEF GetMake, Getting, None
  <2>7. CASE GetAssign(t)
    <3>1. get[t].manager # None
      BY <2>7 DEF GetAssign, HasInv
    <3> QED
      BY <1>0, <1>3, <2>1, <2>7, <3>1 DEF GetAssign, Go, Getting
  <2>8. CASE GetFeature(t)
    <3>1. mainPc # "done" => instance # None
      BY <2>8 DEF GetFeature, HasInv
    <3> QED
      BY <1>0, <1>3, <2>1, <2>8, <3>1 DEF GetFeature, Go, Getting
  <2> QED
    BY <2>2, <2>3, <2>4, <2>5, <2>6, <2>7, <2>8 DEF GetStep
<1>9. \A u \in Thread \ {t} :
        /\ get'[u].manager <= made'
        /\ get'[u].at \in {"ifAssign", "make"} => get'[u].iface # None
        /\ get'[u].at = "assign" => get'[u].manager # None
        /\ get'[u].at \in {"make", "assign"} /\ mainPc \notin {"forget", "done"}
             => ifInstance' # None
        /\ get'[u].at \in {"feature", "return"} /\ mainPc # "done" => instance' # None
  <2> TAKE u \in Thread \ {t}
  <2>1. get[u].manager \in Nat /\ get[u].manager <= made
    BY <1>0 DEF HasInv, Manager, None
  <2>2. get'[u] = get[u]
    BY <1>2
  <2> QED
    BY <1>0, <1>3, <1>5, <1>6, <2>1, <2>2 DEF HasInv
<1>10. Mine' = Mine \/ Starting
  BY <1>2, MainIsThread DEF Mine, HasInv, Starting
<1>11. mainPc \notin {"forget", "done"} /\ instance' # None => ifInstance' # None
  BY <1>6, <1>7 DEF HasInv
<1>12. \A c \in Caller : /\ use'[c] # "no" => get'[c].manager # None
                         /\ Ending => get'[c].at = "no" /\ use'[c] = "no"
  <2> TAKE c \in Caller
  <2>1. CASE c # t
    BY <1>1, <1>2, <2>1 DEF HasInv
  <2>2. CASE c = t
    <3>1. get'[c].manager = get[c].manager \/ (get'[c].manager = made' /\ made' = made + 1)
      BY <2>2, GetDoes
    <3>2. ~Ending /\ (use'[c] # "no" => get[c].manager # None)
      BY <1>1, <1>2, <2>2 DEF HasInv
    <3> QED
      BY <1>0, <3>1, <3>2 DEF None
  <2> QED
    BY <2>1, <2>2
<1>13. mainPc = "get" <=> get'["main"].at # "no"
  BY <1>2 DEF HasInv
<1>14. /\ Starting' <=> Starting
       /\ Ending' <=> Ending
  BY <1>1 DEF Starting, Ending, Joining, Released
<1>15. \A u \in Thread :
         /\ get'[u].manager <= made'
         /\ get'[u].at \in {"ifAssign", "make"} => get'[u].iface # None
         /\ get'[u].at = "assign" => get'[u].manager # None
         /\ get'[u].at \in {"make", "assign"} /\ mainPc' \notin {"forget", "done"}
              => ifInstance' # None
         /\ get'[u].at \in {"feature", "return"} /\ mainPc' # "done" => instance' # None
  BY <1>1, <1>8, <1>9
<1>16. /\ Starting' \/ mainPc' \in {"beacon", "listen"} => lsPc' = "no"
       /\ ~Starting' => Mine' # None
       /\ ~Starting' /\ mainPc' # "done" => instance' # None
       /\ Ending' => ~bus'
  BY <1>1, <1>5, <1>10, <1>14 DEF HasInv
<1>17. /\ mainPc' = "get" <=> get'["main"].at # "no"
       /\ mainPc' \notin {"forget", "done"} /\ instance' # None => ifInstance' # None
       /\ \A c \in Caller : /\ use'[c] # "no" => get'[c].manager # None
                            /\ Ending' => get'[c].at = "no" /\ use'[c] = "no"
  BY <1>1, <1>11, <1>12, <1>13, <1>14
<1> QED
  BY <1>4, <1>5, <1>15, <1>16, <1>17 DEF HasInv

\* Steps that make nothing and release nothing.
LEMMA HasStays ==
    ASSUME HasInv,
           \A t \in Thread : get'[t] = get[t],
           UNCHANGED <<instance, ifInstance, made, ifOf, use>>,
           lsPc = "no" => lsPc' = "no",
           mainPc' = mainPc \/ (~Starting /\ ~Starting' /\ mainPc' \notin {"beacon", "listen"}
                                  /\ mainPc \notin {"forget", "done"}),
           Ending' => Ending,
           bus' = bus
    PROVE  HasInv'
  BY MainIsThread DEF HasInv, Starting, Mine

LEMMA HasStep == TermWaits /\ TypeOK /\ HasInv /\ [Next]_vars => HasInv'
<1> SUFFICES ASSUME TermWaits, TypeOK, HasInv, [Next]_vars PROVE HasInv'
  OBVIOUS
<1> USE MainIsThread, OneIsManager DEF objects, listener, processor, rpc
<1>0. /\ get \in [Thread -> Getting] /\ \A t \in Thread : get[t] \in Getting
      /\ made \in Nat
  BY DEF TypeOK
<1>1. CASE Register
  <2>1. /\ get'["main"].at = "check" /\ get'["main"].manager = get["main"].manager
        /\ \A t \in Thread \ {"main"} : get'[t] = get[t]
    BY <1>0, <1>1 DEF Register, Go, Getting
  <2> QED
    BY <1>1, <2>1 DEF Register, MainGoes, HasInv, Starting, Ending, Joining, Released
<1>2. ASSUME NEW t \in Thread, GetStep(t) PROVE HasInv'
  BY <1>2, HasGet
<1>3. CASE MainHas
  <2>1. /\ get'["main"].at = "no" /\ get'["main"].manager = instance
        /\ \A t \in Thread \ {"main"} : get'[t] = get[t]
    BY <1>0, <1>3 DEF MainHas, Getting
  <2>2. instance # None /\ instance <= made
    BY <1>3 DEF MainHas, MainGoes, HasInv
  <2> QED
    BY <1>3, <2>1, <2>2 DEF MainHas, MainGoes, HasInv, Mine, Starting, Ending, Joining, Released
<1>4. CASE StartBeacon \/ StartListener
  BY <1>4 DEF StartBeacon, StartListener, MainGoes, HasInv, Mine, Starting, Ending, Joining,
     Released
<1>5. CASE LeaveLoop \/ QuitFlag \/ QuitEvent \/ QuitBeacon \/ JoinListener \/ JoinBeacon
  <2>1. UNCHANGED <<get, instance, ifInstance, made, ifOf, use, bus>>
    BY <1>5 DEF LeaveLoop, QuitFlag, QuitEvent, QuitBeacon, JoinListener, JoinBeacon
  <2>2. lsPc = "no" => lsPc' = "no"
    BY <1>5 DEF LeaveLoop, QuitFlag, QuitEvent, QuitBeacon, JoinListener, JoinBeacon, Pushed
  <2>3. /\ ~Starting /\ ~Starting' /\ mainPc' \notin {"beacon", "listen"} /\ ~Ending'
        /\ mainPc \notin {"forget", "done"}
    BY <1>5 DEF LeaveLoop, QuitFlag, QuitEvent, QuitBeacon, JoinListener, JoinBeacon, MainGoes,
       Starting, Ending, Joining, Released
  <2> QED
    BY <2>1, <2>2, <2>3, HasStays
<1>6. CASE Term
  <2>1. \A c \in Caller : get[c].at = "no" /\ use[c] = "no"
    BY <1>6 DEF Term, Calling
  <2> QED
    BY <1>6, <2>1 DEF Term, MainGoes, HasInv, Mine, Starting, Ending, Joining, Released
<1>7. CASE LockRun \/ ClearRun \/ NotifyProcessor \/ JoinProcessor
  <2>1. UNCHANGED <<get, instance, ifInstance, made, ifOf, use, bus, lsPc>>
    BY <1>7 DEF LockRun, ClearRun, NotifyProcessor, JoinProcessor
  <2>2. /\ ~Starting /\ ~Starting' /\ mainPc' \notin {"beacon", "listen"} /\ Ending
        /\ mainPc \notin {"forget", "done"}
    BY <1>7 DEF LockRun, ClearRun, NotifyProcessor, JoinProcessor, MainGoes,
       Starting, Ending, Joining, Released
  <2> QED
    BY <2>1, <2>2, HasStays
<1>8. CASE ReleaseIf \/ Forget
  BY <1>0, <1>8 DEF ReleaseIf, Forget, MainGoes, HasInv, Mine, Starting, Ending, Joining, Released,
     None
<1>9. CASE ListenerNext \/ BeaconNext \/ Callback \/ Terminate \/ Spurious \/ UNCHANGED vars
             \/ \E m \in Manager : ProcessorNext(m)
  <2>1. UNCHANGED <<get, instance, ifInstance, made, ifOf, use, bus, mainPc>>
    BY <1>9 DEF ListenerNext, BeaconNext, Callback, Terminate, Spurious, ProcessorNext, vars
  <2>2. lsPc = "no" => lsPc' = "no"
    BY <1>9 DEF ListenerNext, ListenerTop, Pop, HandleOldTile, BeaconNext, Callback, Pushed,
       Terminate, Spurious, ProcessorNext, vars
  <2> QED
    BY <2>1, <2>2, HasStays DEF Ending, Joining, Released
<1>10. ASSUME NEW c \in Caller, CallArrives(c) PROVE HasInv'
  <2>1. /\ get'[c].at = "check" /\ get'[c].manager = get[c].manager
        /\ \A t \in Thread \ {c} : get'[t] = get[t]
    BY <1>0, <1>10 DEF CallArrives, Go, Getting
  <2>2. ~Ending
    BY <1>10 DEF CallArrives, HasInv
  <2> QED
    BY <1>10, <2>1, <2>2 DEF CallArrives, HasInv, Mine, Starting, Ending, Joining, Released
<1>11. ASSUME NEW c \in Caller, CallHas(c) PROVE HasInv'
  <2>1. /\ get'[c].at = "no" /\ get'[c].manager = instance
        /\ \A t \in Thread \ {c} : get'[t] = get[t]
    BY <1>0, <1>11 DEF CallHas, Getting
  <2>2. ~Ending
    BY <1>11 DEF CallHas, HasInv
  <2>3. instance # None /\ instance <= made
    BY <1>11, <2>2 DEF CallHas, HasInv, Ending, Released
  <2>4. \A d \in Caller \ {c} : use'[d] = use[d]
    BY <1>11 DEF CallHas, TypeOK
  <2>5. UNCHANGED <<mainPc, bus, lsPc, instance, ifInstance, made, ifOf>>
    BY <1>11 DEF CallHas
  <2>6. (Starting' <=> Starting) /\ ~Ending' /\ Mine' = Mine
    BY <2>1, <2>2, <2>5 DEF Starting, Ending, Joining, Released, Mine
  <2> QED
    BY <2>1, <2>2, <2>3, <2>4, <2>5, <2>6 DEF HasInv
<1>12. ASSUME NEW c \in Caller, CallQueues(c) \/ CallNotifies(c) PROVE HasInv'
  <2>1. UNCHANGED <<get, mainPc, bus, lsPc, instance, ifInstance, made, ifOf>>
    BY <1>12 DEF CallQueues, CallNotifies
  <2>2. use[c] # "no" /\ \A d \in Caller \ {c} : use'[d] = use[d]
    BY <1>12 DEF CallQueues, CallNotifies, TypeOK
  <2>3. ~Ending /\ get[c].manager # None
    BY <2>2 DEF HasInv
  <2>4. (Starting' <=> Starting) /\ ~Ending' /\ Mine' = Mine
    BY <2>1, <2>3 DEF Starting, Ending, Joining, Released, Mine
  <2> QED
    BY <2>1, <2>2, <2>3, <2>4 DEF HasInv
<1> QED
  BY <1>1, <1>2, <1>3, <1>4, <1>5, <1>6, <1>7, <1>8, <1>9, <1>10, <1>11, <1>12
     DEF Next, MainNext, CallNext

-----------------------------------------------------------------------------
(* Who makes a tile manager or an interface *)

LEMMA EarlyStays == TypeOK /\ [Next]_vars => early' \in {early, early + 1} /\ early \in Nat
<1> SUFFICES ASSUME TypeOK, [Next]_vars
             PROVE  early' \in {early, early + 1} /\ early \in Nat
  OBVIOUS
<1> USE DEF rpc
<1>1. ASSUME NEW c \in Caller, CallArrives(c)
      PROVE  early' \in {early, early + 1}
  BY <1>1 DEF CallArrives
<1>2. ASSUME NEW c \in Caller, CallNext(c) PROVE early' = early
  BY <1>2 DEF CallNext, GetStep, CallHas, CallQueues, CallNotifies
<1>3. ASSUME MainNext PROVE early' = early
  BY <1>3 DEF MainNext, Register, GetStep, MainHas, StartBeacon, StartListener, LeaveLoop,
     QuitFlag, QuitEvent, QuitBeacon, JoinListener, JoinBeacon, Term, LockRun, ClearRun,
     NotifyProcessor, JoinProcessor, ReleaseIf, Forget
<1>4. ASSUME \/ ListenerNext \/ BeaconNext \/ Callback \/ Terminate \/ Spurious
             \/ UNCHANGED vars \/ \E m \in Manager : ProcessorNext(m)
      PROVE  early' = early
  BY <1>4 DEF ListenerNext, BeaconNext, Callback, Terminate, Spurious, ProcessorNext, vars
<1> QED
  BY <1>1, <1>2, <1>3, <1>4 DEF Next, TypeOK

\* A subset is not larger, and smaller by the one that is missing.
LEMMA FewerMake ==
    ASSUME NEW S \in SUBSET Thread, NEW R \in SUBSET S
    PROVE  /\ Cardinality(R) <= Cardinality(S)
           /\ \A t \in S : t \notin R => Cardinality(R) + 1 <= Cardinality(S)
<1>1. IsFiniteSet(S) /\ Cardinality(S) \in Nat /\ Cardinality(R) \in Nat
  BY ThreadsFinite
<1>2. ASSUME NEW t \in S, t \notin R PROVE Cardinality(R) + 1 <= Cardinality(S)
  <2>1. IsFiniteSet(S \ {t}) /\ Cardinality(S \ {t}) = Cardinality(S) - 1
    BY <1>1, FS_RemoveElement
  <2>2. R \in SUBSET (S \ {t})
    BY <1>2
  <2>3. Cardinality(R) <= Cardinality(S \ {t})
    BY <2>1, <2>2, FS_Subset
  <2> QED
    BY <1>1, <2>1, <2>3
<1> QED
  BY <1>1, <1>2, FS_Subset

LEMMA OneMoreMakes ==
    ASSUME NEW S \in SUBSET Thread, NEW c \in Thread, NEW R \in SUBSET (S \cup {c})
    PROVE  Cardinality(R) <= Cardinality(S) + 1
<1>1. /\ IsFiniteSet(S) /\ Cardinality(S) \in Nat
      /\ S \cup {c} \in SUBSET Thread /\ R \in SUBSET Thread
  BY ThreadsFinite
<1>2. /\ Cardinality(S \cup {c}) = IF c \in S THEN Cardinality(S) ELSE Cardinality(S) + 1
      /\ Cardinality(S \cup {c}) \in Nat /\ Cardinality(R) \in Nat
  BY <1>1, FS_AddElement, ThreadsFinite
<1>3. Cardinality(R) <= Cardinality(S \cup {c})
  BY <1>1, FewerMake
<1> QED
  BY <1>1, <1>2, <1>3

\* Steps after which no more threads may make one than before.
LEMMA CountStays ==
    ASSUME TypeOK, CountInv, mainPc # "done",
           mainPc' # "register",
           Making' \subseteq Making, MakingIf' \subseteq MakingIf,
           UNCHANGED <<made, ifMade, early>>
    PROVE  CountInv'
<1>1. /\ Making \in SUBSET Thread /\ MakingIf \in SUBSET Thread
      /\ Making' \in SUBSET Making /\ MakingIf' \in SUBSET MakingIf
  BY DEF Making, MakingIf
<1>2. Cardinality(Making') <= Cardinality(Making) /\ Cardinality(MakingIf') <= Cardinality(MakingIf)
  BY <1>1, FewerMake
<1>3. /\ Cardinality(Making) \in Nat /\ Cardinality(MakingIf) \in Nat
      /\ Cardinality(Making') \in Nat /\ Cardinality(MakingIf') \in Nat
  BY <1>1, ThreadsFinite
<1>4. made \in Nat /\ ifMade \in Nat /\ early \in Nat
  BY DEF TypeOK
<1> QED
  BY <1>2, <1>3, <1>4 DEF CountInv

LEMMA CountGet ==
    ASSUME TypeOK, HasInv, CountInv, NEW t \in Thread, GetStep(t)
    PROVE  CountInv'
<1> USE DEF objects, rpc
<1>0. get \in [Thread -> Getting] /\ get[t] \in Getting
  BY DEF TypeOK
<1>1. mainPc' = mainPc /\ early' = early /\ mainPc # "register"
  BY DEF GetStep, GetCheck, GetIfCheck, GetIfNew, GetIfAssign, GetMake, GetAssign, GetFeature,
     CountInv
<1>2. \A u \in Thread \ {t} : get'[u] = get[u]
  BY GetDoes
<1>3. instance # None => instance' # None
  BY DEF GetStep, GetCheck, GetIfCheck, GetIfNew, GetIfAssign, GetMake, GetAssign, GetFeature, HasInv
<1>4. /\ t \in Making' => t \in Making /\ ~GetMake(t)
      /\ t \in MakingIf' => t \in MakingIf /\ ~GetIfNew(t)
  BY GetDoes
<1>5. Making' \subseteq Making /\ MakingIf' \subseteq MakingIf
  <2>1. ASSUME NEW u \in Thread, u # t
        PROVE  (u \in Making' => u \in Making) /\ (u \in MakingIf' => u \in MakingIf)
    BY <1>2, <1>3, <2>1 DEF Making, MakingIf
  <2> QED
    BY <1>4, <2>1 DEF Making, MakingIf
<1>6. CASE mainPc = "done"
  BY <1>1, <1>6 DEF CountInv
<1>7. CASE mainPc # "done" /\ UNCHANGED <<made, ifMade>>
  BY <1>1, <1>5, <1>7, CountStays
\* The one thread that makes it is not among them any more.
<1>8. CASE mainPc # "done" /\ (GetMake(t) \/ GetIfNew(t))
  <2>1. /\ Making \in SUBSET Thread /\ MakingIf \in SUBSET Thread
        /\ Making' \in SUBSET Making /\ MakingIf' \in SUBSET MakingIf
    BY <1>5 DEF Making, MakingIf
  <2>2. /\ Cardinality(Making) \in Nat /\ Cardinality(MakingIf) \in Nat
        /\ Cardinality(Making') \in Nat /\ Cardinality(MakingIf') \in Nat
    BY <2>1, ThreadsFinite
  <2>3. made \in Nat /\ ifMade \in Nat /\ early \in Nat
    BY DEF TypeOK
  <2>4. Cardinality(Making') <= Cardinality(Making)
          /\ Cardinality(MakingIf') <= Cardinality(MakingIf)
    BY <2>1, FewerMake
  <2>5. CASE GetMake(t)
    <3>1. t \in Making /\ t \notin Making'
      BY <1>4, <2>5 DEF GetMake, Making
    <3>2. Cardinality(Making') + 1 <= Cardinality(Making)
      BY <2>1, <3>1, FewerMake
    <3>3. made' = made + 1 /\ ifMade' = ifMade
      BY <2>5 DEF GetMake
    <3> QED
      BY <1>1, <1>8, <2>2, <2>3, <2>4, <3>2, <3>3 DEF CountInv
  <2>6. CASE GetIfNew(t)
    <3>1. t \in MakingIf /\ t \notin MakingIf'
      BY <1>4, <2>6 DEF GetIfNew, MakingIf
    <3>2. Cardinality(MakingIf') + 1 <= Cardinality(MakingIf)
      BY <2>1, <3>1, FewerMake
    <3>3. made' = made /\ ifMade' = ifMade + 1
      BY <2>6 DEF GetIfNew
    <3> QED
      BY <1>1, <1>8, <2>2, <2>3, <2>4, <3>2, <3>3 DEF CountInv
  <2> QED
    BY <1>8, <2>5, <2>6
<1> QED
  BY <1>6, <1>7, <1>8 DEF GetStep, GetCheck, GetIfCheck, GetIfAssign, GetAssign, GetFeature

\* A call that comes late finds the tile manager.
LEMMA CountArrives ==
    ASSUME TypeOK, HasInv, CountInv, NEW c \in Caller, CallArrives(c)
    PROVE  CountInv'
<1> USE MainIsThread DEF objects
<1>0. get \in [Thread -> Getting] /\ get[c] \in Getting
  BY DEF TypeOK
<1>1. /\ mainPc' = mainPc /\ mainPc # "register"
      /\ UNCHANGED <<made, ifMade, instance>>
  BY DEF CallArrives, CountInv
<1>2. get'[c].at = "check" /\ \A u \in Thread \ {c} : get'[u] = get[u]
  BY <1>0 DEF CallArrives, Go, Getting
<1>3. CASE mainPc = "done"
  BY <1>1, <1>3 DEF CountInv
<1>4. CASE mainPc \notin {"get", "done"}
  <2>1. instance # None
    BY <1>1, <1>4 DEF HasInv, Starting
  <2>2. Making' \subseteq Making /\ MakingIf' \subseteq MakingIf
    BY <1>1, <1>2, <2>1 DEF Making, MakingIf
  <2>3. early' = early
    BY <1>1, <1>4 DEF CallArrives
  <2> QED
    BY <1>1, <1>4, <2>2, <2>3, CountStays
<1>5. CASE mainPc = "get"
  <2>1. Making' \subseteq Making \cup {c} /\ MakingIf' \subseteq MakingIf \cup {c}
    BY <1>1, <1>2 DEF Making, MakingIf
  <2>2. Making \in SUBSET Thread /\ MakingIf \in SUBSET Thread
    BY DEF Making, MakingIf
  <2>3. /\ Cardinality(Making') <= Cardinality(Making) + 1
        /\ Cardinality(MakingIf') <= Cardinality(MakingIf) + 1
    BY <2>1, <2>2, OneMoreMakes
  <2>4. /\ Cardinality(Making) \in Nat /\ Cardinality(MakingIf) \in Nat
        /\ Cardinality(Making') \in Nat /\ Cardinality(MakingIf') \in Nat
    BY <2>1, <2>2, ThreadsFinite
  <2>7. early' = early + 1
    BY <1>5 DEF CallArrives
  <2>8. made \in Nat /\ ifMade \in Nat /\ early \in Nat
    BY DEF TypeOK
  <2> QED
    BY <1>1, <1>5, <2>3, <2>4, <2>7, <2>8 DEF CountInv
<1> QED
  BY <1>1, <1>3, <1>4, <1>5

LEMMA CountStep == TypeOK /\ HasInv /\ CountInv /\ [Next]_vars => CountInv'
<1> SUFFICES ASSUME TypeOK, HasInv, CountInv, [Next]_vars PROVE CountInv'
  OBVIOUS
<1> USE MainIsThread DEF objects, rpc
<1>0. get \in [Thread -> Getting] /\ \A t \in Thread : get[t] \in Getting
  BY DEF TypeOK
<1>1. CASE Register
  <2>1. Making' \subseteq {"main"} /\ MakingIf' \subseteq {"main"}
    BY <1>0, <1>1 DEF Register, MainGoes, Go, CountInv, Making, MakingIf
  <2>2. Cardinality(Making') <= 1 /\ Cardinality(MakingIf') <= 1
    <3>1. Cardinality({"main"}) = 1 /\ {"main"} \in SUBSET Thread
      BY FS_Singleton
    <3> QED
      BY <2>1, <3>1, FewerMake
  <2>3. mainPc' = "get" /\ made' = 0 /\ ifMade' = 0 /\ early' = early /\ early \in Nat
    BY <1>1 DEF Register, MainGoes, CountInv, TypeOK
  <2>4. Cardinality(Making') \in Nat /\ Cardinality(MakingIf') \in Nat
    BY <2>1, ThreadsFinite
  <2> QED
    BY <2>2, <2>3, <2>4 DEF CountInv
<1>2. ASSUME NEW t \in Thread, GetStep(t) PROVE CountInv'
  BY <1>2, CountGet
<1>3. ASSUME NEW c \in Caller, CallArrives(c) PROVE CountInv'
  BY <1>3, CountArrives
\* A thread that has what it asked for makes none.
<1>4. ASSUME NEW t \in Thread, get[t].at = "return",
             \A u \in Thread \ {t} : get'[u] = get[u], get'[t].at = "no",
             UNCHANGED <<instance, made, ifMade, early>>, mainPc' # "register",
             mainPc' = "done" <=> mainPc = "done"
      PROVE  CountInv'
  <2>1. Making' \subseteq Making /\ MakingIf' \subseteq MakingIf
    BY <1>4 DEF Making, MakingIf
  <2> QED
    BY <1>4, <2>1, CountStays DEF CountInv
<1>5. CASE MainHas
  <2>1. get'["main"].at = "no" /\ \A u \in Thread \ {"main"} : get'[u] = get[u]
    BY <1>0, <1>5 DEF MainHas, Getting
  <2> QED
    BY <1>4, <1>5, <2>1 DEF MainHas, MainGoes
<1>6. ASSUME NEW c \in Caller, CallHas(c) PROVE CountInv'
  <2>1. get'[c].at = "no" /\ \A u \in Thread \ {c} : get'[u] = get[u]
    BY <1>0, <1>6 DEF CallHas, Getting
  <2>2. mainPc # "register"
    BY <1>6 DEF CallHas, CountInv
  <2> QED
    BY <1>4, <1>6, <2>1, <2>2 DEF CallHas
<1>7. CASE Forget
  BY <1>7 DEF Forget, MainGoes, CountInv
<1>8. ASSUME get' = get, UNCHANGED <<instance, made, ifMade, early, bus>>,
             mainPc' = mainPc \/ (mainPc' \notin {"register", "done"} /\ mainPc # "done")
      PROVE  CountInv'
  BY <1>8 DEF CountInv, Making, MakingIf
<1>9. CASE StartBeacon \/ StartListener \/ LeaveLoop \/ QuitFlag \/ QuitEvent \/ QuitBeacon
             \/ JoinListener \/ JoinBeacon \/ LockRun \/ ClearRun \/ NotifyProcessor
             \/ JoinProcessor \/ ReleaseIf
  BY <1>8, <1>9 DEF StartBeacon, StartListener, LeaveLoop, QuitFlag, QuitEvent, QuitBeacon,
     JoinListener, JoinBeacon, LockRun, ClearRun, NotifyProcessor, JoinProcessor, ReleaseIf, MainGoes
<1>10. CASE Term
  BY <1>10 DEF Term, MainGoes, CountInv, Making, MakingIf
<1>11. CASE ListenerNext \/ BeaconNext \/ Callback \/ Terminate \/ Spurious \/ UNCHANGED vars
              \/ \E m \in Manager : ProcessorNext(m)
  BY <1>8, <1>11 DEF ListenerNext, BeaconNext, Callback, Terminate, Spurious, ProcessorNext, vars
<1>12. ASSUME NEW c \in Caller, CallQueues(c) \/ CallNotifies(c) PROVE CountInv'
  BY <1>8, <1>12 DEF CallQueues, CallNotifies
<1> QED
  BY <1>1, <1>2, <1>3, <1>5, <1>6, <1>7, <1>9, <1>10, <1>11, <1>12 DEF Next, MainNext, CallNext

-----------------------------------------------------------------------------
(* One interface, one tile manager *)

\* A caller finds the tile manager in the static.
LEMMA CallerFinds ==
    ASSUME LifeInv, NEW c \in Caller, GetStep(c)
    PROVE  /\ get[c].at = "check" /\ Go(c, "return") /\ ~Starting /\ ~Ending
           /\ UNCHANGED <<objects, procPc>>
<1>1. get[c].at \in {"check", "return"} /\ ~Starting /\ ~Ending
  BY DEF LifeInv, CallInv, GetStep, GetCheck, GetIfCheck, GetIfNew, GetIfAssign, GetMake,
         GetAssign, GetFeature
<1>2. instance = 1
  BY <1>1, AllIsOne DEF Ending, Released
<1>3. GetCheck(c) /\ UNCHANGED procPc
  BY <1>1 DEF GetStep, GetCheck, GetIfCheck, GetIfNew, GetIfAssign, GetMake, GetAssign, GetFeature
<1> QED
  BY <1>1, <1>2, <1>3, OneIsManager DEF GetCheck

\* What a step leaves alone, and where main may not go, for MadeInv to stay.
LEMMA MadeStays ==
    ASSUME LifeInv,
           get'["main"] = get["main"],
           UNCHANGED <<instance, ifInstance, made, ifMade, ifOf>>,
           \A m \in Manager \ {1} : procPc[m] = "no" => procPc'[m] = "no",
           mainPc' = mainPc \/ (~Starting /\ ~Starting' /\ mainPc' \notin {"forget", "done"}
                                  /\ mainPc \notin {"forget", "done"})
    PROVE  MadeInv'
  BY DEF LifeInv, MadeInv, Before, Starting

LEMMA MadeGet == LifeInv /\ GetStep("main") => MadeInv'
<1> SUFFICES ASSUME LifeInv, GetStep("main") PROVE MadeInv'
  OBVIOUS
<1> USE MainIsThread, OneIsManager DEF objects
<1>0. TypeOK /\ MadeInv /\ get["main"] \in Getting /\ get \in [Thread -> Getting]
  BY DEF LifeInv, TypeOK
<1>1. get["main"].at # "no" /\ mainPc = "get" /\ mainPc' = mainPc /\ Starting /\ Starting'
  BY <1>0 DEF GetStep, GetCheck, GetIfCheck, GetIfNew, GetIfAssign, GetMake, GetAssign, GetFeature,
         MadeInv, Starting
<1>2. \A where : Go("main", where) =>
        get'["main"].at = where /\ get'["main"].iface = get["main"].iface
          /\ get'["main"].manager = get["main"].manager
  BY <1>0 DEF Go, Getting
<1>3. CASE GetCheck("main") /\ UNCHANGED procPc
  <2>1. instance = None
    BY <1>0, <1>1, <1>3 DEF GetCheck, MadeInv, Before
  <2>2. get'["main"].at = "ifCheck"
    BY <1>2, <1>3, <2>1 DEF GetCheck
  <2> QED
    BY <1>0, <1>1, <1>3, <2>2 DEF GetCheck, MadeInv, Before
<1>4. CASE GetIfCheck("main") /\ UNCHANGED procPc
  <2>1. ifInstance = None
    BY <1>0, <1>1, <1>4 DEF GetIfCheck, MadeInv, Before
  <2>2. get'["main"].at = "ifNew"
    BY <1>0, <1>4, <2>1 DEF GetIfCheck, Getting
  <2> QED
    BY <1>0, <1>1, <1>4, <2>2 DEF GetIfCheck, MadeInv, Before
<1>5. CASE GetIfNew("main") /\ UNCHANGED procPc
  <2>1. get'["main"].at = "ifAssign" /\ get'["main"].iface = ifMade'
    BY <1>0, <1>5 DEF GetIfNew, Getting
  <2>2. ifMade' = 1
    BY <1>0, <1>1, <1>5 DEF GetIfNew, MadeInv, Before
  <2> QED
    BY <1>0, <1>1, <1>5, <2>1, <2>2 DEF GetIfNew, MadeInv, Before
<1>6. CASE GetIfAssign("main") /\ UNCHANGED procPc
  <2>1. get'["main"].at = "make" /\ get'["main"].iface = get["main"].iface
    BY <1>2, <1>6 DEF GetIfAssign
  <2>2. get["main"].iface = 1
    BY <1>0, <1>6 DEF GetIfAssign, MadeInv
  <2> QED
    BY <1>0, <1>1, <1>6, <2>1, <2>2 DEF GetIfAssign, MadeInv, Before
<1>7. CASE GetMake("main")
  <2>1. get'["main"].at = "assign" /\ get'["main"].manager = made'
    BY <1>0, <1>7 DEF GetMake, Getting
  <2>2. made' = 1 /\ get["main"].iface = 1
    BY <1>0, <1>1, <1>7 DEF GetMake, MadeInv, Before
  <2>3. ifOf'[1] = 1 /\ \A m \in Manager \ {1} : ifOf'[m] = ifOf[m] /\ procPc'[m] = procPc[m]
    BY <1>0, <1>7, <2>2 DEF GetMake, TypeOK
  <2> QED
    BY <1>0, <1>1, <1>7, <2>1, <2>2, <2>3 DEF GetMake, MadeInv, Before
<1>8. CASE GetAssign("main") /\ UNCHANGED procPc
  <2>1. get'["main"].at = "feature"
    BY <1>2, <1>8 DEF GetAssign
  <2>2. instance' = 1
    BY <1>0, <1>8 DEF GetAssign, MadeInv
  <2> QED
    BY <1>0, <1>1, <1>8, <2>1, <2>2 DEF GetAssign, MadeInv, Before
<1>9. CASE GetFeature("main") /\ UNCHANGED procPc
  <2>1. get'["main"].at = "return"
    BY <1>2, <1>9 DEF GetFeature
  <2> QED
    BY <1>0, <1>1, <1>9, <2>1 DEF GetFeature, MadeInv, Before
<1> QED
  BY <1>3, <1>4, <1>5, <1>6, <1>7, <1>8, <1>9 DEF GetStep

LEMMA MadeStep == early' = 0 /\ LifeInv /\ [Next]_vars => MadeInv'
<1> SUFFICES ASSUME early' = 0, LifeInv, [Next]_vars PROVE MadeInv'
  OBVIOUS
<1> USE MainIsThread, OneIsManager DEF objects, processor
<1>0. TypeOK /\ MadeInv /\ get["main"] \in Getting /\ get \in [Thread -> Getting]
  BY DEF LifeInv, TypeOK
<1>1. CASE Register
  <2>1. get'["main"].at = "check"
    BY <1>0, <1>1 DEF Register, Go, Getting
  <2> QED
    BY <1>0, <1>1, <2>1 DEF Register, MainGoes, MadeInv, Before, Starting
<1>2. CASE GetStep("main")
  BY <1>2, MadeGet
<1>3. CASE MainHas
  <2>1. get'["main"].at = "no" /\ get'["main"].manager = instance
    BY <1>0, <1>3 DEF MainHas, Getting
  <2>2. instance = 1 /\ mainPc = "get" /\ mainPc' = "beacon"
    BY <1>0, <1>3 DEF MainHas, MainGoes, MadeInv, Before
  <2> QED
    BY <1>0, <1>3, <2>1, <2>2 DEF MainHas, MadeInv, Before, Starting
<1>4. CASE StartBeacon \/ StartListener \/ LeaveLoop \/ QuitFlag \/ QuitEvent \/ QuitBeacon
             \/ JoinListener \/ JoinBeacon \/ Term \/ LockRun \/ ClearRun
  <2>1. UNCHANGED <<get, objects, procPc>>
    BY <1>4 DEF StartBeacon, StartListener, LeaveLoop, QuitFlag, QuitEvent, QuitBeacon,
       JoinListener, JoinBeacon, Term, LockRun, ClearRun
  <2>2. ~Starting /\ ~Starting' /\ mainPc' \notin {"forget", "done"} /\ mainPc \notin {"forget", "done"}
    BY <1>4 DEF StartBeacon, StartListener, LeaveLoop, QuitFlag, QuitEvent, QuitBeacon,
       JoinListener, JoinBeacon, Term, LockRun, ClearRun, MainGoes, Starting
  <2> QED
    BY <2>1, <2>2, MadeStays
<1>5. CASE NotifyProcessor \/ JoinProcessor
  <2>1. UNCHANGED <<get, instance, ifInstance, made, ifMade, ifOf>>
    BY <1>5 DEF NotifyProcessor, JoinProcessor
  <2>2. \A m \in Manager \ {1} : procPc[m] = "no" => procPc'[m] = "no"
    BY <1>0, <1>5 DEF NotifyProcessor, JoinProcessor, Woken, TypeOK
  <2>3. ~Starting /\ ~Starting' /\ mainPc' \notin {"forget", "done"} /\ mainPc \notin {"forget", "done"}
    BY <1>5 DEF NotifyProcessor, JoinProcessor, MainGoes, Starting
  <2> QED
    BY <2>1, <2>2, <2>3, MadeStays
<1>6. CASE ReleaseIf
  BY <1>0, <1>6 DEF ReleaseIf, MainGoes, MadeInv, Before, Starting
<1>7. CASE Forget
  BY <1>0, <1>7 DEF Forget, MainGoes, MadeInv, Before, Starting
<1>8. CASE ListenerNext \/ BeaconNext \/ Callback \/ Terminate \/ UNCHANGED vars
  <2>1. UNCHANGED <<get, objects, procPc, mainPc>>
    BY <1>8 DEF ListenerNext, BeaconNext, Callback, Terminate, vars
  <2> QED
    BY <2>1, MadeStays
<1>9. CASE Spurious
  <2>1. \A m \in Manager \ {1} : procPc[m] = "no" => procPc'[m] = "no"
    BY <1>0, <1>9 DEF Spurious, ProcessorGoes, TypeOK
  <2> QED
    BY <1>9, <2>1, MadeStays DEF Spurious
<1>10. ASSUME NEW m \in Manager, ProcessorNext(m) PROVE MadeInv'
  <2>1. \A k \in Manager : procPc[k] = "no" => procPc'[k] = "no"
    BY <1>0, <1>10 DEF ProcessorNext, ProcessorGoes, ProcessorTop, ProcessorLock, ProcessorTake,
       ProcessorQuits, ProcessorWaits, ProcessorParks, ProcessorWorks, TypeOK
  <2> QED
    BY <1>10, <2>1, MadeStays DEF ProcessorNext
<1>11. ASSUME NEW c \in Caller, CallArrives(c) \/ CallNext(c) PROVE MadeInv'
  <2>1. get'["main"] = get["main"]
    <3>1. CASE GetStep(c)
      BY <1>0, <3>1, CallerFinds DEF Go
    <3>2. CASE CallArrives(c) \/ CallHas(c) \/ CallQueues(c) \/ CallNotifies(c)
      BY <1>0, <3>2 DEF CallArrives, CallHas, CallQueues, CallNotifies, Go
    <3> QED
      BY <1>11, <3>1, <3>2 DEF CallNext
  <2>2. UNCHANGED <<instance, ifInstance, made, ifMade, ifOf, mainPc>>
    <3>1. CASE GetStep(c)
      BY <3>1, CallerFinds DEF GetStep
    <3>2. CASE CallArrives(c) \/ CallHas(c) \/ CallQueues(c) \/ CallNotifies(c)
      BY <3>2 DEF CallArrives, CallHas, CallQueues, CallNotifies
    <3> QED
      BY <1>11, <3>1, <3>2 DEF CallNext
  <2>3. \A m \in Manager \ {1} : procPc[m] = "no" => procPc'[m] = "no"
    <3>1. CASE GetStep(c)
      BY <3>1, CallerFinds
    <3>2. CASE CallArrives(c) \/ CallHas(c) \/ CallQueues(c) \/ CallNotifies(c)
      BY <1>0, <3>2 DEF CallArrives, CallHas, CallQueues, CallNotifies, Woken, TypeOK
    <3> QED
      BY <1>11, <3>1, <3>2 DEF CallNext
  <2> QED
    BY <2>1, <2>2, <2>3, MadeStays
<1> QED
  BY <1>1, <1>2, <1>3, <1>4, <1>5, <1>6, <1>7, <1>8, <1>9, <1>10, <1>11 DEF Next, MainNext

-----------------------------------------------------------------------------
(* Calls *)

\* Steps that change no call, and of main only its place.
LEMMA CallStays ==
    ASSUME LifeInv,
           \A c \in Caller : get'[c] = get[c],
           UNCHANGED <<use, bus>>,
           (Starting' \/ Ending') => (Starting \/ Ending),
           Ending' => Ending
    PROVE  CallInv'
  BY DEF LifeInv, CallInv

LEMMA CallStep == early' = 0 /\ TermWaits /\ LifeInv /\ [Next]_vars => CallInv'
<1> SUFFICES ASSUME early' = 0, TermWaits, LifeInv, [Next]_vars PROVE CallInv'
  OBVIOUS
<1> USE MainIsThread, OneIsManager DEF rpc
<1>0. TypeOK /\ CallInv /\ get \in [Thread -> Getting] /\ \A c \in Caller : get[c] \in Getting
  BY DEF LifeInv, TypeOK
<1>1. CASE Register \/ GetStep("main") \/ MainHas
  <2>1. \A c \in Caller : get'[c] = get[c]
    BY <1>0, <1>1 DEF Register, GetStep, GetCheck, GetIfCheck, GetIfNew, GetIfAssign, GetMake,
       GetAssign, GetFeature, MainHas, Go
  <2>2. use' = use /\ Starting /\ ~Ending'
    BY <1>1 DEF Register, GetStep, GetCheck, GetIfCheck, GetIfNew, GetIfAssign, GetMake,
       GetAssign, GetFeature, MainHas, MainGoes, Starting, Ending, Joining, Released,
       LifeInv, MadeInv
  <2>3. \A c \in Caller : get[c].at = "no" /\ use[c] = "no"
    BY <1>0, <2>2 DEF CallInv
  <2> QED
    BY <2>1, <2>2, <2>3 DEF CallInv
<1>2. CASE StartBeacon \/ StartListener \/ LeaveLoop \/ QuitFlag \/ QuitEvent \/ QuitBeacon
             \/ JoinListener \/ JoinBeacon
  <2>1. UNCHANGED <<get, use, bus>>
    BY <1>2 DEF StartBeacon, StartListener, LeaveLoop, QuitFlag, QuitEvent, QuitBeacon,
       JoinListener, JoinBeacon
  <2>2. ~Starting' /\ ~Ending'
    BY <1>2 DEF StartBeacon, StartListener, LeaveLoop, QuitFlag, QuitEvent, QuitBeacon,
       JoinListener, JoinBeacon, MainGoes, Starting, Ending, Joining, Released
  <2> QED
    BY <2>1, <2>2, CallStays
\* Leaving the bus waits for the calls.
<1>3. CASE Term
  <2>1. \A c \in Caller : get[c].at = "no" /\ use[c] = "no"
    BY <1>3 DEF Term, Calling
  <2>2. UNCHANGED <<get, use>> /\ ~bus'
    BY <1>0, <1>3 DEF Term, TypeOK
  <2> QED
    BY <2>1, <2>2 DEF CallInv
<1>4. CASE LockRun \/ ClearRun \/ NotifyProcessor \/ JoinProcessor \/ ReleaseIf \/ Forget
  <2>1. UNCHANGED <<get, use, bus>>
    BY <1>4 DEF LockRun, ClearRun, NotifyProcessor, JoinProcessor, ReleaseIf, Forget
  <2>2. Ending /\ ~Starting'
    BY <1>4 DEF LockRun, ClearRun, NotifyProcessor, JoinProcessor, ReleaseIf, Forget, MainGoes,
       Starting, Ending, Joining, Released
  <2> QED
    BY <2>1, <2>2, CallStays
<1>5. CASE ListenerNext \/ BeaconNext \/ Callback \/ Terminate \/ Spurious \/ UNCHANGED vars
             \/ \E m \in Manager : ProcessorNext(m)
  <2>1. UNCHANGED <<get, use, bus, mainPc>>
    BY <1>5 DEF ListenerNext, BeaconNext, Callback, Terminate, Spurious, ProcessorNext, vars
  <2>2. (Starting' <=> Starting) /\ (Ending' <=> Ending)
    BY <2>1 DEF Starting, Ending, Joining, Released
  <2> QED
    BY <2>1, <2>2, CallStays
<1>6. ASSUME NEW c \in Caller, CallArrives(c) \/ CallNext(c) PROVE CallInv'
  <2>1. ~Starting /\ ~Ending
    <3>1. CASE CallArrives(c)
      BY <1>0, <3>1 DEF CallArrives, Starting, CallInv, TypeOK
    <3>2. CASE CallNext(c)
      BY <1>0, <3>2, CallerFinds DEF CallNext, CallHas, CallQueues, CallNotifies, CallInv
    <3> QED
      BY <1>6, <3>1, <3>2
  <2>2. UNCHANGED <<mainPc, bus>>
    BY <1>6 DEF CallArrives, CallNext, GetStep, CallHas, CallQueues, CallNotifies
  <2>3. ~Starting' /\ ~Ending'
    BY <2>1, <2>2 DEF Starting, Ending, Joining, Released
  <2>4. \A d \in Caller \ {c} : get'[d] = get[d] /\ use'[d] = use[d]
    <3>1. CASE GetStep(c)
      BY <1>0, <3>1, CallerFinds DEF Go, GetStep
    <3>2. CASE CallArrives(c) \/ CallHas(c) \/ CallQueues(c) \/ CallNotifies(c)
      BY <1>0, <3>2 DEF CallArrives, CallHas, CallQueues, CallNotifies, Go, TypeOK
    <3> QED
      BY <1>6, <3>1, <3>2 DEF CallNext
  <2>5. get'[c].at \in {"no", "check", "return"} /\ (use'[c] # "no" => get'[c].manager = 1)
    <3>1. CASE CallArrives(c)
      <4>1. get'[c].at = "check" /\ get'[c].manager = get[c].manager /\ use' = use
        BY <1>0, <3>1 DEF CallArrives, Go, Getting
      <4> QED
        BY <1>0, <4>1 DEF CallInv
    <3>2. CASE GetStep(c)
      <4>1. get'[c].at = "return" /\ get'[c].manager = get[c].manager /\ use' = use
        BY <1>0, <3>2, CallerFinds DEF Go, Getting, GetStep
      <4> QED
        BY <1>0, <4>1 DEF CallInv
    <3>3. CASE CallHas(c)
      <4>1. get'[c].at = "no" /\ get'[c].manager = instance
        BY <1>0, <3>3 DEF CallHas, Getting
      <4>2. instance = 1
        BY <2>1, AllIsOne DEF Ending, Released
      <4> QED
        BY <4>1, <4>2
    <3>4. CASE CallQueues(c) \/ CallNotifies(c)
      <4>1. get' = get /\ use[c] # "no"
        BY <3>4 DEF CallQueues, CallNotifies
      <4> QED
        BY <1>0, <4>1 DEF CallInv
    <3> QED
      BY <1>6, <3>1, <3>2, <3>3, <3>4 DEF CallNext
  <2> QED
    BY <1>0, <2>2, <2>3, <2>4, <2>5 DEF CallInv
<1> QED
  BY <1>1, <1>2, <1>3, <1>4, <1>5, <1>6 DEF Next, MainNext

-----------------------------------------------------------------------------
(* What has ended *)

\* Steps that end nothing and begin nothing.
LEMMA EndStays ==
    ASSUME LifeInv,
           UNCHANGED <<mainPc, gone, ifGone>>,
           lsPc \in {"no", "done"} => lsPc' = lsPc,
           at = "done" => at' = "done",
           procPc[1] = "done" => procPc'[1] = "done"
    PROVE  EndInv'
  BY DEF LifeInv, EndInv, Starting, Ending, Joining, Released

LEMMA EndStep == LifeInv /\ [Next]_vars => EndInv'
<1> SUFFICES ASSUME LifeInv, [Next]_vars PROVE EndInv'
  OBVIOUS
<1> USE OneIsManager DEF objects, listener, processor
<1>0. TypeOK /\ EndInv
  BY DEF LifeInv
<1>1. CASE Register \/ MainHas \/ StartBeacon
  BY <1>0, <1>1 DEF Register, MainHas, StartBeacon, MainGoes, EndInv, Starting, Ending, Joining,
     Released
<1>2. CASE StartListener \/ LeaveLoop \/ QuitFlag
  BY <1>0, <1>2 DEF StartListener, LeaveLoop, QuitFlag, MainGoes, EndInv, Starting, Ending,
     Joining, Released
<1>3. CASE QuitEvent
  BY <1>0, <1>3 DEF QuitEvent, Pushed, MainGoes, EndInv, Starting, Ending, Joining, Released
<1>4. CASE QuitBeacon
  BY <1>0, <1>4 DEF QuitBeacon, MainGoes, EndInv, Starting, Ending, Joining, Released
<1>5. CASE JoinListener \/ JoinBeacon
  BY <1>0, <1>5 DEF JoinListener, JoinBeacon, MainGoes, EndInv, Starting, Ending, Joining, Released
<1>6. CASE Term \/ LockRun \/ ClearRun
  BY <1>0, <1>6 DEF Term, LockRun, ClearRun, MainGoes, EndInv, Starting, Ending, Joining, Released
<1>7. CASE NotifyProcessor
  BY <1>0, <1>7 DEF NotifyProcessor, MainGoes, EndInv, Starting, Ending, Joining, Released
<1>8. CASE JoinProcessor
  <2>1. instance = 1
    BY <1>8, AllIsOne DEF JoinProcessor, MainGoes, Starting
  <2> QED
    BY <1>0, <1>8, <2>1 DEF JoinProcessor, MainGoes, EndInv, Starting, Ending, Joining, Released
<1>9. CASE ReleaseIf
  <2>1. ifInstance = 1
    BY <1>9, AllIsOne DEF ReleaseIf, MainGoes, Starting
  <2> QED
    BY <1>0, <1>9, <2>1 DEF ReleaseIf, MainGoes, EndInv, Starting, Ending, Joining, Released
<1>10. CASE Forget
  BY <1>0, <1>10 DEF Forget, MainGoes, EndInv, Starting, Ending, Joining, Released
<1>11. CASE GetStep("main")
  <2>1. UNCHANGED <<mainPc, gone, ifGone, lsPc, at>>
    BY <1>11 DEF GetStep, GetCheck, GetIfCheck, GetIfNew, GetIfAssign, GetMake, GetAssign, GetFeature
  <2>2. ~Released
    BY <1>11 DEF GetStep, GetCheck, GetIfCheck, GetIfNew, GetIfAssign, GetMake, GetAssign,
       GetFeature, LifeInv, MadeInv, Released
  <2> QED
    BY <1>0, <2>1, <2>2 DEF EndInv, Starting, Ending, Joining, Released
<1>12. CASE ListenerNext
  BY <1>0, <1>12, EndStays DEF ListenerNext, ListenerTop, Pop, HandleOldTile
<1>13. CASE BeaconNext
  BY <1>0, <1>13, EndStays DEF BeaconNext, Beacon!StopWorking, Beacon!StoreLimit
<1>14. CASE Callback \/ Terminate
  BY <1>0, <1>14, EndStays DEF Callback, Pushed, Terminate
<1>15. CASE Spurious
  BY <1>0, <1>15, EndStays DEF Spurious, ProcessorGoes, TypeOK
<1>16. ASSUME NEW m \in Manager, ProcessorNext(m) PROVE EndInv'
  <2>1. procPc[1] = "done" => procPc'[1] = "done"
    BY <1>0, <1>16 DEF ProcessorNext, ProcessorGoes, ProcessorTop, ProcessorLock, ProcessorTake,
       ProcessorQuits, ProcessorWaits, ProcessorParks, ProcessorWorks, TypeOK
  <2> QED
    BY <1>16, <2>1, EndStays DEF ProcessorNext
<1>17. ASSUME NEW c \in Caller, CallArrives(c) \/ CallNext(c) PROVE EndInv'
  <2>1. procPc[1] = "done" => procPc'[1] = "done"
    <3>1. CASE GetStep(c)
      BY <3>1, CallerFinds
    <3>2. CASE CallArrives(c) \/ CallHas(c) \/ CallQueues(c) \/ CallNotifies(c)
      BY <1>0, <3>2 DEF CallArrives, CallHas, CallQueues, CallNotifies, Woken, TypeOK
    <3> QED
      BY <1>17, <3>1, <3>2 DEF CallNext
  <2>2. UNCHANGED <<mainPc, gone, ifGone, lsPc, at>>
    <3>1. CASE GetStep(c)
      BY <3>1, CallerFinds DEF GetStep
    <3>2. CASE CallArrives(c) \/ CallHas(c) \/ CallQueues(c) \/ CallNotifies(c)
      BY <3>2 DEF CallArrives, CallHas, CallQueues, CallNotifies
    <3> QED
      BY <1>17, <3>1, <3>2 DEF CallNext
  <2> QED
    BY <2>1, <2>2, EndStays
<1>18. CASE UNCHANGED vars
  BY <1>18, EndStays DEF vars
<1> QED
  BY <1>1, <1>2, <1>3, <1>4, <1>5, <1>6, <1>7, <1>8, <1>9, <1>10, <1>11, <1>12, <1>13, <1>14,
     <1>15, <1>16, <1>17, <1>18 DEF Next, MainNext

-----------------------------------------------------------------------------
(* Theorems *)

LEMMA LifeCorrect ==
    ASSUME TermWaits
    PROVE  Spec => []Inv
<1>1. Inv /\ [Next]_vars => Inv'
  <2> SUFFICES ASSUME Inv, [Next]_vars PROVE Inv'
    OBVIOUS
  <2>1. TypeOK' /\ HasInv' /\ CountInv'
    BY TypeStep, HasStep, CountStep DEF Inv
  <2>2. early' = 0 => early = 0
    BY EarlyStays DEF Inv
  <2>3. early' = 0 => LifeInv'
    BY <2>1, <2>2, MadeStep, CallStep, EndStep DEF LifeInv, Inv
  <2> QED
    BY <2>1, <2>3 DEF Inv
<1> QED
  BY <1>1, LifeInit, PTL DEF Spec

\* The queues never run below empty, and what is indexed exists: the
\* listener and the processor take only what was put there, whoever made the
\* tile managers and interfaces.
THEOREM TypeCorrect ==
    ASSUME TermWaits
    PROVE  Spec => []TypeOK
<1>1. Inv => TypeOK
  BY DEF Inv
<1> QED
  BY <1>1, LifeCorrect, PTL

\* Nothing is deleted before its threads have ended, whatever arrives while
\* the process ends, unless a call came before main had its tile manager.
THEOREM ReleaseCorrect ==
    ASSUME TermWaits
    PROVE  Spec => []NothingOnReleased
<1>1. Inv => NothingOnReleased
  <2> SUFFICES ASSUME LifeInv
               PROVE  /\ \A m \in gone : ThreadsEnded(m) /\ Users(m) = {}
                      /\ \A i \in ifGone : \A m \in Manager : ifOf[m] = i => ThreadsEnded(m)
    BY DEF Inv, NothingOnReleased
  <2>1. \A m \in gone : ThreadsEnded(m) /\ Users(m) = {}
    <3> SUFFICES ASSUME NEW m \in gone PROVE ThreadsEnded(m) /\ Users(m) = {}
      OBVIOUS
    <3>1. m = 1 /\ Released /\ procPc[1] = "done"
      BY DEF LifeInv, EndInv
    <3>2. lsPc = "done" /\ at = "done" /\ \A c \in Caller : use[c] = "no"
      BY <3>1 DEF LifeInv, EndInv, CallInv, Ending
    <3> QED
      BY <3>1, <3>2 DEF ThreadsEnded, Users
  <2>2. ASSUME NEW i \in ifGone, NEW m \in Manager, ifOf[m] = i PROVE ThreadsEnded(m)
    <3>1. i = 1 /\ Released /\ procPc[1] = "done"
      BY <2>2 DEF LifeInv, EndInv, Released
    <3>2. lsPc = "done" /\ at = "done"
      BY <3>1 DEF LifeInv, EndInv, Ending
    <3>3. m = 1
      BY <2>2, <3>1, OneIsManager DEF LifeInv, MadeInv
    <3> QED
      BY <3>1, <3>2, <3>3 DEF ThreadsEnded
  <2> QED
    BY <2>1, <2>2
<1> QED
  BY <1>1, LifeCorrect, PTL

\* However the threads interleave in the unlocked getInstance, main makes at
\* most one tile manager and one interface, an early call at most one more of
\* each, and a later call none.
THEOREM OneManagerCorrect ==
    ASSUME TermWaits
    PROVE  Spec => []OneManager
<1>1. Inv => OneManager
  <2> SUFFICES ASSUME Inv, mainPc # "done" PROVE made <= 1 + early /\ ifMade <= 1 + early
    BY DEF OneManager
  <2>1. Cardinality(Making) \in Nat /\ Cardinality(MakingIf) \in Nat
    BY ThreadsFinite DEF Making, MakingIf
  <2>2. made \in Nat /\ ifMade \in Nat /\ early \in Nat
    BY DEF Inv, TypeOK
  <2> QED
    BY <2>1, <2>2 DEF Inv, CountInv
<1> QED
  BY <1>1, LifeCorrect, PTL
=============================================================================
