-------------------------- MODULE ConnectionProofs --------------------------
(***************************************************************************)
(* Theorems about Connection and their proofs: types, one goroutine that   *)
(* watches, a connection that holds still while it is read, and what a     *)
(* caller's attempts cost, for any number of goroutines, attempts, faults. *)
(***************************************************************************)
EXTENDS Connection, FiniteSetTheorems, TLAPS

-----------------------------------------------------------------------------
(* Type correctness.  A caller inside an attempt has one left. *)

AttemptLeft == \A c \in Callers : call[c] # "idle" => tries[c] < Limit[c]

TypeInv == ConnectionTypeOK /\ AttemptLeft

WatchPlaces == {"absent", "start", "listen", "lock", "dial", "unlock"}
CallPlaces  == {"idle", "rlock", "in", "use", "dead", "sleep"}

LEMMA TypeInit ==
  ASSUME ConnectionAssumption, ConnectionInit
  PROVE  TypeInv
<1>1. \A c \in Callers : Limit[c] \in Nat /\ Limit[c] > 0
  BY DEF ConnectionAssumption
<1>2. /\ tries \in [Callers -> Nat] /\ due \in [Callers -> Nat] /\ \A c \in Callers : tries[c] <= Limit[c]
      /\ dials \in 0 .. DialAttempts /\ faults \in 0 .. MaxFaults
  BY <1>1 DEF ConnectionInit, ConnectionAssumption
<1>3. ConnectionTypeOK
  BY <1>2 DEF ConnectionInit, ConnectionTypeOK
<1>4. AttemptLeft
  BY DEF ConnectionInit, AttemptLeft
<1> QED BY <1>3, <1>4 DEF TypeInv

(* Steps of main, of watch and of the world leave the callers where they    *)
(* are, but for the channels a connection takes along.                      *)
LEMMA CallersStay ==
  ASSUME TypeInv, MainStep \/ World
  PROVE  UNCHANGED tries /\ (UNCHANGED <<call, due>> \/ Sever)
BY DEF MainStep, Shutdown, CloseLocks, CloseConn, Exit, New, World, ConnLost, ChannelLost,
       BrokerGone, BrokerBack, callVars, world

LEMMA CallersAlone ==
  ASSUME TypeInv, UNCHANGED tries, UNCHANGED <<call, due>> \/ Sever
  PROVE  /\ tries' \in [Callers -> Nat] /\ \A c \in Callers : tries'[c] <= Limit[c]
         /\ call' \in [Callers -> CallPlaces] /\ due' \in [Callers -> Nat]
         /\ AttemptLeft'
<1>1. CASE UNCHANGED <<call, due>>
  BY <1>1 DEF TypeInv, ConnectionTypeOK, AttemptLeft, CallPlaces
<1>2. CASE Sever
  <2>1. call' \in [Callers -> CallPlaces]
    BY <1>2 DEF Sever, TypeInv, ConnectionTypeOK, CallPlaces
  <2>2. due' \in [Callers -> Nat]
    BY <1>2 DEF Sever, TypeInv, ConnectionTypeOK
  <2>3. \A c \in Callers : call'[c] # "idle" => call[c] # "idle"
    BY <1>2 DEF Sever, TypeInv, ConnectionTypeOK
  <2> QED BY <2>1, <2>2, <2>3 DEF TypeInv, ConnectionTypeOK, AttemptLeft
<1> QED BY <1>1, <1>2

LEMMA TypeMain ==
  ASSUME TypeInv, ConnectionAssumption, MainStep \/ World
  PROVE  TypeInv'
<1> USE DEF TypeInv
<1>1. UNCHANGED tries /\ (UNCHANGED <<call, due>> \/ Sever)
  BY CallersStay
<1>2. watch' \in [Watchers -> WatchPlaces]
  BY DEF MainStep, Shutdown, CloseLocks, CloseConn, Exit, New, GoWatch, World, ConnLost, ChannelLost,
         BrokerGone, BrokerBack, ConnectionTypeOK, WatchPlaces
<1>3. /\ main' \in {"dial", "run", "stop", "close", "closed", "exited", "unreachable", "starved"}
      /\ conn' \in {"none", "open", "lost", "closed"}
  BY DEF MainStep, Shutdown, CloseLocks, CloseConn, Exit, New, Connects, DialAgain, DialExhausted,
         World, ConnLost, ChannelLost, BrokerGone, BrokerBack, ConnectionTypeOK
<1>4. dials' \in 0 .. DialAttempts
  <2>1. dials' = dials \/ dials' = 0 \/ (dials' = dials + 1 /\ dials + 1 < DialAttempts)
    BY DEF MainStep, Shutdown, CloseLocks, CloseConn, Exit, New, Connects, DialAgain, DialExhausted,
           World, ConnLost, ChannelLost, BrokerGone, BrokerBack
  <2> QED BY <2>1 DEF ConnectionTypeOK, ConnectionAssumption
<1>5. faults' \in 0 .. MaxFaults
  <2>1. faults' = faults \/ (faults < MaxFaults /\ faults' = faults + 1)
    BY DEF MainStep, Shutdown, CloseLocks, CloseConn, Exit, New, world,
           World, ConnLost, ChannelLost, BrokerGone, BrokerBack, Fault
  <2> QED BY <2>1 DEF ConnectionTypeOK, ConnectionAssumption
<1>6. channel' \in BOOLEAN /\ reachable' \in BOOLEAN
  <2>1. channel' \in BOOLEAN
    <3>1. \/ UNCHANGED channel \/ channel' = TRUE \/ channel' = FALSE
          \/ channel' = (channel /\ conn # "open")
      BY DEF MainStep, Shutdown, CloseLocks, CloseConn, Exit, New, callVars, World, ConnLost,
             ChannelLost, BrokerGone, BrokerBack
    <3> QED BY <3>1 DEF ConnectionTypeOK
  <2>2. reachable' \in BOOLEAN
    <3>1. \/ UNCHANGED reachable \/ reachable' \in BOOLEAN
      BY DEF MainStep, Shutdown, CloseLocks, CloseConn, Exit, New, world, World, ConnLost,
             ChannelLost, BrokerGone, BrokerBack
    <3> QED BY <3>1 DEF ConnectionTypeOK
  <2> QED BY <2>1, <2>2
<1> QED BY <1>1, <1>2, <1>3, <1>4, <1>5, <1>6, CallersAlone
        DEF ConnectionTypeOK, WatchPlaces, CallPlaces

LEMMA TypeWatch ==
  ASSUME TypeInv, ConnectionAssumption, NEW g \in Watchers, Watch(g)
  PROVE  TypeInv'
<1> USE DEF TypeInv
<1>1. UNCHANGED <<call, tries, due, channel, reachable, faults>>
  BY DEF Watch, Listen, Wake, WatchLocks, WatchUnlocks, Redial, callVars, world
<1>2. watch' \in [Watchers -> WatchPlaces]
  BY DEF Watch, Listen, Wake, WatchLocks, WatchUnlocks, Redial, GoWatch, ConnectionTypeOK, WatchPlaces
<1>3. /\ main' \in {"dial", "run", "stop", "close", "closed", "exited", "unreachable", "starved"}
      /\ conn' \in {"none", "open", "lost", "closed"}
  BY DEF Watch, Listen, Wake, WatchLocks, WatchUnlocks, Redial, Connects, DialAgain, DialExhausted,
         ConnectionTypeOK
<1>4. dials' \in 0 .. DialAttempts
  <2>1. dials' = dials \/ dials' = 0 \/ (dials' = dials + 1 /\ dials + 1 < DialAttempts)
    BY DEF Watch, Listen, Wake, WatchLocks, WatchUnlocks, Redial, Connects, DialAgain, DialExhausted
  <2> QED BY <2>1 DEF ConnectionTypeOK, ConnectionAssumption
<1> QED BY <1>1, <1>2, <1>3, <1>4, CallersAlone DEF ConnectionTypeOK, WatchPlaces, CallPlaces

LEMMA TypeCaller ==
  ASSUME TypeInv, ConnectionAssumption, NEW c \in Callers, BeginCall(c) \/ Attempt(c) \/ Cancelled(c)
  PROVE  TypeInv'
<1> USE DEF TypeInv
<1> USE DEF Attempt, AttemptFails, Returns
<1>1. UNCHANGED <<conn, watch, dials, reachable>>
  BY DEF BeginCall, RLock, ChannelOpens, Completes, ChannelFails, OperationFails, Cancelled, Retry, world
<1>2. main' \in {main, "starved"}
  BY DEF BeginCall, RLock, ChannelOpens, Completes, ChannelFails, OperationFails, Cancelled, Retry
<1>3. channel' \in BOOLEAN
  <2>1. UNCHANGED channel \/ channel' = (channel \/ c = Consumer)
    BY DEF BeginCall, RLock, ChannelOpens, Completes, ChannelFails, OperationFails, Cancelled, Retry
  <2> QED BY <2>1 DEF ConnectionTypeOK
<1>4. call' \in [Callers -> CallPlaces]
  BY DEF BeginCall, RLock, ChannelOpens, Completes, ChannelFails, OperationFails, Cancelled, Retry,
         ConnectionTypeOK, CallPlaces
<1>5. /\ tries[c] \in Nat /\ Limit[c] \in Nat /\ Limit[c] > 0 /\ tries[c] <= Limit[c]
      /\ call[c] # "idle" => tries[c] < Limit[c]
      /\ due[c] \in Nat
  BY DEF ConnectionTypeOK, ConnectionAssumption, AttemptLeft
<1>6. /\ tries' \in [Callers -> Nat]
      /\ tries'[c] <= Limit[c]
      /\ call'[c] # "idle" => tries'[c] < Limit[c]
  <2>1. CASE BeginCall(c) \/ Completes(c) \/ Cancelled(c)
    BY <1>5, <2>1 DEF BeginCall, Completes, Cancelled, ConnectionTypeOK
  <2>2. CASE ChannelFails(c) \/ OperationFails(c)
    BY <1>5, <2>2 DEF ChannelFails, OperationFails, ConnectionTypeOK
  <2>3. CASE RLock(c) \/ ChannelOpens(c) \/ Retry(c)
    BY <1>5, <2>3 DEF RLock, ChannelOpens, Retry, ConnectionTypeOK
  <2> QED BY <2>1, <2>2, <2>3
<1>7. \A b \in Callers \ {c} : tries'[b] = tries[b] /\ call'[b] = call[b]
  BY DEF BeginCall, RLock, ChannelOpens, Completes, ChannelFails, OperationFails, Cancelled, Retry,
         ConnectionTypeOK
<1>8. AttemptLeft' /\ \A b \in Callers : tries'[b] <= Limit[b]
  BY <1>6, <1>7 DEF AttemptLeft, ConnectionTypeOK
<1>9. due' \in [Callers -> Nat]
  <2>1. \/ UNCHANGED due
        \/ \E n \in {0, 1, due[c] + 1} : due' = [due EXCEPT ![c] = n]
    BY DEF BeginCall, RLock, ChannelOpens, Completes, ChannelFails, OperationFails, Cancelled, Retry,
           ConnectionTypeOK
  <2> QED BY <1>5, <2>1 DEF ConnectionTypeOK
<1>10. faults' \in 0 .. MaxFaults
  <2>1. UNCHANGED faults \/ Fault
    BY DEF BeginCall, RLock, ChannelOpens, Completes, ChannelFails, OperationFails, Cancelled, Retry, world
  <2> QED BY <2>1 DEF Fault, ConnectionTypeOK, ConnectionAssumption
<1> QED BY <1>1, <1>2, <1>3, <1>4, <1>6, <1>8, <1>9, <1>10 DEF ConnectionTypeOK, CallPlaces

LEMMA TypeStep ==
  ASSUME TypeInv, ConnectionAssumption, [ConnectionNext]_vars
  PROVE  TypeInv'
<1>1. CASE MainStep \/ World
  BY <1>1, TypeMain
<1>2. CASE \E g \in Watchers : Watch(g)
  BY <1>2, TypeWatch
<1>3. CASE \E c \in Callers : BeginCall(c) \/ Attempt(c) \/ Cancelled(c)
  BY <1>3, TypeCaller
<1>4. CASE UNCHANGED vars
  BY <1>4 DEF TypeInv, ConnectionTypeOK, AttemptLeft, vars
<1> QED BY <1>1, <1>2, <1>3, <1>4 DEF ConnectionNext

LEMMA TypeAlways == ConnectionSpec => []TypeInv
BY TypeInit, TypeStep, ConnectionAssumption, PTL DEF ConnectionSpec

(* The places of the goroutines and their counts stay within their types:   *)
(* no caller makes more attempts than its limit, no dial more than its own. *)
THEOREM ConnectionTypeCorrect == ConnectionSpec => []ConnectionTypeOK
<1>1. TypeInv => ConnectionTypeOK
  BY DEF TypeInv
<1> QED BY <1>1, TypeAlways, PTL

-----------------------------------------------------------------------------
(* The hand-over between two watch goroutines. *)

Active(g) == watch[g] \notin {"absent", "unlock"}

WatchInv ==
  /\ main = "dial" => \A g \in Watchers : watch[g] = "absent"
  /\ Running => \E g \in Watchers : Active(g)
  /\ \A g, h \in Watchers : Active(g) /\ Active(h) => g = h

LEMMA WatchMain ==
  ASSUME TypeInv, WatchInv, MainStep \/ World
  PROVE  WatchInv'
<1>1. CASE UNCHANGED watch
  <2>1. (Running' => Running) /\ (main' = "dial" => main = "dial")
    BY <1>1 DEF MainStep, Shutdown, CloseLocks, CloseConn, Exit, New, GoWatch, Running, World,
           ConnLost, ChannelLost, BrokerGone, BrokerBack, TypeInv, ConnectionTypeOK
  <2> QED BY <1>1, <2>1 DEF WatchInv, Active
<1>2. ASSUME NEW g \in Watchers, New(g)
      PROVE  WatchInv'
  <2>1. main = "dial"
    BY <1>2 DEF New
  <2>2. CASE UNCHANGED watch
    BY <1>1, <2>2
  <2>3. CASE main' = "run" /\ GoWatch(g, watch)
    <3>1. watch'[g] = "start" /\ \A h \in Watchers \ {g} : watch'[h] = "absent"
      BY <2>1, <2>3 DEF GoWatch, WatchInv, TypeInv, ConnectionTypeOK
    <3> QED BY <2>3, <3>1 DEF WatchInv, Active
  <2> QED BY <1>2, <2>2, <2>3 DEF New
<1> QED BY <1>1, <1>2 DEF MainStep, Shutdown, CloseLocks, CloseConn, Exit, World, ConnLost,
        ChannelLost, BrokerGone, BrokerBack

LEMMA WatchStep ==
  ASSUME TypeInv, WatchInv, [ConnectionNext]_vars
  PROVE  WatchInv'
<1>1. CASE MainStep \/ World
  BY <1>1, WatchMain
<1>2. ASSUME NEW g \in Watchers, Listen(g) \/ Wake(g) \/ WatchLocks(g)
      PROVE  WatchInv'
  <2>1. Active(g) /\ Active(g)' /\ UNCHANGED main /\ \A h \in Watchers \ {g} : watch'[h] = watch[h]
    BY <1>2 DEF Listen, Wake, WatchLocks, Active, TypeInv, ConnectionTypeOK
  <2>2. \A h \in Watchers : Active(h)' <=> Active(h)
    BY <2>1 DEF Active
  <2>3. main # "dial"
    BY <1>2 DEF Listen, Wake, WatchLocks, Running
  <2> QED BY <2>1, <2>2, <2>3 DEF WatchInv, Running
<1>3. ASSUME NEW g \in Watchers, WatchUnlocks(g)
      PROVE  WatchInv'
  <2>1. UNCHANGED main /\ \A h \in Watchers : Active(h)' <=> Active(h)
    BY <1>3 DEF WatchUnlocks, Active, TypeInv, ConnectionTypeOK
  <2>2. main # "dial"
    BY <1>3 DEF WatchUnlocks, Running
  <2> QED BY <2>1, <2>2 DEF WatchInv, Running
<1>4. ASSUME NEW g \in Watchers, NEW h \in Watchers, Redial(g, h)
      PROVE  WatchInv'
  <2>1. Running /\ Active(g) /\ main # "dial"
    BY <1>4 DEF Redial, Active, Running
  <2>2. CASE Connects /\ GoWatch(h, [watch EXCEPT ![g] = "unlock"]) /\ UNCHANGED main
    <3>1. g # h /\ watch'[h] = "start" /\ watch'[g] = "unlock"
      BY <2>2 DEF GoWatch, TypeInv, ConnectionTypeOK
    <3>2. \A k \in Watchers \ {g, h} : watch'[k] = watch[k] /\ ~ Active(k)
      BY <2>1, <2>2 DEF GoWatch, WatchInv, TypeInv, ConnectionTypeOK
    <3>3. \A k \in Watchers : Active(k)' <=> k = h
      BY <3>1, <3>2 DEF Active
    <3> QED BY <2>1, <2>2, <3>3 DEF WatchInv, Running
  <2>3. CASE UNCHANGED watch /\ main' \in {main, "unreachable"}
    BY <2>1, <2>3 DEF WatchInv, Active, Running
  <2> QED BY <1>4, <2>2, <2>3 DEF Redial
<1>5. ASSUME NEW c \in Callers, BeginCall(c) \/ Attempt(c) \/ Cancelled(c)
      PROVE  WatchInv'
  <2>1. UNCHANGED watch /\ main' \in {main, "starved"}
    BY <1>5 DEF BeginCall, Attempt, RLock, ChannelOpens, Completes, Returns, ChannelFails,
         OperationFails, AttemptFails, Cancelled, Retry
  <2> QED BY <2>1 DEF WatchInv, Active, Running
<1>6. CASE UNCHANGED vars
  BY <1>6 DEF WatchInv, Active, Running, vars
<1> QED BY <1>1, <1>2, <1>3, <1>4, <1>5, <1>6 DEF ConnectionNext, Watch

LEMMA WatchAlways == ConnectionSpec => []WatchInv
<1>1. ConnectionInit => WatchInv
  BY DEF ConnectionInit, WatchInv, Active, Running
<1> QED BY <1>1, WatchStep, TypeAlways, PTL DEF ConnectionSpec

(* While the service runs, exactly one goroutine watches its connection,    *)
(* through any number of losses and redials.                                *)
THEOREM AlwaysOneWatcher == ConnectionSpec => []OneWatcher
<1>1. WatchInv => OneWatcher
  <2> SUFFICES ASSUME WatchInv, Running
               PROVE  Cardinality({g \in Watchers : watch[g] \notin {"absent", "unlock"}}) = 1
    BY DEF OneWatcher
  <2>1. PICK g \in Watchers : Active(g)
    BY DEF WatchInv
  <2>2. {h \in Watchers : watch[h] \notin {"absent", "unlock"}} = {g}
    BY <2>1 DEF WatchInv, Active
  <2> QED BY <2>2, FS_Singleton
<1> QED BY <1>1, WatchAlways, PTL

(* The read of mq.conn that takes no lock never meets the write of a dial.  *)
THEOREM UnlockedReadIsAlwaysSafe == ConnectionSpec => []UnlockedReadIsSafe
<1>1. WatchInv => UnlockedReadIsSafe
  BY DEF WatchInv, Active, UnlockedReadIsSafe
<1> QED BY <1>1, WatchAlways, PTL

-----------------------------------------------------------------------------
(* The lock: readers and writers exclude each other. *)

LockInv ==
  /\ Writing => ~ Reading
  /\ main = "dial" => ~ Reading

LEMMA LockStep ==
  ASSUME TypeInv, WatchInv, LockInv, [ConnectionNext]_vars
  PROVE  LockInv'
<1>1. ASSUME NEW c \in Callers, BeginCall(c) \/ Attempt(c) \/ Cancelled(c)
      PROVE  LockInv'
  <2>1. UNCHANGED watch /\ main' \in {main, "starved"} /\ Running
    BY <1>1 DEF BeginCall, Attempt, RLock, ChannelOpens, Completes, Returns, ChannelFails,
         OperationFails, AttemptFails, Cancelled, Retry
  <2>2. Writing' => Writing
    BY <2>1 DEF Writing
  <2>3. Reading' => Reading \/ ~ Writing
    BY <1>1 DEF BeginCall, Attempt, RLock, ChannelOpens, Completes, Returns, ChannelFails,
         OperationFails, AttemptFails, Cancelled, Retry, Reading, TypeInv,
         ConnectionTypeOK
  <2> QED BY <2>1, <2>2, <2>3 DEF LockInv, Running
<1>2. ASSUME MainStep \/ World \/ \E g \in Watchers : Watch(g)
      PROVE  LockInv'
  <2>1. Reading' <=> Reading
    <3>1. CASE MainStep \/ World
      BY <3>1, CallersStay DEF Reading, Sever, TypeInv, ConnectionTypeOK
    <3>2. ASSUME NEW g \in Watchers, Watch(g)
          PROVE  UNCHANGED call
      BY <3>2 DEF Watch, Listen, Wake, WatchLocks, WatchUnlocks, Redial, callVars
    <3> QED BY <1>2, <3>1, <3>2 DEF Reading
  <2>2. main' = "dial" => main = "dial"
    BY <1>2 DEF MainStep, Shutdown, CloseLocks, CloseConn, Exit, New, World, ConnLost,
         ChannelLost, BrokerGone, BrokerBack, Watch, Listen, Wake, WatchLocks, WatchUnlocks, Redial
  <2>3. Writing' => Writing \/ ~ Reading
    <3>1. CASE MainStep \/ World
      BY <3>1 DEF MainStep, Shutdown, CloseLocks, CloseConn, Exit, New, GoWatch, World, ConnLost,
         ChannelLost, BrokerGone, BrokerBack, Writing, TypeInv, ConnectionTypeOK
    <3>2. ASSUME NEW g \in Watchers, Watch(g)
          PROVE  Writing' => Writing \/ ~ Reading
      BY <3>2 DEF Watch, Listen, Wake, WatchLocks, WatchUnlocks, Redial, GoWatch, Writing, TypeInv,
           ConnectionTypeOK
    <3> QED BY <1>2, <3>1, <3>2
  <2> QED BY <2>1, <2>2, <2>3 DEF LockInv
<1>3. CASE UNCHANGED vars
  BY <1>3 DEF LockInv, Reading, Writing, vars
<1> QED BY <1>1, <1>2, <1>3 DEF ConnectionNext

LEMMA LockAlways == ConnectionSpec => []LockInv
<1>1. ConnectionInit => LockInv
  BY DEF ConnectionInit, LockInv, Reading, Writing
<1> QED BY <1>1, LockStep, TypeAlways, WatchAlways, PTL DEF ConnectionSpec

(* Nobody replaces or closes the connection while a caller opens a channel  *)
(* on it.                                                                   *)
THEOREM ConnIsAlwaysStable == ConnectionSpec => ConnIsStable
<1>1. LockInv /\ [ConnectionNext]_vars => [Reading => conn' \in {conn, "lost"}]_conn
  <2> SUFFICES ASSUME LockInv, [ConnectionNext]_vars, Reading
               PROVE  conn' \in {conn, "lost"}
    OBVIOUS
  <2>1. ~ Writing /\ main # "dial"
    BY DEF LockInv
  <2>2. \A g, h \in Watchers : ~ New(g) /\ ~ Redial(g, h)
    BY <2>1 DEF New, Redial, Writing
  <2>3. ~ CloseConn
    BY <2>1 DEF CloseConn, Writing
  <2> QED BY <2>2, <2>3 DEF ConnectionNext, MainStep, Shutdown, CloseLocks, Exit, World, ConnLost,
         ChannelLost, BrokerGone, BrokerBack, Watch, Listen, Wake, WatchLocks, WatchUnlocks,
         BeginCall, Attempt, RLock, ChannelOpens, Completes, Returns, ChannelFails,
         OperationFails, AttemptFails, Cancelled, Retry, vars
<1> QED BY <1>1, LockAlways, PTL DEF ConnectionSpec, ConnIsStable

-----------------------------------------------------------------------------
(* What an attempt costs.  A caller that may find the connection gone, or   *)
(* whose channel has gone, has a cost in hand that no attempt has paid for, *)
(* unless a watch goroutine that will redial stands before it.              *)

Blocked == \/ ~ Running
           \/ \E g \in Watchers : watch[g] \in {"lock", "dial"}

Owed(c) ==
  /\ tries[c] <= due[c]
  /\ call[c] = "in" /\ conn # "open" => tries[c] < due[c]
  /\ call[c] = "dead" => tries[c] < due[c]
  /\ call[c] = "rlock" /\ conn # "open" => tries[c] < due[c] \/ Blocked

OwedInv == \A c \in Callers : Owed(c)

(* Who is left alone while the connection holds, or stays blocked from it.  *)
LEMMA OwedStays ==
  ASSUME NEW c \in Callers, Owed(c), call'[c] = call[c], tries'[c] = tries[c], due'[c] = due[c],
         conn' # "open" => conn # "open",
         conn' # "open" /\ Blocked => Blocked'
  PROVE  Owed(c)'
BY DEF Owed

(* The end of a connection is on everybody's account. *)
LEMMA OwedSevered ==
  ASSUME TypeInv, OwedInv, Sever, UNCHANGED tries, NEW c \in Callers
  PROVE  Owed(c)'
<1>1. tries[c] \in Nat /\ due[c] \in Nat /\ tries'[c] = tries[c] /\ tries[c] <= due[c]
  BY DEF TypeInv, ConnectionTypeOK, OwedInv, Owed
<1>2. CASE call[c] = "idle"
  <2>1. call'[c] = "idle" /\ due'[c] = due[c]
    BY <1>2 DEF Sever
  <2> QED BY <1>1, <2>1 DEF Owed
<1>3. CASE call[c] # "idle"
  <2>1. due'[c] = due[c] + 1
    BY <1>3 DEF Sever
  <2>2. tries'[c] < due'[c] /\ tries'[c] <= due'[c]
    BY <1>1, <2>1
  <2> QED BY <2>2 DEF Owed
<1> QED BY <1>2, <1>3

LEMMA OwedMain ==
  ASSUME TypeInv, OwedInv, MainStep \/ World
  PROVE  OwedInv'
<1>1. CASE ConnLost \/ (CloseConn /\ conn = "open")
  BY <1>1, OwedSevered DEF CloseConn, ConnLost, OwedInv
<1>2. ASSUME NEW g \in Watchers, New(g)
      PROVE  OwedInv'
  <2>1. UNCHANGED <<call, tries, due>> /\ conn' \in {conn, "open"}
    BY <1>2 DEF New, Connects, DialAgain, DialExhausted
  <2>2. conn' # "open" => Blocked'
    BY <1>2 DEF New, Connects, DialAgain, DialExhausted, Blocked, Running
  <2> QED BY <2>1, <2>2, OwedStays DEF OwedInv
<1>3. CASE \/ CloseConn /\ conn # "open"
         \/ Shutdown \/ CloseLocks \/ Exit \/ ChannelLost \/ BrokerGone \/ BrokerBack
  <2>1. UNCHANGED <<call, tries, due, conn, watch>>
    BY <1>3 DEF Shutdown, CloseLocks, CloseConn, Exit, ChannelLost, BrokerGone, BrokerBack, callVars
  <2>2. Blocked => Blocked'
    BY <1>3, <2>1 DEF Shutdown, CloseLocks, CloseConn, Exit, ChannelLost, BrokerGone, BrokerBack, Blocked, Running
  <2> QED BY <2>1, <2>2, OwedStays DEF OwedInv
<1> QED BY <1>1, <1>2, <1>3 DEF MainStep, World

LEMMA OwedWatch ==
  ASSUME TypeInv, OwedInv, NEW g \in Watchers, Watch(g)
  PROVE  OwedInv'
<1>1. UNCHANGED <<call, tries, due>> /\ conn' \in {conn, "open"} /\ main' \in {main, "unreachable"}
  BY DEF Watch, Listen, Wake, WatchLocks, WatchUnlocks, Redial, Connects, DialAgain, DialExhausted,
         callVars
<1>2. ASSUME conn' # "open", Blocked
      PROVE  Blocked'
  <2>1. CASE UNCHANGED main
    <3>1. ASSUME NEW h \in Watchers, watch[h] \in {"lock", "dial"}
          PROVE  watch'[h] \in {"lock", "dial"}
      BY <1>2, <3>1 DEF Watch, Listen, Wake, WatchLocks, WatchUnlocks, Redial, GoWatch, Connects,
           DialAgain, DialExhausted, TypeInv, ConnectionTypeOK
    <3> QED BY <1>2, <2>1, <3>1 DEF Blocked, Running
  <2>2. CASE main' = "unreachable"
    BY <2>2 DEF Blocked, Running
  <2> QED BY <1>1, <2>1, <2>2
<1> QED BY <1>1, <1>2, OwedStays DEF OwedInv

LEMMA OwedCaller ==
  ASSUME TypeInv, WatchInv, OwedInv, NEW c \in Callers, BeginCall(c) \/ Attempt(c) \/ Cancelled(c)
  PROVE  OwedInv'
<1> USE DEF AttemptFails, Returns
<1>1. /\ UNCHANGED <<conn, watch>> /\ Running
      /\ main' \in {main, "starved"}
      /\ \A b \in Callers \ {c} : call'[b] = call[b] /\ tries'[b] = tries[b] /\ due'[b] = due[b]
  BY DEF BeginCall, Attempt, RLock, ChannelOpens, Completes, ChannelFails, OperationFails, Cancelled,
         Retry, TypeInv, ConnectionTypeOK
<1>2. /\ tries[c] \in Nat /\ due[c] \in Nat /\ Owed(c)
      /\ call \in [Callers -> CallPlaces] /\ tries \in [Callers -> Nat] /\ due \in [Callers -> Nat]
  BY DEF TypeInv, ConnectionTypeOK, CallPlaces, OwedInv
<1>3. Blocked => Blocked'
  BY <1>1 DEF Blocked, Running
<1>4. \A b \in Callers \ {c} : Owed(b)'
  BY <1>1, <1>3, OwedStays DEF OwedInv
<1>5. Owed(c)'
  <2>1. CASE BeginCall(c)
    <3>1. call'[c] = "rlock" /\ tries'[c] = 0 /\ due'[c] = IF conn = "open" THEN 0 ELSE 1
      BY <1>2, <2>1 DEF BeginCall
    <3> QED BY <1>1, <3>1 DEF Owed
  <2>2. CASE RLock(c)
    <3>1. /\ call'[c] = "in" /\ call[c] = "rlock" /\ tries'[c] = tries[c] /\ due'[c] = due[c]
          /\ ~ Writing /\ ~ WriteAsked
      BY <1>2, <2>2 DEF RLock
    <3>2. ~ Blocked
      BY <1>1, <3>1 DEF Blocked, Writing, WriteAsked
    <3> QED BY <1>1, <1>2, <3>1, <3>2 DEF Owed
  <2>3. CASE ChannelOpens(c)
    <3>1. call'[c] = "use" /\ tries'[c] = tries[c] /\ due'[c] = due[c]
      BY <1>2, <2>3 DEF ChannelOpens
    <3> QED BY <1>2, <3>1 DEF Owed
  <2>4. CASE Completes(c) \/ Cancelled(c)
    <3>1. call'[c] = "idle" /\ tries'[c] = 0 /\ due'[c] = 0
      BY <1>2, <2>4 DEF Completes, Cancelled
    <3> QED BY <3>1 DEF Owed
  <2>5. CASE ChannelFails(c) \/ OperationFails(c)
    <3>1. tries'[c] = tries[c] + 1 /\ call'[c] \in {"sleep", "idle"}
      BY <1>2, <2>5 DEF ChannelFails, OperationFails
    <3>2. \/ tries[c] < due[c] /\ due'[c] = due[c]
          \/ due'[c] = due[c] + 1
      BY <1>2, <2>5 DEF ChannelFails, OperationFails, Owed
    <3>3. tries'[c] <= due'[c]
      BY <1>2, <3>1, <3>2 DEF Owed
    <3> QED BY <3>1, <3>3 DEF Owed
  <2>6. CASE Retry(c)
    <3>1. call'[c] = "rlock" /\ tries'[c] = tries[c]
      BY <1>2, <2>6 DEF Retry
    <3>2. CASE WatchRuns
      <4>1. due'[c] = due[c] + 1
        BY <1>2, <2>6, <3>2 DEF Retry
      <4>2. tries'[c] < due'[c]
        BY <1>2, <3>1, <4>1 DEF Owed
      <4> QED BY <1>2, <3>1, <4>1, <4>2 DEF Owed
    <3>3. CASE ~ WatchRuns
      <4>1. due'[c] = due[c]
        BY <2>6, <3>3 DEF Retry
      <4>2. conn # "open" => Blocked
        <5>1. PICK g \in Watchers : Active(g)
          BY <1>1 DEF WatchInv
        <5>2. watch[g] \in {"start", "listen", "lock", "dial"}
          BY <5>1 DEF Active, TypeInv, ConnectionTypeOK
        <5> QED BY <3>3, <5>2 DEF WatchRuns, Blocked
      <4> QED BY <1>1, <1>2, <1>3, <3>1, <4>1, <4>2 DEF Owed
    <3> QED BY <3>2, <3>3
  <2> QED BY <2>1, <2>2, <2>3, <2>4, <2>5, <2>6 DEF Attempt
<1> QED BY <1>4, <1>5 DEF OwedInv

LEMMA OwedStep ==
  ASSUME TypeInv, WatchInv, OwedInv, [ConnectionNext]_vars
  PROVE  OwedInv'
<1>1. CASE MainStep \/ World
  BY <1>1, OwedMain
<1>2. CASE \E g \in Watchers : Watch(g)
  BY <1>2, OwedWatch
<1>3. CASE \E c \in Callers : BeginCall(c) \/ Attempt(c) \/ Cancelled(c)
  BY <1>3, OwedCaller
<1>4. CASE UNCHANGED vars
  BY <1>4 DEF OwedInv, Owed, Blocked, Running, vars
<1> QED BY <1>1, <1>2, <1>3, <1>4 DEF ConnectionNext

(* Of one call, no more attempts fail than there were ends of the           *)
(* connection, errors of its own channel and overtaken watch goroutines     *)
(* while it lasted, one that had ended before it began included: whatever   *)
(* the limits, the time a redial takes and the number of faults.            *)
THEOREM AttemptsAlwaysCostLosses == ConnectionSpec => []AttemptsCostLosses
<1>1. ConnectionInit => OwedInv
  BY DEF ConnectionInit, OwedInv, Owed
<1>2. OwedInv => AttemptsCostLosses
  BY DEF OwedInv, Owed, AttemptsCostLosses
<1> QED BY <1>1, <1>2, OwedStep, TypeAlways, WatchAlways, PTL DEF ConnectionSpec
=============================================================================
