----------------------------- MODULE Connection -----------------------------
(***************************************************************************)
(* MQ, the AMQP connection each service shares between its goroutines:     *)
(* main dials it and closes it, a watch goroutine redials it when it is    *)
(* gone, publishers, the dead-letter sampler and the consumer's            *)
(* distributor open channels on it.  A read-write lock guards it; as in    *)
(* Go, a writer that waits keeps new readers out.                          *)
(*                                                                         *)
(* MaxFaults bounds what goes wrong: losses of the connection, of a channel *)
(* and of the broker, operations that fail on an open connection, retries   *)
(* that come before a watch goroutine which could run has run.              *)
(***************************************************************************)
EXTENDS Integers, FiniteSets

CONSTANTS Watchers,      \* goroutines that can run watch (a bound)
          Callers,       \* goroutines that call Channel
          Consumer,      \* the one that is the consumer's distributor
          Limit,         \* attempts of a caller: 3 in Publish, 5 in reconnectConsumer
          DialAttempts,  \* attempts of dial (5)
          MaxFaults      \* bound on the faults of a behaviour

ASSUME ConnectionAssumption ==
  /\ Consumer \in Callers
  /\ Limit \in [Callers -> Nat \ {0}]
  /\ DialAttempts \in Nat \ {0}
  /\ MaxFaults \in Nat

VARIABLES main,       \* where main is
          conn,       \* mq.conn: "none", "open", "lost" or "closed" by Close
          watch,      \* where each watch goroutine is
          dials,      \* failed attempts of the dial under way
          call,       \* where each caller is
          tries,      \* attempts of a caller's present call that failed
          due,        \* history: what has happened to it that costs an attempt
          channel,    \* the consumer has an open channel
          reachable,  \* the broker answers
          faults

vars == <<main, conn, watch, dials, call, tries, due, channel, reachable, faults>>
callVars == <<call, tries, due, channel>>
world    == <<reachable, faults>>

(* Every goroutine is at a place of its code, and counts its attempts. *)
ConnectionTypeOK ==
  /\ main \in {"dial", "run", "stop", "close", "closed", "exited", "unreachable", "starved"}
  /\ conn \in {"none", "open", "lost", "closed"}
  /\ watch \in [Watchers -> {"absent", "start", "listen", "lock", "dial", "unlock"}]
  /\ dials \in 0 .. DialAttempts
  /\ call \in [Callers -> {"idle", "rlock", "in", "use", "dead", "sleep"}]
  /\ tries \in [Callers -> Nat]
  /\ due \in [Callers -> Nat]
  /\ \A c \in Callers : tries[c] <= Limit[c]
  /\ channel \in BOOLEAN
  /\ reachable \in BOOLEAN
  /\ faults \in 0 .. MaxFaults

ConnectionInit ==
  /\ main = "dial"
  /\ conn = "none"
  /\ watch = [g \in Watchers |-> "absent"]
  /\ dials = 0
  /\ call = [c \in Callers |-> "idle"]
  /\ tries = [c \in Callers |-> 0]
  /\ due = [c \in Callers |-> 0]
  /\ channel = FALSE
  /\ reachable = TRUE
  /\ faults = 0

Running == main \in {"run", "stop", "close", "closed"}

(* The lock, as far as the places of the goroutines tell.                   *)
(* Mutants: watch unlocks before it dials; it locks before it waits.        *)
Writing_NotDialing == main = "close" \/ \E g \in Watchers : watch[g] = "unlock"
Writing_Listening  == main = "close" \/ \E g \in Watchers : watch[g] \in {"listen", "dial", "unlock"}

Reading    == \E c \in Callers : call[c] = "in"
Writing    == main = "close" \/ \E g \in Watchers : watch[g] \in {"dial", "unlock"}
WriteAsked == main = "stop" \/ \E g \in Watchers : watch[g] = "lock"

(* A connection that ends takes the channels opened on it along.  History:  *)
(* that costs whoever has a call under way an attempt.                      *)
Sever ==
  /\ call' = [c \in Callers |-> IF call[c] = "use" THEN "dead" ELSE call[c]]
  /\ due' = [c \in Callers |-> IF call[c] = "idle" THEN due[c] ELSE due[c] + 1]

Fault == faults < MaxFaults /\ faults' = faults + 1

-----------------------------------------------------------------------------
(* dial: an attempt either connects or sleeps before the next. *)
Connects == reachable /\ conn' = "open" /\ dials' = 0

(* Mutant: it never gives up. *)
DialAgain_Forever == ~ reachable /\ dials' = dials + 1 /\ UNCHANGED conn

DialAgain == ~ reachable /\ dials + 1 < DialAttempts /\ dials' = dials + 1 /\ UNCHANGED conn

DialExhausted == ~ reachable /\ dials + 1 = DialAttempts /\ dials' = 0 /\ UNCHANGED conn

(* A goroutine that is not running starts watch. *)
GoWatch(g, rest) == rest[g] = "absent" /\ watch' = [rest EXCEPT ![g] = "start"]

-----------------------------------------------------------------------------
(* main: New at start-up, and Close when the service stops. *)
New(g) ==
  /\ main = "dial"
  /\ \/ Connects /\ main' = "run" /\ GoWatch(g, watch) /\ channel' = TRUE
     \/ DialAgain /\ UNCHANGED <<main, watch, channel>>
     \/ DialExhausted /\ main' = "unreachable" /\ UNCHANGED <<watch, channel>>
  /\ UNCHANGED <<call, tries, due, world>>

Shutdown ==
  /\ main = "run"
  /\ main' = "stop"
  /\ UNCHANGED <<conn, watch, dials, callVars, world>>

(* Mutant: Close takes no lock. *)
CloseLocks_None ==
  /\ main = "stop"
  /\ main' = "close"
  /\ UNCHANGED <<conn, watch, dials, callVars, world>>

CloseLocks ==
  /\ main = "stop"
  /\ ~ Reading /\ ~ Writing
  /\ main' = "close"
  /\ UNCHANGED <<conn, watch, dials, callVars, world>>

CloseConn ==
  /\ main = "close"
  /\ main' = "closed"
  /\ \/ conn = "open" /\ conn' = "closed" /\ channel' = FALSE /\ Sever
     \/ conn # "open" /\ UNCHANGED <<conn, channel, call, due>>
  /\ UNCHANGED <<watch, dials, tries, world>>

Exit ==
  /\ main = "closed"
  /\ main' = "exited"
  /\ UNCHANGED <<conn, watch, dials, callVars, world>>

-----------------------------------------------------------------------------
(* watch, in goroutine g.  Its read of mq.conn for NotifyClose takes no lock. *)
Listen(g) ==
  /\ Running
  /\ watch[g] = "start"
  /\ watch' = [watch EXCEPT ![g] = "listen"]
  /\ UNCHANGED <<main, conn, dials, callVars, world>>

(* It wakes for a connection closed on purpose as for one that dropped. *)
Wake(g) ==
  /\ Running
  /\ watch[g] = "listen"
  /\ conn # "open"
  /\ watch' = [watch EXCEPT ![g] = "lock"]
  /\ UNCHANGED <<main, conn, dials, callVars, world>>

(* Mutant: the next watch is started before the dial. *)
WatchLocks_StartsNext(g) ==
  /\ Running
  /\ watch[g] = "lock"
  /\ ~ Reading /\ ~ Writing
  /\ \E h \in Watchers : GoWatch(h, [watch EXCEPT ![g] = "dial"])
  /\ UNCHANGED <<main, conn, dials, callVars, world>>

WatchLocks(g) ==
  /\ Running
  /\ watch[g] = "lock"
  /\ ~ Reading /\ ~ Writing
  /\ watch' = [watch EXCEPT ![g] = "dial"]
  /\ UNCHANGED <<main, conn, dials, callVars, world>>

(* dial, then a new goroutine to watch the new connection; or panic. *)
(* Mutant: nobody watches the new connection.                        *)
Redial_Unwatched(g, h) ==
  /\ Running
  /\ watch[g] = "dial"
  /\ \/ Connects /\ watch' = [watch EXCEPT ![g] = "unlock"] /\ UNCHANGED main
     \/ DialAgain /\ UNCHANGED <<main, watch>>
     \/ DialExhausted /\ main' = "unreachable" /\ UNCHANGED watch
  /\ UNCHANGED <<callVars, world>>

Redial(g, h) ==
  /\ Running
  /\ watch[g] = "dial"
  /\ \/ Connects /\ GoWatch(h, [watch EXCEPT ![g] = "unlock"]) /\ UNCHANGED main
     \/ DialAgain /\ UNCHANGED <<main, watch>>
     \/ DialExhausted /\ main' = "unreachable" /\ UNCHANGED watch
  /\ UNCHANGED <<callVars, world>>

(* Mutant: no deferred Unlock. *)
WatchUnlocks_Never(g) == FALSE

WatchUnlocks(g) ==
  /\ Running
  /\ watch[g] = "unlock"
  /\ watch' = [watch EXCEPT ![g] = "absent"]
  /\ UNCHANGED <<main, conn, dials, callVars, world>>

-----------------------------------------------------------------------------
(* The callers of Channel.  The consumer calls it when its channel is gone, *)
(* the others whenever they have something to publish or to sample.  A call *)
(* that begins on a lost connection will pay for that loss.                 *)
BeginCall(c) ==
  /\ Running
  /\ call[c] = "idle"
  /\ c = Consumer => ~ channel
  /\ call' = [call EXCEPT ![c] = "rlock"]
  /\ tries' = [tries EXCEPT ![c] = 0]
  /\ due' = [due EXCEPT ![c] = IF conn = "open" THEN 0 ELSE 1]
  /\ UNCHANGED <<main, conn, watch, dials, channel, world>>

RLock(c) ==
  /\ Running
  /\ call[c] = "rlock"
  /\ ~ Writing /\ ~ WriteAsked
  /\ call' = [call EXCEPT ![c] = "in"]
  /\ UNCHANGED <<main, conn, watch, dials, tries, due, channel, world>>

(* mq.conn.Channel() succeeds on an open connection, and the lock is given  *)
(* back: what the caller does with the channel is not guarded by it.        *)
ChannelOpens(c) ==
  /\ Running
  /\ call[c] = "in" /\ conn = "open"
  /\ call' = [call EXCEPT ![c] = "use"]
  /\ UNCHANGED <<main, conn, watch, dials, tries, due, channel, world>>

(* The call is over, and with it the count of its attempts. *)
Returns(c) ==
  /\ call' = [call EXCEPT ![c] = "idle"]
  /\ tries' = [tries EXCEPT ![c] = 0]
  /\ due' = [due EXCEPT ![c] = 0]

(* Qos and Consume, or Confirm, publish and the wait for the broker's ack.  *)
Completes(c) ==
  /\ Running
  /\ call[c] = "use"
  /\ Returns(c)
  /\ channel' = (channel \/ c = Consumer)
  /\ UNCHANGED <<main, conn, watch, dials, world>>

(* The end of an attempt that failed: sleep and try again, or give up,      *)
(* which for the consumer is a panic.                                       *)
AttemptFails(c) ==
  /\ tries' = [tries EXCEPT ![c] = @ + 1]
  /\ call' = [call EXCEPT ![c] = IF tries[c] + 1 < Limit[c] THEN "sleep" ELSE "idle"]
  /\ main' = IF c = Consumer /\ tries[c] + 1 = Limit[c] THEN "starved" ELSE main

(* Channel() fails on a connection that is gone. *)
ChannelFails(c) ==
  /\ Running
  /\ call[c] = "in" /\ conn # "open"
  /\ AttemptFails(c)
  /\ UNCHANGED <<conn, watch, dials, due, channel, world>>

(* What follows fails: the channel has gone with its connection, or, on an  *)
(* open one, by an error of the channel, a nack or the 5 s without an ack.  *)
OperationFails(c) ==
  /\ Running
  /\ \/ call[c] = "dead" /\ UNCHANGED <<due, faults>>
     \/ call[c] = "use" /\ Fault /\ due' = [due EXCEPT ![c] = @ + 1]
  /\ AttemptFails(c)
  /\ UNCHANGED <<conn, watch, dials, channel, reachable>>

(* The context of a publish is done: the request's client has gone, or the  *)
(* consumers are being stopped.                                             *)
Cancelled(c) ==
  /\ Running
  /\ c # Consumer /\ call[c] \in {"use", "dead", "sleep"}
  /\ Returns(c)
  /\ UNCHANGED <<main, conn, watch, dials, channel, world>>

WatchRuns == \E g \in Watchers : watch[g] = "start" \/ (watch[g] = "listen" /\ conn # "open")

(* The sleep, half a second at least, is over.  That a goroutine which can  *)
(* run has not run in the meantime is a fault of the scheduler.             *)
Retry(c) ==
  /\ Running
  /\ call[c] = "sleep"
  /\ \/ ~ WatchRuns /\ UNCHANGED <<due, faults>>
     \/ WatchRuns /\ Fault /\ due' = [due EXCEPT ![c] = @ + 1]
  /\ call' = [call EXCEPT ![c] = "rlock"]
  /\ UNCHANGED <<main, conn, watch, dials, tries, channel, reachable>>

-----------------------------------------------------------------------------
(* The network and the broker. *)
ConnLost ==
  /\ conn = "open"
  /\ Fault
  /\ conn' = "lost" /\ channel' = FALSE
  /\ Sever
  /\ reachable' \in BOOLEAN
  /\ UNCHANGED <<main, watch, dials, tries>>

(* The consumer's channel alone is closed by an error. *)
ChannelLost ==
  /\ channel
  /\ Fault
  /\ channel' = FALSE
  /\ UNCHANGED <<main, conn, watch, dials, call, tries, due, reachable>>

BrokerGone ==
  /\ conn # "open" /\ reachable
  /\ Fault
  /\ reachable' = FALSE
  /\ UNCHANGED <<main, conn, watch, dials, callVars>>

BrokerBack ==
  /\ ~ reachable
  /\ reachable' = TRUE
  /\ UNCHANGED <<main, conn, watch, dials, callVars, faults>>

-----------------------------------------------------------------------------
MainStep == Shutdown \/ CloseLocks \/ CloseConn \/ Exit \/ \E g \in Watchers : New(g)

Watch(g) ==
  Listen(g) \/ Wake(g) \/ WatchLocks(g) \/ WatchUnlocks(g) \/ \E h \in Watchers : Redial(g, h)

Attempt(c) ==
  RLock(c) \/ ChannelOpens(c) \/ Completes(c) \/ ChannelFails(c) \/ OperationFails(c) \/ Retry(c)

World == ConnLost \/ ChannelLost \/ BrokerGone \/ BrokerBack

ConnectionNext ==
  \/ MainStep \/ World
  \/ \E g \in Watchers : Watch(g)
  \/ \E c \in Callers : BeginCall(c) \/ Attempt(c) \/ Cancelled(c)

ConnectionSpec == ConnectionInit /\ [][ConnectionNext]_vars

(* Goroutines that can run do.  A caller blocked by one writer after        *)
(* another gets in between them.  Nothing is assumed of the broker.         *)
FairConnection ==
  /\ ConnectionSpec
  /\ WF_vars(CloseLocks) /\ WF_vars(CloseConn) /\ WF_vars(Exit)
  /\ WF_vars(\E g \in Watchers : New(g))
  /\ \A g \in Watchers : WF_vars(Watch(g))
  /\ \A c \in Callers : WF_vars(Attempt(c)) /\ SF_vars(RLock(c))
  /\ WF_vars(BeginCall(Consumer))

-----------------------------------------------------------------------------
(* Properties *)

(* Exactly one goroutine watches the connection while the service runs,     *)
(* whatever closes it and however the hand-over between two of them is      *)
(* interleaved: none, and a lost connection would never be redialled; two,  *)
(* and they would dial against each other, one holding a dead connection.   *)
OneWatcher ==
  Running => Cardinality({g \in Watchers : watch[g] \notin {"absent", "unlock"}}) = 1

(* The read of mq.conn that takes no lock never coincides with the write    *)
(* in dial.                                                                 *)
UnlockedReadIsSafe ==
  \A g \in Watchers : watch[g] = "start" => \A h \in Watchers : watch[h] # "dial"

(* Within one call, an attempt fails only if something has happened to that *)
(* call since it began which no earlier attempt has paid for: the end of    *)
(* the connection (one that was over already when it began counts once), an *)
(* error on its own channel, or a retry that overtook the watch goroutine.  *)
(* However long a redial takes, it costs no further attempt, as whoever     *)
(* tries again meets the lock and waits for its outcome.  So neither the    *)
(* consumer's panic nor the error of a publish comes of a single outage.    *)
AttemptsCostLosses == \A c \in Callers : tries[c] <= due[c]

(* While a caller is inside Channel, nobody replaces or closes mq.conn.     *)
ConnIsStable == [][Reading => conn' \in {conn, "lost"}]_conn

(* Every call of Channel returns, although the lock is held through up to   *)
(* five dials.                                                              *)
CallsReturn == \A c \in Callers : call[c] # "idle" ~> (call[c] = "idle" \/ ~ Running)

(* A consumer that has lost its channel consumes again, or the process ends *)
(* and is replaced.                                                         *)
ConsumerReturns == ~ channel ~> (channel \/ main \in {"exited", "unreachable", "starved"})

(* Close returns, whoever holds the lock when the service is stopped.       *)
CloseReturns == main = "stop" ~> main \in {"exited", "unreachable", "starved"}
=============================================================================
