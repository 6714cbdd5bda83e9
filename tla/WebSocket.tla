------------------------------ MODULE WebSocket ------------------------------
(***************************************************************************)
(* The client side of WebSocket (src/src/NetworkTransport.cpp): open()     *)
(* resolves the host on another thread, dials its addresses one after the  *)
(* other under one handshake deadline, and ends with one disconnected      *)
(* signal.                                                                 *)
(*                                                                         *)
(* open() replaces the Private object, so tasks and stream callbacks of an *)
(* earlier object may still arrive; a new stream gets a new generation.    *)
(* The events of one read are emitted one by one, and the slots may call   *)
(* the object in between: `batch' holds the rest of the read, and the      *)
(* event loop waits for it.  The streams, the resolver and the WebSocket   *)
(* codec belong to iiNetwork and are the environment.                      *)
(***************************************************************************)
EXTENDS Integers, Sequences

CONSTANTS
  MaxOpens,     \* bound: calls of open()
  MaxAddresses, \* bound: addresses of a host
  Handshake,    \* 5000 ms, in ticks
  CloseWait     \* 1000 ms, in ticks

ASSUME LimitAssumption ==
  /\ MaxOpens \in Nat /\ MaxAddresses \in Nat \ {0}
  /\ Handshake \in Nat \ {0} /\ CloseWait \in Nat \ {0}

Opens == 1..MaxOpens

VARIABLES
  alive,      \* the WebSocket object exists
  d,          \* the current Private object; 0 is the one of the constructor
  state,      \* its SocketState
  session,    \* its codec: "none", or what it has read: "upgrade", "open", "done"
  stream,     \* its current stream is attached
  generation, \* its generation
  addresses,  \* number of its addresses
  nextAddress,\* addresses it has tried
  deadline,   \* ticks left, or -1 when the timer is stopped
  tasks,      \* tasks in flight: <<kind, Private>>
  batch,      \* the rest of the read that is being processed
  reader,     \* the Private whose receive() is running
  signals,    \* history, per open(): "none", "opening", "connected", "over"
  age,        \* history: ticks since open() while connecting
  failures,   \* history: addresses of the current open() that failed
  reason,     \* history: why the current object ended
  heard       \* history: signals[i] when open() i last emitted a message

private == <<state, session, stream, generation, addresses, nextAddress, deadline>>

reading == <<batch, reader>>

history == <<signals, age, failures, reason, heard>>

vars == <<alive, d, private, tasks, reading, history>>

Init ==
  /\ alive = TRUE /\ d = 0
  /\ state = "closed" /\ session = "none" /\ stream = FALSE
  /\ generation = 0 /\ addresses = 0 /\ nextAddress = 0 /\ deadline = -1
  /\ tasks = {} /\ batch = <<>> /\ reader = 0
  /\ signals = [i \in Opens |-> "none"]
  /\ age = 0 /\ failures = 0 /\ reason = "none" /\ heard = "none"

Over == state \in {"closed", "failed"}

\* The event loop is not inside a read.
Idle == batch = <<>>

-----------------------------------------------------------------------------
(* The private object *)

\* disconnected() of the object d, if its owner exists.
Notified(s) == [i \in Opens |-> IF i = d /\ alive THEN "over" ELSE s[i]]

SessionAfter == "none"

\* finish() of a live object: everything is released, then disconnected().
Release(failed, why) ==
  /\ state' = IF failed THEN "failed" ELSE "closed"
  /\ generation' = generation + 1
  /\ stream' = FALSE
  /\ session' = SessionAfter
  /\ deadline' = -1
  /\ signals' = Notified(signals)
  /\ reason' = why
  /\ UNCHANGED <<age, heard>>

finish(failed, why) ==
  IF Over THEN UNCHANGED <<private, history>>
  ELSE Release(failed, why) /\ UNCHANGED <<addresses, nextAddress, failures>>

\* Mutant: every address gets the whole handshake time.
FullTime == Handshake

\* The deadline of attach(): what is left of the one that runs, at least 1 ms.
Remaining == IF deadline > 0 THEN deadline ELSE IF deadline = 0 THEN 1 ELSE Handshake

\* retry() with the failures counted so far: the next address in a task of its
\* own, or the end.
retry(rest, next, all, lost) ==
  /\ addresses' = all /\ nextAddress' = next /\ failures' = lost
  /\ IF state # "connecting" \/ next = all
     THEN /\ Release(TRUE, IF state = "connecting" THEN "exhausted" ELSE "stream")
          /\ tasks' = rest
     ELSE /\ generation' = generation + 1
          /\ stream' = FALSE
          /\ tasks' = rest \cup {<<"dial", d>>}
          /\ UNCHANGED <<state, session, deadline, signals, age, reason, heard>>

\* dialNext() when `next' of `all' addresses have been tried: the codec or TLS
\* cannot be set up, the address is refused at once, or a stream is attached.
dialNext(rest, next, all) ==
  \/ /\ next < all
     /\ addresses' = all /\ nextAddress' = next + 1
     /\ Release(TRUE, "setup")
     /\ tasks' = rest /\ UNCHANGED failures
  \/ /\ next < all
     /\ retry(rest, next + 1, all, failures + 1)
  \/ /\ next < all
     /\ addresses' = all /\ nextAddress' = next + 1
     /\ session' = "upgrade" /\ stream' = TRUE
     /\ generation' = generation + 1
     /\ deadline' = Remaining
     /\ tasks' = rest
     /\ UNCHANGED <<state, history>>

-----------------------------------------------------------------------------
(* The owner, from the event loop or from a slot of this object *)

\* Mutant: the old object is dropped without a signal.
Dropped == signals

\* The signals after the abort() of open().
Aborted == IF Over THEN signals ELSE Notified(signals)

\* Mutant: no deadline before the first address is dialled.
NoDeadline == -1

\* The deadline that open() starts.
OpenDeadline == Handshake

\* open(): the old object is finished and replaced.
Open ==
  /\ alive
  /\ d < MaxOpens
  /\ d' = d + 1
  /\ state' = "connecting" /\ session' = "none" /\ stream' = FALSE
  /\ generation' = 0 /\ addresses' = 0 /\ nextAddress' = 0
  /\ deadline' = OpenDeadline
  /\ tasks' = tasks \cup {<<"begin", d + 1>>}
  /\ signals' = [Aborted EXCEPT ![d + 1] = "opening"]
  /\ age' = 0 /\ failures' = 0 /\ reason' = "none"
  /\ UNCHANGED <<alive, reading, heard>>

Abort ==
  /\ alive
  /\ ~Over
  /\ finish(FALSE, "owner")
  /\ UNCHANGED <<alive, d, tasks, reading>>

\* close(): a connected socket says goodbye and waits, any other is finished.
Close ==
  /\ alive
  /\ ~Over
  /\ IF session # "none" /\ state = "connected"
     THEN \/ /\ state' = "closing"
             /\ deadline' = CloseWait
             /\ UNCHANGED <<session, stream, generation, addresses, nextAddress, history>>
          \/ finish(TRUE, "codec")
     ELSE finish(FALSE, "owner")
  /\ UNCHANGED <<alive, d, tasks, reading>>

\* send, ping or flush of a connection whose output is full or broken.
Overflow ==
  /\ alive
  /\ session # "none"
  /\ state \in {"connected", "closing"}
  /\ finish(TRUE, "codec")
  /\ UNCHANGED <<alive, d, tasks, reading>>

\* The destructor: no signal.
Destroy ==
  /\ alive
  /\ alive' = FALSE
  /\ state' = IF Over THEN state ELSE "closed"
  /\ session' = "none" /\ stream' = FALSE /\ deadline' = -1
  /\ tasks' = {} /\ batch' = <<>> /\ reader' = 0
  /\ UNCHANGED <<d, generation, addresses, nextAddress, history>>

-----------------------------------------------------------------------------
(* The event loop *)

\* A task acts only for the current object while it is connecting.
Current(i) == i = d /\ state = "connecting"

\* The task of open(): the URL is checked and the host is an address, or is
\* given to the resolver, which may be busy.
Begin(i) ==
  /\ alive /\ Idle
  /\ <<"begin", i>> \in tasks
  /\ LET rest == tasks \ {<<"begin", i>>} IN
     \/ /\ ~Current(i)
        /\ tasks' = rest /\ UNCHANGED <<private, history>>
     \/ /\ Current(i)
        /\ tasks' = rest
        /\ finish(TRUE, "setup")
     \/ /\ Current(i)
        /\ tasks' = rest \cup {<<"resolve", i>>}
        /\ UNCHANGED <<private, history>>
     \/ /\ Current(i)
        /\ dialNext(rest, 0, 1)
  /\ UNCHANGED <<alive, d, reading>>

\* The resolver's answer: n addresses, 0 for a failure.
Resolved(i, n) ==
  /\ alive /\ Idle
  /\ <<"resolve", i>> \in tasks
  /\ LET rest == tasks \ {<<"resolve", i>>} IN
     IF ~Current(i) THEN tasks' = rest /\ UNCHANGED <<private, history>>
     ELSE IF n = 0 THEN tasks' = rest /\ finish(TRUE, "resolver")
     ELSE dialNext(rest, 0, n)
  /\ UNCHANGED <<alive, d, reading>>

\* The answer is dropped: the delivery queue is full.
ResolverLost(i) ==
  /\ <<"resolve", i>> \in tasks
  /\ tasks' = tasks \ {<<"resolve", i>>}
  /\ UNCHANGED <<alive, d, private, reading, history>>

\* The task of retry().
Redial(i) ==
  /\ alive /\ Idle
  /\ <<"dial", i>> \in tasks
  /\ LET rest == tasks \ {<<"dial", i>>} IN
     IF Current(i) THEN dialNext(rest, nextAddress, addresses)
     ELSE tasks' = rest /\ UNCHANGED <<private, history>>
  /\ UNCHANGED <<alive, d, reading>>

\* Mutant: callbacks of an earlier stream are taken for the current one.
AnyStream(g) == TRUE

\* A callback of the stream of generation g acts for the current stream only.
Attached(g) == stream /\ g = generation

\* failed, disconnected or read_closed of the stream of generation g.  A
\* stream that was detached may have a callback under way.
StreamLost(g, failed) ==
  /\ alive /\ Idle
  /\ g \in 1..generation
  /\ Attached(g)
  /\ IF failed \/ state = "connecting"
     THEN retry(tasks, nextAddress, addresses, IF g = generation THEN failures + 1 ELSE failures)
     ELSE finish(FALSE, "stream") /\ UNCHANGED tasks
  /\ UNCHANGED <<alive, d, reading>>

\* The events that one read can hold, by what the codec has read before: one
\* upgrade, messages, one close frame.
Reads ==
  [upgrade |-> {<<"opened">>, <<"opened", "message">>, <<"opened", "closed">>},
   open |-> {<<"message">>, <<"message", "message">>, <<"closed">>, <<"message", "closed">>},
   done |-> {}, none |-> {}]

\* readable: the codec takes the bytes and the events wait to be emitted.
Readable(g) ==
  /\ alive /\ Idle
  /\ g \in 1..generation
  /\ Attached(g)
  /\ \E events \in Reads[session] :
       /\ batch' = events
       /\ session' = IF events[Len(events)] = "closed" THEN "done" ELSE "open"
  /\ reader' = d
  /\ UNCHANGED <<alive, d, state, stream, generation, addresses, nextAddress, deadline, tasks, history>>

\* readable: bytes that the codec rejects.
Rejected(g) ==
  /\ alive /\ Idle
  /\ g \in 1..generation
  /\ Attached(g) /\ session # "none"
  /\ finish(TRUE, "codec")
  /\ UNCHANGED <<alive, d, tasks, reading>>

\* opened(): connected() of a socket that is still connecting.
opened ==
  /\ state = "connecting"
  /\ state' = "connected" /\ deadline' = -1
  /\ signals' = [signals EXCEPT ![d] = "connected"]
  /\ UNCHANGED <<session, stream, generation, addresses, nextAddress, age, failures, reason, heard>>

\* One event of the read.  The read ends when a slot has ended or replaced the
\* connection.
Event ==
  /\ alive /\ ~Idle
  /\ LET e == Head(batch) IN
     IF reader # d \/ session = "none"
     THEN batch' = <<>> /\ reader' = 0 /\ UNCHANGED <<private, history>>
     ELSE /\ batch' = Tail(batch)
          /\ reader' = IF Tail(batch) = <<>> THEN 0 ELSE reader
          /\ \/ /\ e = "opened"
                /\ opened
             \/ /\ e = "message"
                /\ heard' = signals[d]
                /\ UNCHANGED <<private, signals, age, failures, reason>>
             \/ /\ e = "closed"
                /\ state' = "closing" /\ deadline' = CloseWait
                /\ UNCHANGED <<session, stream, generation, addresses, nextAddress, history>>
  /\ UNCHANGED <<alive, d, tasks>>

\* The deadline of the handshake or of the close.
Timeout ==
  /\ alive /\ Idle
  /\ deadline = 0
  /\ finish(state # "closing", "deadline")
  /\ UNCHANGED <<alive, d, tasks, reading>>

\* One tick; a deadline that has passed is served first.
Tick ==
  /\ alive
  /\ deadline > 0
  /\ deadline' = deadline - 1
  /\ age' = IF state = "connecting" THEN age + 1 ELSE age
  /\ UNCHANGED <<alive, d, state, session, stream, generation, addresses, nextAddress>>
  /\ UNCHANGED <<tasks, reading, signals, failures, reason, heard>>

-----------------------------------------------------------------------------
Task(i) ==
  \/ Begin(i) \/ Redial(i) \/ ResolverLost(i)
  \/ \E n \in 0..MaxAddresses : Resolved(i, n)

Stream(g) == Readable(g) \/ Rejected(g) \/ \E failed \in BOOLEAN : StreamLost(g, failed)

Next ==
  \/ Open \/ Abort \/ Close \/ Overflow \/ Destroy
  \/ Event \/ Timeout \/ Tick
  \/ \E i \in Opens : Task(i)
  \/ \E g \in 1..generation : Stream(g)

Spec == Init /\ [][Next]_vars

\* The event loop runs and time passes; a timer is served between two reads,
\* however many there are.  Nothing is assumed of the network, of the resolver
\* or of the owner.
Fairness ==
  /\ WF_vars(Event) /\ WF_vars(Tick) /\ SF_vars(Timeout)
  /\ \A i \in Opens : SF_vars(Begin(i)) /\ SF_vars(Redial(i))

FairSpec == Spec /\ Fairness

-----------------------------------------------------------------------------
(* Properties *)

\* What can be left of a read.
Batches ==
  {<<>>} \cup {<<a>> : a \in {"opened", "message", "closed"}}
         \cup ({"opened", "message"} \X {"message", "closed"})

\* Every variable has its type.
TypeOK ==
  /\ alive \in BOOLEAN /\ stream \in BOOLEAN
  /\ d \in 0..MaxOpens /\ reader \in 0..MaxOpens
  /\ state \in {"connecting", "connected", "closing", "closed", "failed"}
  /\ session \in {"none", "upgrade", "open", "done"}
  /\ generation \in 0..(2 * MaxAddresses + 2)
  /\ addresses \in 0..MaxAddresses /\ nextAddress \in 0..addresses
  /\ deadline \in -1..(Handshake + CloseWait)
  /\ tasks \subseteq {"begin", "resolve", "dial"} \X Opens
  /\ batch \in Batches
  /\ signals \in [Opens -> {"none", "opening", "connected", "over"}]
  /\ age \in Nat /\ failures \in 0..MaxAddresses
  /\ reason \in {"none", "owner", "deadline", "exhausted", "setup", "resolver", "stream", "codec"}
  /\ heard \in {"none", "opening", "connected", "over"}

\* The owner of the socket hears of the end of every connection attempt, also
\* of one that an open() replaces: an attempt has no disconnected signal
\* exactly while it is the current one and has not ended.  Messages come between
\* connected and disconnected only, though the slot of one may end or replace
\* the connection while others of the same read wait
\* (NetworkTransport.cpp:66-75, 95-96, 182).
SignalsInOrder ==
  /\ TypeOK
  /\ alive => \A i \in 1..d : signals[i] = "over" <=> (i < d \/ Over)
  /\ heard \in {"none", "connected"}

\* The resolver and all addresses share one handshake time: a socket is never
\* connecting for longer than that, plus the 1 ms that each address is given
\* when the deadline has just passed (NetworkTransport.cpp:168, 173, 191).
HandshakeBounded == state = "connecting" => age <= Handshake + nextAddress

\* The socket gives up for want of an address only after each address has
\* failed: a late callback of one attempt is never taken for the failure of the
\* next (NetworkTransport.cpp:117, 130, 156-163).
EveryAddressTried == reason = "exhausted" => failures = addresses

\* An open() comes to an end, whatever the resolver and the network do, and so
\* does a connection that is closing (NetworkTransport.cpp:108, 170-173, 188-191, 220).
AttemptsEnd ==
  /\ \A i \in Opens : signals[i] = "opening" ~> (signals[i] \in {"connected", "over"} \/ ~alive)
  /\ (state = "closing") ~> (state # "closing")
=============================================================================
