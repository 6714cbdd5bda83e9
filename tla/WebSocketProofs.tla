--------------------------- MODULE WebSocketProofs ---------------------------
(***************************************************************************)
(* Theorems about WebSocket, for any number of open() calls and addresses  *)
(* and any times: the signals come in order, the handshake is bounded, and *)
(* no address is given up untried.                                         *)
(*                                                                         *)
(* A Private object that is connecting is driven by one thing at a time,   *)
(* the task of open(), the resolver, the task of retry() or the attached   *)
(* stream: that is why no address is counted twice.  The read under way    *)
(* begins with "opened" exactly while its object is connecting: that is    *)
(* why no message comes before connected().                                *)
(***************************************************************************)
EXTENDS WebSocket, TLAPS

\* The object that is connecting has a task of this kind.
Tasked(kind) == <<kind, d>> \in tasks

\* Only objects that exist have tasks, and what drives a connecting object is
\* one thing: a stream, or one task.
OneDriver ==
  /\ \A t \in tasks : t[2] <= d
  /\ state = "connecting" =>
       /\ stream => ~Tasked("begin") /\ ~Tasked("resolve") /\ ~Tasked("dial")
       /\ Tasked("begin") => ~Tasked("resolve") /\ ~Tasked("dial")
       /\ Tasked("resolve") => ~Tasked("dial")

\* What the counters of a connecting object say: every address that was tried
\* has failed but the one whose stream is attached, none was tried before the
\* host is resolved, and the time that is left fits the handshake.
Counted ==
  state = "connecting" =>
    /\ failures = IF stream THEN nextAddress - 1 ELSE nextAddress
    /\ Tasked("begin") \/ Tasked("resolve") => nextAddress = 0
    /\ stream => nextAddress > 0
    /\ deadline >= 0
    /\ age + deadline <= Handshake + nextAddress

\* The generation counts at most two changes of stream per address, and one at
\* the end.
Generations ==
  /\ generation <= 2 * nextAddress + 1
  /\ ~Over => generation <= 2 * nextAddress
  /\ stream => generation < 2 * nextAddress

\* What the object holds by its state: one that is over holds nothing, and one
\* that is connected or closing has a codec that has read the upgrade.
Held ==
  /\ d = 0 => Over
  /\ Over => ~stream /\ session = "none"
  /\ ~Over => reason = "none"
  /\ failures <= nextAddress
  /\ stream => session # "none" /\ failures < nextAddress
  /\ state \in {"connected", "closing"} => stream /\ session \in {"open", "done"}

\* The read under way: it is the read of an object that exists; if that is the
\* current one, and it has not ended, then "opened" comes first exactly while
\* the object is connecting.
ReadingNow == ~Idle /\ reader = d /\ session # "none"

Reading ==
  /\ Idle <=> reader = 0
  /\ reader <= d
  /\ ReadingNow =>
       /\ stream /\ session \in {"open", "done"}
       /\ Head(batch) = "opened" <=> state = "connecting"
  /\ state = "connecting" /\ ~ReadingNow => session \in {"none", "upgrade"}

\* What the owner has heard of each open().
Heard ==
  /\ heard \in {"none", "connected"}
  /\ alive => \A i \in 1..d : signals[i] = "over" <=> (i < d \/ Over)
  /\ state \in {"connected", "closing"} => signals[d] = "connected"

IInv ==
  /\ TypeOK /\ OneDriver /\ Counted /\ Generations /\ Held /\ Reading /\ Heard
  /\ EveryAddressTried

-----------------------------------------------------------------------------
(* The parts of the actions *)

LEMMA Numbers ==
  ASSUME TypeOK
  PROVE  /\ generation \in Nat /\ addresses \in Nat /\ nextAddress \in Nat
         /\ failures \in Nat /\ age \in Nat /\ deadline \in Int /\ d \in Nat
         /\ nextAddress <= addresses /\ addresses <= MaxAddresses /\ d <= MaxOpens
BY LimitAssumption DEF TypeOK

LEMMA Doubled ==
  ASSUME NEW x \in Nat, NEW y \in Nat, NEW g \in Nat, x <= y, g <= 2 * x
  PROVE  g + 1 <= 2 * y + 1
OBVIOUS

LEMMA InvInit == Init => IInv
<1> SUFFICES ASSUME Init PROVE IInv
  OBVIOUS
<1> USE LimitAssumption
<1>1. TypeOK
  <2>1. batch \in Batches
    BY DEF Init, Batches
  <2>2. deadline \in -1..(Handshake + CloseWait) /\ generation \in 0..(2 * MaxAddresses + 2)
    BY DEF Init
  <2>3. signals \in [Opens -> {"none", "opening", "connected", "over"}]
    BY DEF Init
  <2>4. addresses \in 0..MaxAddresses /\ nextAddress \in 0..addresses
    BY DEF Init
  <2>5. age \in Nat /\ failures \in 0..MaxAddresses /\ d \in 0..MaxOpens /\ reader \in 0..MaxOpens
    BY DEF Init
  <2>6. alive \in BOOLEAN /\ stream \in BOOLEAN /\ tasks = {}
    BY DEF Init
  <2>7. /\ state = "closed" /\ session = "none" /\ reason = "none" /\ heard = "none"
    BY DEF Init
  <2> QED
    BY <2>1, <2>2, <2>3, <2>4, <2>5, <2>6, <2>7 DEF TypeOK
<1>2. Over /\ Idle /\ state = "closed" /\ d = 0
  BY DEF Init, Over, Idle
<1>3. OneDriver /\ Counted /\ Generations /\ Held
  BY <1>2 DEF Init, OneDriver, Counted, Generations, Held
<1>4. Reading /\ Heard /\ EveryAddressTried
  BY <1>2 DEF Init, Reading, ReadingNow, Heard, EveryAddressTried
<1> QED
  BY <1>1, <1>3, <1>4 DEF IInv

\* The end of an object that is not over, with its tasks as they are or one less.
LEMMA InvRelease ==
  ASSUME IInv, ~Over, NEW failed \in BOOLEAN,
         NEW why \in {"owner", "deadline", "exhausted", "setup", "resolver", "stream", "codec"},
         Release(failed, why),
         tasks' \subseteq tasks,
         addresses' \in 0..MaxAddresses, nextAddress' \in 0..addresses',
         nextAddress' >= nextAddress, failures' \in 0..nextAddress',
         why = "exhausted" => failures' = addresses',
         UNCHANGED <<alive, d, batch, reader>>
  PROVE  IInv'
<1> USE LimitAssumption DEF IInv
<1>1. state' \in {"closed", "failed"} /\ Over'
  BY DEF Release, Over
<1>2. d \in Opens /\ d \in Nat
  BY DEF Held, TypeOK, Opens
<1>3. generation' = generation + 1 /\ generation <= 2 * nextAddress
  BY DEF Release, Generations
<1>4. TypeOK'
  <2>1. generation' \in 0..(2 * MaxAddresses + 2)
    <3>1. nextAddress \in Nat /\ addresses \in Nat /\ nextAddress <= MaxAddresses
      BY Numbers
    <3> QED
      BY <1>3, <3>1, Numbers
  <2>2. signals' \in [Opens -> {"none", "opening", "connected", "over"}]
    BY DEF Release, TypeOK, Notified
  <2>3. batch' = batch /\ reader' = reader
    OBVIOUS
  <2>4. state' \in {"closed", "failed"} /\ session' = "none" /\ deadline' = -1 /\ reason' = why
    BY <1>1 DEF Release, SessionAfter
  <2>5. alive' = alive /\ d' = d /\ age' = age /\ heard' = heard /\ stream' = FALSE
    BY DEF Release
  <2>6. tasks' \subseteq {"begin", "resolve", "dial"} \X Opens
    BY DEF TypeOK
  <2>7. deadline' \in -1..(Handshake + CloseWait)
    BY <2>4
  <2>8. reason' \in {"none", "owner", "deadline", "exhausted", "setup", "resolver", "stream", "codec"}
    BY <2>4
  <2>9. failures' \in 0..MaxAddresses
    OBVIOUS
  <2> QED
    BY <2>1, <2>2, <2>3, <2>4, <2>5, <2>6, <2>7, <2>8, <2>9 DEF TypeOK
<1>5. OneDriver'
  BY <1>1 DEF OneDriver
<1>6. Counted' /\ EveryAddressTried'
  BY <1>1 DEF Counted, EveryAddressTried, Release
<1>7. Generations'
  <2>1. nextAddress' \in Nat /\ nextAddress \in Nat /\ generation \in Nat /\ generation' \in Nat
    BY <1>4, Numbers DEF TypeOK
  <2>2. stream' = FALSE
    BY DEF Release
  <2>3. generation' <= 2 * nextAddress' + 1
    <3>1. nextAddress <= nextAddress'
      BY <2>1
    <3> QED
      BY <1>3, <2>1, <3>1, Doubled
  <2> QED
    BY <1>1, <2>2, <2>3 DEF Generations
<1>8. Held'
  BY <1>1 DEF Held, Release, SessionAfter, TypeOK, Over
<1>9. Reading'
  BY <1>1 DEF Reading, ReadingNow, Idle, Release, SessionAfter
<1>10. Heard'
  BY <1>1, <1>2 DEF Heard, Release, Notified, TypeOK, Opens
<1> QED
  BY <1>4, <1>5, <1>6, <1>7, <1>8, <1>9, <1>10

\* retry() of an object that is not over and has no task: the next address gets
\* a task, or the object ends.
LEMMA InvRetry ==
  ASSUME IInv, ~Over, Idle, NEW rest, rest \subseteq tasks, \A kind \in {"begin", "resolve", "dial"} : <<kind, d>> \notin rest,
         NEW all \in 1..MaxAddresses, NEW next \in 0..all, NEW lost \in 0..next,
         next >= nextAddress, generation + 1 <= 2 * next,
         state = "connecting" => lost = next,
         retry(rest, next, all, lost),
         UNCHANGED <<alive, d, batch, reader>>
  PROVE  IInv'
<1> USE LimitAssumption
<1>0. all \in Nat /\ next \in Nat /\ lost \in Nat /\ all <= MaxAddresses /\ next <= all
  OBVIOUS
<1>1. addresses' = all /\ nextAddress' = next /\ failures' = lost
  BY DEF retry
<1>2. TypeOK /\ d \in Nat /\ d \in Opens
  BY DEF IInv, Held, TypeOK, Opens
<1>3. CASE state # "connecting" \/ next = all
  <2> DEFINE why == IF state = "connecting" THEN "exhausted" ELSE "stream"
  <2>1. Release(TRUE, why) /\ tasks' = rest
    BY <1>3 DEF retry
  <2>2. why = "exhausted" => failures' = addresses'
    BY <1>1, <1>3
  <2>3. why \in {"owner", "deadline", "exhausted", "setup", "resolver", "stream", "codec"}
    OBVIOUS
  <2>4. /\ addresses' \in 0..MaxAddresses /\ nextAddress' \in 0..addresses'
        /\ failures' \in 0..nextAddress' /\ nextAddress' >= nextAddress
    BY <1>0, <1>1
  <2> HIDE DEF why
  <2> QED
    BY <2>1, <2>2, <2>3, <2>4, InvRelease
<1>4. CASE state = "connecting" /\ next # all
  <2>1. /\ generation' = generation + 1 /\ stream' = FALSE
        /\ tasks' = rest \cup {<<"dial", d>>}
        /\ UNCHANGED <<state, session, deadline, signals, age, reason, heard, alive, d, batch, reader>>
    BY <1>4 DEF retry
  <2>2. generation \in Nat /\ nextAddress \in Nat /\ age \in Nat /\ deadline \in Int
    BY <1>2, Numbers
  <2>3. TypeOK'
    <3>1. generation' \in 0..(2 * MaxAddresses + 2)
      BY <1>0, <2>1, <2>2
    <3>2. tasks' \subseteq {"begin", "resolve", "dial"} \X Opens
      BY <1>2, <2>1 DEF TypeOK
    <3>3. /\ addresses' \in 0..MaxAddresses /\ nextAddress' \in 0..addresses'
          /\ failures' \in 0..MaxAddresses
      BY <1>0, <1>1
    <3> QED
      BY <1>2, <2>1, <3>1, <3>2, <3>3 DEF TypeOK
  <2>4. OneDriver'
    <3>1. \A t \in tasks' : t[2] <= d'
      BY <1>2, <2>1 DEF IInv, OneDriver
    <3>2. ~Tasked("begin")' /\ ~Tasked("resolve")'
      BY <2>1 DEF Tasked
    <3> QED
      BY <2>1, <3>1, <3>2 DEF OneDriver
  <2>5. Counted'
    <3>1. ~Tasked("begin")' /\ ~Tasked("resolve")'
      BY <2>1 DEF Tasked
    <3>2. age + deadline <= Handshake + next /\ deadline >= 0
      BY <1>0, <1>4, <2>2 DEF IInv, Counted
    <3> QED
      BY <1>1, <1>4, <2>1, <3>1, <3>2 DEF Counted
  <2>6. Generations'
    <3>1. generation' <= 2 * nextAddress' /\ generation' <= 2 * nextAddress' + 1
      BY <1>0, <1>1, <2>1, <2>2
    <3> QED
      BY <2>1, <3>1 DEF Generations
  <2>7. Held' /\ EveryAddressTried'
    <3>1. ~Over' /\ reason' = "none"
      BY <2>1 DEF Over, IInv, Held
    <3>2. failures' <= nextAddress' /\ d' # 0
      BY <1>1, <2>1 DEF IInv, Held
    <3> QED
      BY <1>4, <2>1, <3>1, <3>2 DEF Held, EveryAddressTried
  <2>8. Reading' /\ Heard'
    BY <1>4, <2>1 DEF IInv, Reading, ReadingNow, Heard, Idle, Over
  <2> QED
    BY <2>3, <2>4, <2>5, <2>6, <2>7, <2>8 DEF IInv
<1> QED
  BY <1>3, <1>4

\* dialNext() of an object that is connecting and is driven by nothing else,
\* each address that was tried having failed.
LEMMA InvDial ==
  ASSUME IInv, state = "connecting", ~stream, Idle, NEW rest, rest \subseteq tasks,
         \A kind \in {"begin", "resolve", "dial"} : <<kind, d>> \notin rest,
         NEW all \in 1..MaxAddresses,
         dialNext(rest, nextAddress, all),
         UNCHANGED <<alive, d, batch, reader>>
  PROVE  IInv'
<1> USE LimitAssumption
<1>1. TypeOK /\ d \in Nat /\ d \in Opens /\ ~Over
  BY DEF IInv, Held, TypeOK, Opens, Over
<1>2. /\ generation \in Nat /\ nextAddress \in Nat /\ age \in Nat /\ deadline \in Int
      /\ all \in Nat /\ all <= MaxAddresses /\ failures \in Nat
  BY <1>1, Numbers
<1>3. nextAddress < all
  BY DEF dialNext
<1>4. /\ failures = nextAddress /\ deadline >= 0 /\ age + deadline <= Handshake + nextAddress
  BY DEF IInv, Counted
<1>5. generation <= 2 * nextAddress
  BY <1>1 DEF IInv, Generations
<1>6. CASE /\ addresses' = all /\ nextAddress' = nextAddress + 1
           /\ Release(TRUE, "setup")
           /\ tasks' = rest /\ UNCHANGED failures
  <2>1. /\ addresses' \in 0..MaxAddresses /\ nextAddress' \in 0..addresses'
        /\ failures' \in 0..nextAddress' /\ nextAddress' >= nextAddress
    BY <1>2, <1>3, <1>4, <1>6
  <2> QED
    BY <1>1, <1>6, <2>1, InvRelease
<1>7. CASE retry(rest, nextAddress + 1, all, failures + 1)
  <2>1. /\ nextAddress + 1 \in 0..all /\ failures + 1 \in 0..(nextAddress + 1)
        /\ failures + 1 = nextAddress + 1 /\ nextAddress + 1 >= nextAddress
        /\ generation + 1 <= 2 * (nextAddress + 1)
    BY <1>2, <1>3, <1>4, <1>5
  <2> QED
    BY <1>1, <1>7, <2>1, InvRetry
<1>8. CASE /\ addresses' = all /\ nextAddress' = nextAddress + 1
           /\ session' = "upgrade" /\ stream' = TRUE
           /\ generation' = generation + 1
           /\ deadline' = Remaining
           /\ tasks' = rest
           /\ UNCHANGED <<state, history>>
  <2>1. /\ UNCHANGED <<state, signals, age, failures, reason, heard, alive, d, batch, reader>>
    BY <1>8 DEF history
  <2>2. /\ deadline' \in 0..(Handshake + CloseWait)
        /\ age' + deadline' <= Handshake + nextAddress'
    <3>1. deadline <= Handshake + CloseWait
      BY <1>1 DEF TypeOK
    <3>2. CASE deadline > 0
      BY <1>2, <1>4, <1>8, <2>1, <3>1, <3>2 DEF Remaining
    <3>3. CASE deadline = 0
      BY <1>2, <1>4, <1>8, <2>1, <3>1, <3>3 DEF Remaining
    <3> QED
      BY <1>2, <1>4, <3>2, <3>3
  <2>3. TypeOK'
    <3>1. generation' \in 0..(2 * MaxAddresses + 2)
      BY <1>2, <1>3, <1>5, <1>8
    <3>2. tasks' \subseteq {"begin", "resolve", "dial"} \X Opens
      BY <1>1, <1>8 DEF TypeOK
    <3>3. /\ addresses' \in 0..MaxAddresses /\ nextAddress' \in 0..addresses'
      BY <1>2, <1>3, <1>8
    <3>4. deadline' \in -1..(Handshake + CloseWait)
      BY <2>2
    <3> QED
      BY <1>1, <1>8, <2>1, <3>1, <3>2, <3>3, <3>4 DEF TypeOK
  <2>4. OneDriver'
    <3>1. \A t \in tasks' : t[2] <= d'
      BY <1>1, <1>8, <2>1 DEF IInv, OneDriver
    <3>2. ~Tasked("begin")' /\ ~Tasked("resolve")' /\ ~Tasked("dial")'
      BY <1>8, <2>1 DEF Tasked
    <3> QED
      BY <3>1, <3>2 DEF OneDriver
  <2>5. Counted'
    <3>1. ~Tasked("begin")' /\ ~Tasked("resolve")'
      BY <1>8, <2>1 DEF Tasked
    <3>2. failures' = nextAddress' - 1 /\ nextAddress' > 0 /\ deadline' >= 0
      BY <1>2, <1>4, <1>8, <2>1, <2>2
    <3> QED
      BY <1>8, <2>2, <3>1, <3>2 DEF Counted
  <2>6. Generations'
    <3>1. generation' < 2 * nextAddress' /\ generation' <= 2 * nextAddress' + 1
      BY <1>2, <1>5, <1>8
    <3> QED
      BY <1>2, <1>8, <3>1 DEF Generations
  <2>7. Held' /\ EveryAddressTried'
    <3>1. ~Over' /\ reason' = "none"
      BY <1>1, <2>1 DEF Over, IInv, Held
    <3>2. failures' < nextAddress' /\ failures' <= nextAddress' /\ d' # 0
      BY <1>1, <1>2, <1>4, <1>8, <2>1 DEF IInv, Held
    <3> QED
      BY <1>8, <2>1, <3>1, <3>2 DEF Held, EveryAddressTried
  <2>8. Reading' /\ Heard'
    BY <1>8, <2>1 DEF IInv, Reading, ReadingNow, Heard, Idle, Over
  <2> QED
    BY <2>3, <2>4, <2>5, <2>6, <2>7, <2>8 DEF IInv
<1> QED
  BY <1>6, <1>7, <1>8 DEF dialNext

\* A task that does nothing.
LEMMA InvDropped ==
  ASSUME IInv, tasks' \subseteq tasks, UNCHANGED <<alive, d, private, reading, history>>
  PROVE  IInv'
<1>1. UNCHANGED <<alive, d, state, session, stream, generation, addresses, nextAddress, deadline,
                  batch, reader, signals, age, failures, reason, heard>>
  BY DEF private, reading, history
<1>2. TypeOK'
  BY <1>1 DEF IInv, TypeOK
<1>3. OneDriver' /\ Counted'
  BY <1>1 DEF IInv, OneDriver, Counted, Tasked
<1>4. Generations' /\ Held' /\ Reading' /\ Heard' /\ EveryAddressTried'
  BY <1>1 DEF IInv, Generations, Held, Reading, ReadingNow, Heard, EveryAddressTried, Over, Idle
<1> QED
  BY <1>2, <1>3, <1>4 DEF IInv

\* finish(), of an object that is over or not.
LEMMA InvFinish ==
  ASSUME IInv, NEW failed \in BOOLEAN,
         NEW why \in {"owner", "deadline", "setup", "resolver", "stream", "codec"},
         finish(failed, why), tasks' \subseteq tasks, UNCHANGED <<alive, d, reading>>
  PROVE  IInv'
<1>1. CASE Over
  <2>1. UNCHANGED <<private, history>>
    BY <1>1 DEF finish
  <2> QED
    BY <2>1, InvDropped
<1>2. CASE ~Over
  <2>1. Release(failed, why) /\ UNCHANGED <<addresses, nextAddress, failures>>
    BY <1>2 DEF finish
  <2>2. /\ addresses' \in 0..MaxAddresses /\ nextAddress' \in 0..addresses'
        /\ nextAddress' >= nextAddress /\ failures' \in 0..nextAddress'
    BY <2>1, Numbers DEF IInv, TypeOK, Held
  <2>3. UNCHANGED <<alive, d, batch, reader>>
    BY DEF reading
  <2> QED
    BY <1>2, <2>1, <2>2, <2>3, InvRelease
<1> QED
  BY <1>1, <1>2

-----------------------------------------------------------------------------
(* The actions *)

LEMMA InvOpen == IInv /\ Open => IInv'
<1> SUFFICES ASSUME IInv, Open PROVE IInv'
  OBVIOUS
<1> USE LimitAssumption
<1>1. TypeOK /\ d \in Nat /\ d < MaxOpens /\ d + 1 \in Opens
  BY DEF IInv, TypeOK, Opens, Open
<1>2. /\ alive /\ alive' = alive /\ d' = d + 1
      /\ state' = "connecting" /\ session' = "none" /\ stream' = FALSE
      /\ generation' = 0 /\ addresses' = 0 /\ nextAddress' = 0 /\ deadline' = Handshake
      /\ tasks' = tasks \cup {<<"begin", d + 1>>}
      /\ signals' = [Aborted EXCEPT ![d + 1] = "opening"]
      /\ age' = 0 /\ failures' = 0 /\ reason' = "none"
      /\ batch' = batch /\ reader' = reader /\ heard' = heard
  BY DEF Open, OpenDeadline, reading
<1>3. ~Over' /\ state' \notin {"connected", "closing"}
  BY <1>2 DEF Over
<1>4. \A t \in tasks : t[2] # d + 1
  BY <1>1 DEF IInv, OneDriver, TypeOK, Opens
<1>5. Aborted \in [Opens -> {"none", "opening", "connected", "over"}]
  BY <1>1 DEF Aborted, Notified, TypeOK
<1>6. TypeOK'
  <2>1. d' \in 0..MaxOpens
    BY <1>1, <1>2
  <2>2. tasks' \subseteq {"begin", "resolve", "dial"} \X Opens
    BY <1>1, <1>2 DEF TypeOK
  <2>3. signals' \in [Opens -> {"none", "opening", "connected", "over"}]
    BY <1>1, <1>2, <1>5
  <2>4. /\ generation' \in 0..(2 * MaxAddresses + 2) /\ addresses' \in 0..MaxAddresses
        /\ nextAddress' \in 0..addresses' /\ deadline' \in -1..(Handshake + CloseWait)
        /\ age' \in Nat /\ failures' \in 0..MaxAddresses
    BY <1>2
  <2> QED
    BY <1>1, <1>2, <2>1, <2>2, <2>3, <2>4 DEF TypeOK
<1>7. OneDriver'
  <2>1. \A t \in tasks' : t[2] <= d'
    BY <1>1, <1>2 DEF IInv, OneDriver, TypeOK, Opens
  <2>2. ~Tasked("resolve")' /\ ~Tasked("dial")'
    BY <1>2, <1>4 DEF Tasked
  <2> QED
    BY <1>2, <2>1, <2>2 DEF OneDriver
<1>8. Counted' /\ Generations'
  BY <1>2 DEF Counted, Generations
<1>9. Held' /\ EveryAddressTried'
  BY <1>1, <1>2, <1>3 DEF Held, EveryAddressTried
<1>10. Reading'
  <2>1. reader \in Nat /\ reader <= d
    BY <1>1 DEF IInv, Reading, TypeOK
  <2>2. ~ReadingNow' /\ reader' <= d'
    BY <1>1, <1>2, <2>1 DEF ReadingNow
  <2> QED
    BY <1>2, <2>2 DEF IInv, Reading, Idle
<1>11. Heard'
  <2>1. \A i \in 1..(d + 1) : signals'[i] = "over" <=> i < d + 1
    <3> SUFFICES ASSUME NEW i \in 1..(d + 1) PROVE signals'[i] = "over" <=> i < d + 1
      OBVIOUS
    <3>1. i \in Opens
      BY <1>1 DEF Opens
    <3>2. CASE i = d + 1
      BY <1>1, <1>2, <1>5, <3>2
    <3>3. CASE i # d + 1
      <4>1. signals'[i] = Aborted[i] /\ i \in 1..d
        BY <1>1, <1>2, <1>5, <3>1, <3>3
      <4>2. signals[i] = "over" <=> i < d \/ Over
        BY <1>2, <4>1 DEF IInv, Heard
      <4>3. Aborted[i] = "over"
        BY <1>1, <1>2, <3>1, <4>1, <4>2 DEF Aborted, Notified
      <4> QED
        BY <1>1, <4>1, <4>3
    <3> QED
      BY <3>2, <3>3
  <2> QED
    BY <1>2, <1>3, <2>1 DEF IInv, Heard
<1> QED
  BY <1>6, <1>7, <1>8, <1>9, <1>10, <1>11 DEF IInv

\* The steps that only end the object.
LEMMA InvEnds ==
  ASSUME IInv, Abort \/ Overflow \/ Timeout \/ (\E g \in 1..generation : Rejected(g))
  PROVE  IInv'
<1>1. CASE Abort
  BY <1>1, InvFinish DEF Abort
<1>2. CASE Overflow
  BY <1>2, InvFinish DEF Overflow
<1>3. CASE Timeout
  BY <1>3, InvFinish DEF Timeout
<1>4. CASE \E g \in 1..generation : Rejected(g)
  BY <1>4, InvFinish DEF Rejected
<1> QED
  BY <1>1, <1>2, <1>3, <1>4

LEMMA InvClose == IInv /\ Close => IInv'
<1> SUFFICES ASSUME IInv, Close PROVE IInv'
  OBVIOUS
<1> USE LimitAssumption
<1>1. UNCHANGED <<alive, d, tasks, reading>>
  BY DEF Close
<1>2. CASE finish(TRUE, "codec") \/ finish(FALSE, "owner")
  BY <1>1, <1>2, InvFinish
<1>3. CASE /\ session # "none" /\ state = "connected"
           /\ state' = "closing" /\ deadline' = CloseWait
           /\ UNCHANGED <<session, stream, generation, addresses, nextAddress, history>>
  <2>1. UNCHANGED <<alive, d, tasks, batch, reader, session, stream, generation, addresses,
                    nextAddress, signals, age, failures, reason, heard>>
    BY <1>1, <1>3 DEF reading, history
  <2>2. deadline' \in -1..(Handshake + CloseWait)
    BY <1>3
  <2>3. TypeOK'
    BY <1>3, <2>1, <2>2 DEF IInv, TypeOK
  <2>4. OneDriver' /\ Counted' /\ Generations' /\ EveryAddressTried'
    BY <1>3, <2>1 DEF IInv, OneDriver, Counted, Generations, EveryAddressTried, Over
  <2>5. Held' /\ Heard'
    BY <1>3, <2>1 DEF IInv, Held, Heard, Over
  <2>6. Reading'
    BY <1>3, <2>1 DEF IInv, Reading, ReadingNow, Idle
  <2> QED
    BY <2>3, <2>4, <2>5, <2>6 DEF IInv
<1> QED
  BY <1>2, <1>3 DEF Close

LEMMA InvDestroy == IInv /\ Destroy => IInv'
<1> SUFFICES ASSUME IInv, Destroy PROVE IInv'
  OBVIOUS
<1> USE LimitAssumption
<1>1. /\ alive' = FALSE /\ session' = "none" /\ stream' = FALSE /\ deadline' = -1
      /\ tasks' = {} /\ batch' = <<>> /\ reader' = 0
      /\ UNCHANGED <<d, generation, addresses, nextAddress, signals, age, failures, reason, heard>>
  BY DEF Destroy, history
<1>2. state' \in {"closed", "failed"} /\ Over'
  BY DEF Destroy, Over
<1>3. TypeOK'
  <2>1. deadline' \in -1..(Handshake + CloseWait) /\ batch' \in Batches /\ reader' \in 0..MaxOpens
    BY <1>1 DEF Batches
  <2> QED
    BY <1>1, <1>2, <2>1 DEF IInv, TypeOK
<1>4. OneDriver' /\ Counted' /\ Generations' /\ EveryAddressTried'
  BY <1>1, <1>2 DEF IInv, OneDriver, Counted, Generations, EveryAddressTried
<1>5. Held' /\ Heard'
  BY <1>1, <1>2 DEF IInv, Held, Heard
<1>6. Reading'
  BY <1>1, <1>2, Numbers DEF IInv, Reading, ReadingNow, Idle
<1> QED
  BY <1>3, <1>4, <1>5, <1>6 DEF IInv

LEMMA InvTick == IInv /\ Tick => IInv'
<1> SUFFICES ASSUME IInv, Tick PROVE IInv'
  OBVIOUS
<1> USE LimitAssumption
<1>1. deadline > 0 /\ deadline' = deadline - 1 /\ age' = IF state = "connecting" THEN age + 1 ELSE age
  BY DEF Tick
<1>2. UNCHANGED <<alive, d, state, session, stream, generation, addresses, nextAddress, tasks,
                  batch, reader, signals, failures, reason, heard>>
  BY DEF Tick, reading
<1>3. /\ age \in Nat /\ deadline \in Int /\ nextAddress \in Nat /\ age' \in Nat
      /\ deadline' \in -1..(Handshake + CloseWait)
  <2>1. age \in Nat /\ deadline \in Int /\ nextAddress \in Nat
    BY Numbers DEF IInv
  <2>2. deadline \in -1..(Handshake + CloseWait)
    BY DEF IInv, TypeOK
  <2> QED
    BY <1>1, <2>1, <2>2
<1>4. TypeOK'
  BY <1>2, <1>3 DEF IInv, TypeOK
<1>5. Counted'
  <2>1. Tasked("begin")' = Tasked("begin") /\ Tasked("resolve")' = Tasked("resolve")
    BY <1>2 DEF Tasked
  <2>2. state = "connecting" => deadline' >= 0 /\ age' + deadline' = age + deadline
    BY <1>1, <1>3
  <2> QED
    BY <1>2, <2>1, <2>2 DEF IInv, Counted
<1>6. OneDriver' /\ Generations' /\ Held' /\ Heard' /\ EveryAddressTried'
  BY <1>2 DEF IInv, OneDriver, Generations, Held, Heard, EveryAddressTried, Over, Tasked
<1>7. Reading'
  BY <1>2 DEF IInv, Reading, ReadingNow, Idle
<1> QED
  BY <1>4, <1>5, <1>6, <1>7 DEF IInv

\* A task of the current object is the only one, and a step that takes it away
\* leaves the object without any.
LEMMA OnlyTask ==
  ASSUME IInv, state = "connecting", NEW kind \in {"begin", "resolve", "dial"}, Tasked(kind)
  PROVE  /\ ~stream
         /\ \A k \in {"begin", "resolve", "dial"} : <<k, d>> \notin tasks \ {<<kind, d>>}
BY DEF IInv, OneDriver, Tasked

LEMMA InvBegin == ASSUME IInv, NEW i \in Opens, Begin(i) PROVE IInv'
<1> DEFINE rest == tasks \ {<<"begin", i>>}
<1>1. <<"begin", i>> \in tasks /\ Idle /\ UNCHANGED <<alive, d, reading>>
  BY DEF Begin
<1>2. CASE tasks' = rest /\ UNCHANGED <<private, history>>
  BY <1>1, <1>2, InvDropped
<1>3. CASE tasks' = rest /\ finish(TRUE, "setup")
  BY <1>1, <1>3, InvFinish
<1>4. CASE /\ Current(i)
           /\ tasks' = rest \cup {<<"resolve", i>>}
           /\ UNCHANGED <<private, history>>
  <2>1. i = d /\ state = "connecting" /\ Tasked("begin")
    BY <1>1, <1>4 DEF Current, Tasked
  <2>2. UNCHANGED <<alive, d, state, session, stream, generation, addresses, nextAddress,
                    deadline, batch, reader, signals, age, failures, reason, heard>>
    BY <1>1, <1>4 DEF private, reading, history
  <2>3. ~stream /\ ~Tasked("begin")' /\ ~Tasked("dial")'
    BY <1>4, <2>1, <2>2, OnlyTask DEF Tasked
  <2>4. TypeOK'
    <3>1. tasks' \subseteq {"begin", "resolve", "dial"} \X Opens
      BY <1>4 DEF IInv, TypeOK
    <3> QED
      BY <2>2, <3>1 DEF IInv, TypeOK
  <2>5. OneDriver'
    <3>1. \A t \in tasks' : t[2] <= d
      BY <1>4, <2>1, Numbers DEF IInv, OneDriver
    <3> QED
      BY <2>2, <2>3, <3>1 DEF OneDriver
  <2>6. Counted'
    BY <2>1, <2>2, <2>3 DEF IInv, Counted
  <2>7. Generations' /\ Held' /\ Reading' /\ Heard' /\ EveryAddressTried'
    BY <2>2 DEF IInv, Generations, Held, Reading, ReadingNow, Heard, EveryAddressTried, Over, Idle
  <2> QED
    BY <2>4, <2>5, <2>6, <2>7 DEF IInv
<1>5. CASE Current(i) /\ dialNext(rest, 0, 1)
  <2>1. i = d /\ state = "connecting" /\ Tasked("begin")
    BY <1>1, <1>5 DEF Current, Tasked
  <2>2. nextAddress = 0 /\ 1 \in 1..MaxAddresses
    BY <2>1, LimitAssumption DEF IInv, Counted
  <2>3. ~stream /\ \A k \in {"begin", "resolve", "dial"} : <<k, d>> \notin rest
    BY <2>1, OnlyTask
  <2>4. UNCHANGED <<alive, d, batch, reader>>
    BY <1>1 DEF reading
  <2>5. dialNext(rest, nextAddress, 1)
    BY <1>5, <2>2
  <2> QED
    BY <1>1, <2>1, <2>2, <2>3, <2>4, <2>5, InvDial
<1> QED
  BY <1>2, <1>3, <1>4, <1>5 DEF Begin

LEMMA InvResolved == ASSUME IInv, NEW i \in Opens, NEW n \in 0..MaxAddresses, Resolved(i, n) PROVE IInv'
<1> DEFINE rest == tasks \ {<<"resolve", i>>}
<1>1. <<"resolve", i>> \in tasks /\ Idle /\ UNCHANGED <<alive, d, reading>>
  BY DEF Resolved
<1>2. CASE tasks' = rest /\ UNCHANGED <<private, history>>
  BY <1>1, <1>2, InvDropped
<1>3. CASE tasks' = rest /\ finish(TRUE, "resolver")
  BY <1>1, <1>3, InvFinish
<1>4. CASE Current(i) /\ n # 0 /\ dialNext(rest, 0, n)
  <2>1. i = d /\ state = "connecting" /\ Tasked("resolve")
    BY <1>1, <1>4 DEF Current, Tasked
  <2>2. nextAddress = 0 /\ n \in 1..MaxAddresses
    BY <1>4, <2>1, LimitAssumption DEF IInv, Counted
  <2>3. ~stream /\ \A k \in {"begin", "resolve", "dial"} : <<k, d>> \notin rest
    BY <2>1, OnlyTask
  <2>4. UNCHANGED <<alive, d, batch, reader>>
    BY <1>1 DEF reading
  <2>5. dialNext(rest, nextAddress, n)
    BY <1>4, <2>2
  <2> QED
    BY <1>1, <2>1, <2>2, <2>3, <2>4, <2>5, InvDial
<1> QED
  BY <1>2, <1>3, <1>4 DEF Resolved

LEMMA InvResolverLost == ASSUME IInv, NEW i \in Opens, ResolverLost(i) PROVE IInv'
BY InvDropped DEF ResolverLost

LEMMA InvRedial == ASSUME IInv, NEW i \in Opens, Redial(i) PROVE IInv'
<1> DEFINE rest == tasks \ {<<"dial", i>>}
<1>1. <<"dial", i>> \in tasks /\ Idle /\ UNCHANGED <<alive, d, reading>>
  BY DEF Redial
<1>2. CASE tasks' = rest /\ UNCHANGED <<private, history>>
  BY <1>1, <1>2, InvDropped
<1>3. CASE Current(i) /\ dialNext(rest, nextAddress, addresses)
  <2>1. i = d /\ state = "connecting" /\ Tasked("dial")
    BY <1>1, <1>3 DEF Current, Tasked
  <2>2. addresses \in 1..MaxAddresses
    <3>1. nextAddress < addresses
      BY <1>3 DEF dialNext
    <3> QED
      BY <3>1, Numbers, LimitAssumption DEF IInv
  <2>3. ~stream /\ \A k \in {"begin", "resolve", "dial"} : <<k, d>> \notin rest
    BY <2>1, OnlyTask
  <2>4. UNCHANGED <<alive, d, batch, reader>>
    BY <1>1 DEF reading
  <2> QED
    BY <1>1, <1>3, <2>1, <2>2, <2>3, <2>4, InvDial
<1> QED
  BY <1>2, <1>3 DEF Redial

LEMMA InvStreamLost ==
  ASSUME IInv, NEW g \in 1..generation, NEW failed \in BOOLEAN, StreamLost(g, failed)
  PROVE  IInv'
<1> USE LimitAssumption
<1>1. Idle /\ stream /\ g = generation /\ UNCHANGED <<alive, d, batch, reader, reading>>
  BY DEF StreamLost, Attached, reading
<1>2. TypeOK /\ ~Over
  BY <1>1 DEF IInv, Held
<1>3. CASE retry(tasks, nextAddress, addresses, failures + 1)
  <2>1. /\ generation \in Nat /\ addresses \in Nat /\ nextAddress \in Nat /\ failures \in Nat
        /\ nextAddress <= addresses /\ addresses <= MaxAddresses
    BY <1>2, Numbers
  <2>2. generation + 1 <= 2 * nextAddress /\ generation >= 1
    BY <1>1, <2>1 DEF IInv, Generations
  <2>3. addresses \in 1..MaxAddresses /\ nextAddress \in 0..addresses
    BY <2>1, <2>2
  <2>4. CASE state = "connecting"
    <3>1. failures = nextAddress - 1
      BY <1>1, <2>4 DEF IInv, Counted
    <3>2. \A k \in {"begin", "resolve", "dial"} : <<k, d>> \notin tasks
      BY <1>1, <2>4 DEF IInv, OneDriver, Tasked
    <3>3. failures + 1 = nextAddress /\ failures + 1 \in 0..nextAddress /\ nextAddress >= nextAddress
      BY <2>1, <3>1
    <3> QED
      BY <1>1, <1>2, <1>3, <2>2, <2>3, <3>2, <3>3, InvRetry
  <2>5. CASE state # "connecting"
    <3>1. failures < nextAddress
      BY <1>1 DEF IInv, Held
    <3>2. failures + 1 \in 0..nextAddress /\ nextAddress >= nextAddress
      BY <2>1, <3>1
    <3>3. Release(TRUE, "stream") /\ tasks' = tasks
      BY <1>3, <2>5 DEF retry
    <3>4. addresses' = addresses /\ nextAddress' = nextAddress /\ failures' = failures + 1
      BY <1>3 DEF retry
    <3>5. addresses \in 0..MaxAddresses
      BY <2>3
    <3> QED
      BY <1>1, <1>2, <2>3, <3>2, <3>3, <3>4, <3>5, InvRelease
  <2> QED
    BY <2>4, <2>5
<1>4. CASE finish(FALSE, "stream") /\ UNCHANGED tasks
  BY <1>1, <1>4, InvFinish
<1> QED
  BY <1>1, <1>3, <1>4 DEF StreamLost

\* What Readable and Event see of a batch.
LEMMA Batched ==
  ASSUME NEW b \in Batches, b # <<>>
  PROVE  /\ Head(b) \in {"opened", "message", "closed"}
         /\ Tail(b) \in Batches
         /\ Tail(b) # <<>> => Head(b) # "closed" /\ Head(Tail(b)) \in {"message", "closed"}
<1>1. CASE \E a \in {"opened", "message", "closed"} : b = <<a>>
  BY <1>1 DEF Batches
<1>2. CASE \E a \in {"opened", "message"}, c \in {"message", "closed"} : b = <<a, c>>
  BY <1>2 DEF Batches
<1> QED
  BY <1>1, <1>2 DEF Batches

LEMMA ReadsOf ==
  ASSUME NEW s \in {"none", "upgrade", "open", "done"}, NEW events \in Reads[s]
  PROVE  /\ events \in Batches /\ events # <<>>
         /\ s \in {"upgrade", "open"}
         /\ Head(events) = "opened" <=> s = "upgrade"
<1>1. CASE s = "upgrade"
  BY <1>1 DEF Reads, Batches
<1>2. CASE s = "open"
  BY <1>2 DEF Reads, Batches
<1>3. CASE s \in {"none", "done"}
  BY <1>3 DEF Reads
<1> QED
  BY <1>1, <1>2, <1>3

LEMMA InvReadable == ASSUME IInv, NEW g \in 1..generation, Readable(g) PROVE IInv'
<1>1. PICK events \in Reads[session] :
        /\ batch' = events
        /\ session' = IF events[Len(events)] = "closed" THEN "done" ELSE "open"
  BY DEF Readable
<1>2. /\ Idle /\ stream /\ alive /\ reader' = d /\ session' \in {"open", "done"}
      /\ UNCHANGED <<alive, d, state, stream, generation, addresses, nextAddress, deadline,
                     tasks, signals, age, failures, reason, heard>>
  BY <1>1 DEF Readable, Attached, history
<1>3. session \in {"none", "upgrade", "open", "done"}
  BY DEF IInv, TypeOK
<1>4. ~Over /\ d # 0 /\ ~Over'
  BY <1>2 DEF IInv, Held, Over
<1>5. /\ batch' \in Batches /\ batch' # <<>> /\ session \in {"upgrade", "open"}
      /\ Head(batch') = "opened" <=> session = "upgrade"
  BY <1>1, <1>3, ReadsOf
<1>6. TypeOK'
  BY <1>2, <1>5 DEF IInv, TypeOK
<1>7. OneDriver' /\ Counted' /\ Generations' /\ Heard' /\ EveryAddressTried'
  BY <1>2 DEF IInv, OneDriver, Counted, Tasked, Generations, Heard, EveryAddressTried, Over
<1>8. Held'
  BY <1>2, <1>4 DEF IInv, Held
<1>9. Reading'
  <2>1. state = "connecting" <=> session = "upgrade"
    <3>1. ~ReadingNow
      BY <1>2 DEF ReadingNow
    <3>2. state = "connecting" => session \in {"none", "upgrade"}
      BY <3>1 DEF IInv, Reading
    <3>3. state # "connecting" => session \in {"open", "done"}
      BY <1>4 DEF IInv, Held, TypeOK, Over
    <3> QED
      BY <1>5, <3>2, <3>3
  <2>2. ReadingNow' /\ ~Idle'
    BY <1>2, <1>5 DEF ReadingNow, Idle
  <2>3. reader' # 0 /\ reader' <= d'
    BY <1>2, <1>4, Numbers DEF IInv
  <2> QED
    BY <1>2, <1>5, <2>1, <2>2, <2>3 DEF Reading
<1> QED
  BY <1>6, <1>7, <1>8, <1>9 DEF IInv

LEMMA InvEvent == IInv /\ Event => IInv'
<1> SUFFICES ASSUME IInv, Event PROVE IInv'
  OBVIOUS
<1> USE LimitAssumption
<1>1. alive /\ batch # <<>> /\ batch \in Batches /\ UNCHANGED <<alive, d, tasks>>
  BY DEF Event, Idle, IInv, TypeOK
<1>2. CASE /\ reader # d \/ session = "none"
           /\ batch' = <<>> /\ reader' = 0 /\ UNCHANGED <<private, history>>
  <2>1. UNCHANGED <<alive, d, state, session, stream, generation, addresses, nextAddress,
                    deadline, tasks, signals, age, failures, reason, heard>>
    BY <1>1, <1>2 DEF private, history
  <2>2. TypeOK'
    <3>1. batch' \in Batches /\ reader' \in 0..MaxOpens
      BY <1>2 DEF Batches
    <3> QED
      BY <2>1, <3>1 DEF IInv, TypeOK
  <2>3. OneDriver' /\ Counted' /\ Generations' /\ Held' /\ Heard' /\ EveryAddressTried'
    BY <2>1 DEF IInv, OneDriver, Counted, Tasked, Generations, Held, Heard, EveryAddressTried, Over
  <2>4. Reading'
    <3>1. ~ReadingNow /\ ~ReadingNow' /\ reader' <= d'
      BY <1>2, <2>1, Numbers DEF ReadingNow, Idle, IInv
    <3> QED
      BY <1>2, <2>1, <3>1 DEF IInv, Reading, Idle
  <2> QED
    BY <2>2, <2>3, <2>4 DEF IInv
<1>3. CASE /\ reader = d /\ session # "none"
           /\ batch' = Tail(batch)
           /\ reader' = IF Tail(batch) = <<>> THEN 0 ELSE reader
           /\ \/ Head(batch) = "opened" /\ opened
              \/ /\ Head(batch) = "message"
                 /\ heard' = signals[d]
                 /\ UNCHANGED <<private, signals, age, failures, reason>>
              \/ /\ Head(batch) = "closed"
                 /\ state' = "closing" /\ deadline' = CloseWait
                 /\ UNCHANGED <<session, stream, generation, addresses, nextAddress, history>>
  <2>1. ReadingNow
    BY <1>1, <1>3 DEF ReadingNow, Idle
  <2>2. /\ stream /\ session \in {"open", "done"} /\ ~Over /\ d # 0 /\ d \in Nat /\ d \in Opens
        /\ Head(batch) = "opened" <=> state = "connecting"
    BY <2>1 DEF IInv, Reading, Held, TypeOK, Opens
  <2>3. /\ UNCHANGED <<alive, d, session, stream, generation, addresses, nextAddress, tasks,
                       age, failures, reason>>
        /\ state' \in {"connected", "closing"}
        /\ deadline' = deadline \/ deadline' \in {-1, CloseWait}
        /\ signals' = [signals EXCEPT ![d] = "connected"] \/ signals' = signals
        /\ heard' = heard \/ heard' = "connected"
        /\ signals'[d] = "connected"
    <3>1. state # "connecting" => state \in {"connected", "closing"} /\ signals[d] = "connected"
      BY <2>2 DEF IInv, Heard, TypeOK, Over
    <3>2. CASE Head(batch) = "opened" /\ opened
      BY <1>1, <2>2, <3>2 DEF opened, IInv, TypeOK
    <3>3. CASE /\ Head(batch) = "message"
               /\ heard' = signals[d]
               /\ UNCHANGED <<private, signals, age, failures, reason>>
      BY <1>1, <2>2, <3>1, <3>3 DEF private
    <3>4. CASE /\ Head(batch) = "closed"
               /\ state' = "closing" /\ deadline' = CloseWait
               /\ UNCHANGED <<session, stream, generation, addresses, nextAddress, history>>
      BY <1>1, <2>2, <3>1, <3>4 DEF history
    <3> QED
      BY <1>3, <3>2, <3>3, <3>4
  <2>4. TypeOK'
    <3>1. batch' \in Batches /\ reader' \in 0..MaxOpens
      BY <1>1, <1>3, Batched DEF IInv, TypeOK
    <3>2. deadline' \in -1..(Handshake + CloseWait)
      BY <2>3 DEF IInv, TypeOK
    <3>3. signals' \in [Opens -> {"none", "opening", "connected", "over"}]
      BY <2>3 DEF IInv, TypeOK
    <3> QED
      BY <2>3, <3>1, <3>2, <3>3 DEF IInv, TypeOK
  <2>5. OneDriver' /\ Counted' /\ Generations' /\ EveryAddressTried'
    BY <2>2, <2>3 DEF IInv, OneDriver, Counted, Generations, EveryAddressTried, Over
  <2>6. Held'
    BY <2>2, <2>3 DEF IInv, Held, Over
  <2>7. Heard'
    <3>1. ~Over' /\ heard' \in {"none", "connected"}
      BY <2>3 DEF Over, IInv, Heard
    <3>2. \A i \in 1..d : signals'[i] = "over" <=> i < d
      <4> SUFFICES ASSUME NEW i \in 1..d PROVE signals'[i] = "over" <=> i < d
        OBVIOUS
      <4>1. i \in Opens
        BY <2>2, Numbers DEF IInv, Opens
      <4>2. signals[i] = "over" <=> i < d
        BY <1>1, <2>2 DEF IInv, Heard
      <4>3. i # d => signals'[i] = signals[i]
        BY <2>3, <4>1 DEF IInv, TypeOK
      <4>4. i = d => signals'[i] = "connected"
        BY <2>3
      <4> QED
        BY <2>2, <4>2, <4>3, <4>4
    <3> QED
      BY <2>3, <3>1, <3>2 DEF Heard
  <2>8. Reading'
    <3>1. batch' # <<>> => Head(batch') # "opened"
      BY <1>1, <1>3, Batched
    <3>2. state' # "connecting"
      BY <2>3
    <3>3. batch' = <<>> <=> reader' = 0
      BY <1>3, <2>2
    <3>4. reader' <= d'
      BY <1>3, <2>2, <2>3
    <3> QED
      BY <2>2, <2>3, <3>1, <3>2, <3>3, <3>4 DEF Reading, ReadingNow, Idle
  <2> QED
    BY <2>4, <2>5, <2>6, <2>7, <2>8 DEF IInv
<1> QED
  BY <1>2, <1>3 DEF Event

-----------------------------------------------------------------------------
(* The specification *)

LEMMA InvNext == IInv /\ [Next]_vars => IInv'
<1> SUFFICES ASSUME IInv, [Next]_vars PROVE IInv'
  OBVIOUS
<1>1. CASE Open \/ Close \/ Destroy \/ Event \/ Tick
  BY <1>1, InvOpen, InvClose, InvDestroy, InvEvent, InvTick
<1>2. CASE Abort \/ Overflow \/ Timeout
  BY <1>2, InvEnds
<1>3. CASE \E i \in Opens : Task(i)
  <2>1. PICK i \in Opens : Task(i)
    BY <1>3
  <2>2. CASE \E n \in 0..MaxAddresses : Resolved(i, n)
    BY <2>2, InvResolved
  <2>3. CASE Begin(i) \/ Redial(i) \/ ResolverLost(i)
    BY <2>3, InvBegin, InvRedial, InvResolverLost
  <2> QED
    BY <2>1, <2>2, <2>3 DEF Task
<1>4. CASE \E g \in 1..generation : Stream(g)
  <2>1. PICK g \in 1..generation : Stream(g)
    BY <1>4
  <2>2. CASE \E failed \in BOOLEAN : StreamLost(g, failed)
    BY <2>2, InvStreamLost
  <2>3. CASE Readable(g) \/ Rejected(g)
    BY <2>3, InvReadable, InvEnds
  <2> QED
    BY <2>1, <2>2, <2>3 DEF Stream
<1>5. CASE UNCHANGED vars
  BY <1>5, InvDropped DEF vars
<1> QED
  BY <1>1, <1>2, <1>3, <1>4, <1>5 DEF Next

LEMMA Invariant == Spec => []IInv
<1>1. Init => IInv
  BY InvInit
<1>2. IInv /\ [Next]_vars => IInv'
  BY InvNext
<1> QED
  BY <1>1, <1>2, PTL DEF Spec

\* The owner of the socket hears of the end of every open() but the current
\* one that has not ended, and messages come between connected() and
\* disconnected() only, whatever the slots of one read do to the socket
\* (NetworkTransport.cpp:66-75, 95-96, 182).
THEOREM SignalsOrdered == Spec => []SignalsInOrder
<1>1. IInv => SignalsInOrder
  BY DEF IInv, SignalsInOrder, Heard
<1> QED
  BY <1>1, Invariant, PTL

\* However many addresses the host has, and however they fail, a socket is
\* connecting for one handshake time and a tick per address at the most
\* (NetworkTransport.cpp:168, 173, 191).
THEOREM OneHandshake == Spec => []HandshakeBounded
<1>1. IInv => HandshakeBounded
  <2> SUFFICES ASSUME IInv, state = "connecting" PROVE age <= Handshake + nextAddress
    BY DEF HandshakeBounded
  <2>1. age \in Nat /\ deadline \in Int /\ nextAddress \in Nat
    BY Numbers DEF IInv
  <2>2. deadline >= 0 /\ age + deadline <= Handshake + nextAddress
    BY DEF IInv, Counted
  <2> QED
    BY <2>1, <2>2, LimitAssumption
<1> QED
  BY <1>1, Invariant, PTL

\* A socket that ends for want of an address has seen each address of its host
\* fail, once (NetworkTransport.cpp:117, 130, 156-163).
THEOREM NoAddressSkipped == Spec => []EveryAddressTried
<1>1. IInv => EveryAddressTried
  BY DEF IInv
<1> QED
  BY <1>1, Invariant, PTL
=============================================================================
