------------------------ MODULE ContractEvents_proofs ------------------------
(***************************************************************************)
(* What the callers of the bindings receive, for any chain, channel and    *)
(* values, and for each of the 22 events: ReadsAreEmitted and EndsAreTold. *)
(***************************************************************************)
EXTENDS ContractEvents, FoldTheorems

-----------------------------------------------------------------------------
(* The bindings and the contracts.                                         *)

\* What each binding asks for and fills in is an event some contract declares.
LEMMA BindingsAreDeclared == AllBindings \subseteq Declared
BY DEF AllBindings, Declared, OracleEvents, PaymentEvents, FactoryEvents, InheritedEvents,
  CollectionFactoryCreateCollection, CollectionFactoryOwnershipTransferred,
   CollectionFactoryTransferBatch, CollectionFactoryTransferSingle,
   FilswanOracleOwnershipTransferred, FilswanOraclePreSign, FilswanOracleRoleAdminChanged,
   FilswanOracleRoleGranted, FilswanOracleRoleRevoked, FilswanOracleSign,
   FilswanOracleSignCarTransaction, FilswanOracleSignHash, FilswanOracleSignTransaction,
   PairApproval, PairBurn, PairMint, PairSwap, PairSync, PairTransfer,
   SwanPaymentExpirePayment, SwanPaymentLockPayment, SwanPaymentUnlockPayment

\* No contract declares two events of one name.
LEMMA DeclaredOnce ==
  ASSUME NEW d \in Declared, NEW e \in Declared, d.contract = e.contract, d.event = e.event
  PROVE  d = e
<1>1. \A c, n, i, f : Event(c, n, i, f).contract = c /\ Event(c, n, i, f).event = n
  BY DEF Event
<1> QED
  BY <1>1, SMTT(100) DEF Declared, OracleEvents, PaymentEvents, FactoryEvents, InheritedEvents

-----------------------------------------------------------------------------
(* Some logs of a list.                                                    *)

\* The lists of no or one log that Only joins.
Chosen(s, P) == [i \in 1..Len(s) |-> IF i \in P THEN <<s[i]>> ELSE <<>>]

\* Of no logs there is none.
LEMMA OnlyEmpty == ASSUME NEW P PROVE Only(<<>>, P) = <<>>
<1> DEFINE q == [i \in 1..Len(<<>>) |-> IF i \in P THEN <<(<<>>)[i]>> ELSE <<>>]
<1>1. Len(<<>>) = 0
  OBVIOUS
<1>2. q = <<>>
  BY <1>1
<1>3. FlattenSeq(<<>>) = <<>>
  BY <1>1 DEF FlattenSeq
<1> QED
  BY <1>2, <1>3 DEF Only

\* What is chosen of a list has the type of what is chosen.
LEMMA OnlyType ==
  ASSUME NEW T, NEW s \in Seq(T), NEW P, NEW S, \A i \in 1..Len(s) : i \in P => s[i] \in S
  PROVE  Only(s, P) \in Seq(S)
<1>1. CASE Len(s) = 0
  <2>1. s = <<>>
    BY <1>1
  <2>2. <<>> \in Seq(S)
    OBVIOUS
  <2> QED
    BY <2>1, <2>2, OnlyEmpty
<1>2. CASE Len(s) # 0
  <2> DEFINE n == Len(s)
             q == Chosen(s, P)
  <2>1. n \in Nat \ {0} /\ Len(q) = n
    BY <1>2 DEF Chosen
  <2>2. \A i \in 1..n : q[i] \in Seq(S)
    BY DEF Chosen
  <2>3. Only(s, P) = FlattenSeq(q)
    BY DEF Only, Chosen
  <2> HIDE DEF n, q
  <2>4. FlattenSeq(q) \in Seq(S)
    BY <2>1, <2>2, FlattenType
  <2> QED
    BY <2>3, <2>4
<1> QED
  BY <1>1, <1>2

\* One more log is chosen or not.
LEMMA OnlyAppend ==
  ASSUME NEW S, NEW s \in Seq(S), NEW x \in S, NEW P, NEW Q,
         \A i \in 1..Len(s) : i \in P <=> i \in Q
  PROVE  Only(Append(s, x), Q) = IF Len(s) + 1 \in Q THEN Append(Only(s, P), x) ELSE Only(s, P)
<1> DEFINE n == Len(s)
           t == Append(s, x)
           q == Chosen(s, P)
           r == Chosen(t, Q)
           last == IF n + 1 \in Q THEN <<x>> ELSE <<>>
<1>1. n \in Nat /\ t \in Seq(S) /\ Len(t) = n + 1 /\ t[n + 1] = x /\ \A i \in 1..n : t[i] = s[i]
  OBVIOUS
<1>2. Len(q) = n /\ Len(r) = n + 1 /\ r[n + 1] = last
  BY <1>1 DEF Chosen
<1>3. \A i \in 1..n : r[i] = q[i]
  <2>1. ASSUME NEW i \in 1..n PROVE r[i] = q[i]
    <3>1. i \in 1..Len(t) /\ i \in 1..Len(s) /\ t[i] = s[i] /\ (i \in P <=> i \in Q)
      BY <1>1
    <3> HIDE DEF t
    <3> QED BY <3>1 DEF Chosen
  <2> QED BY <2>1
<1>4. /\ n = 0 => FlattenSeq(r) = r[1]
      /\ n # 0 => FlattenSeq(r) = FlattenSeq(q) \o r[n + 1]
  <2>1. n \in Nat /\ Len(q) = n /\ Len(r) = n + 1 /\ \A i \in 1..n : r[i] = q[i]
    BY <1>1, <1>2, <1>3
  <2> HIDE DEF n, t, q, r, last
  <2>2. ASSUME n = 0 PROVE FlattenSeq(r) = r[1]
    <3>1. PICK k \in Nat \ {0} : k = 1
      OBVIOUS
    <3>2. Len(r) = k
      BY <2>1, <2>2, <3>1
    <3>3. PICK g : IsJoined(g, r, k) /\ FlattenSeq(r) = g[k]
      BY <3>2, FlattenSteps
    <3> QED BY <3>1, <3>3 DEF IsJoined
  <2>3. ASSUME n # 0 PROVE FlattenSeq(r) = FlattenSeq(q) \o r[n + 1]
    BY <2>1, <2>3, FlattenAppend, Zenon
  <2> QED BY <2>2, <2>3
<1>5. Only(t, Q) = FlattenSeq(r) /\ Only(s, P) = FlattenSeq(q)
  BY DEF Only, Chosen
<1>6. Only(s, P) \in Seq(S)
  BY OnlyType
<1>7. CASE n = 0
  <2>1. s = <<>>
    BY <1>7
  <2>2. Only(s, P) = <<>>
    BY <2>1, OnlyEmpty
  <2>3. Only(t, Q) = last
    <3> HIDE DEF n, t, q, r, last
    <3> QED BY <1>2, <1>4, <1>5, <1>7
  <2>4. Append(<<>>, x) = <<x>>
    OBVIOUS
  <2> QED BY <2>2, <2>3, <2>4, <1>7
<1>8. CASE n # 0
  <2>1. Only(t, Q) = Only(s, P) \o last
    <3> HIDE DEF n, t, q, r, last
    <3> QED BY <1>2, <1>4, <1>5, <1>8
  <2>2. ASSUME NEW u \in Seq(S) PROVE u \o <<x>> = Append(u, x) /\ u \o <<>> = u
    OBVIOUS
  <2>3. CASE n + 1 \in Q
    BY <1>6, <2>1, <2>2, <2>3
  <2>4. CASE n + 1 \notin Q
    BY <1>6, <2>1, <2>2, <2>4
  <2> QED BY <2>3, <2>4
<1> QED
  BY <1>7, <1>8

\* Without positions nothing is chosen.
LEMMA OnlyNone ==
  ASSUME NEW S, NEW s \in Seq(S), NEW P, \A i \in 1..Len(s) : i \notin P
  PROVE  Only(s, P) = <<>>
<1> DEFINE n == Len(s)
           q == Chosen(s, P)
<1>1. CASE n = 0
  <2>1. s = <<>>
    BY <1>1
  <2> QED
    BY <2>1, OnlyEmpty
<1>2. CASE n # 0
  <2>1. n \in Nat \ {0} /\ Len(q) = n /\ \A i \in 1..n : q[i] = <<>>
    BY <1>2 DEF Chosen
  <2>2. Only(s, P) = FlattenSeq(q)
    BY DEF Only, Chosen
  <2> HIDE DEF n, q
  <2>3. PICK g : IsJoined(g, q, n) /\ FlattenSeq(q) = g[n]
    BY <2>1, FlattenSteps
  <2> DEFINE Bad == {i \in 1..n : g[i] # <<>>}
  <2>4. ASSUME NEW i \in Bad PROVE \E m \in Bad : m < i
    <3>1. i # 1
      BY <2>1, <2>3 DEF IsJoined
    <3>2. i \in 2..n /\ i - 1 \in 1..n /\ i - 1 < i
      BY <2>1, <3>1
    <3>3. SUFFICES ASSUME g[i - 1] = <<>> PROVE g[i] = <<>>
      BY <3>2
    <3>4. g[i] = g[i - 1] \o q[i] /\ q[i] = <<>>
      BY <2>1, <2>3, <3>2 DEF IsJoined
    <3>5. <<>> \o <<>> = <<>>
      OBVIOUS
    <3> QED
      BY <3>3, <3>4, <3>5
  <2>5. Bad = {}
    <3>1. Bad \in SUBSET Nat
      OBVIOUS
    <3> HIDE DEF Bad
    <3> QED
      BY <2>4, <3>1, NaturalInduction
  <2> QED
    BY <2>1, <2>2, <2>3, <2>5
<1> QED
  BY <1>1, <1>2
-----------------------------------------------------------------------------
(***************************************************************************)
(* The inductive invariant.  A log is in one place at a time: received,    *)
(* with the goroutine of a watch, in the channel or on its way there; read *)
(* in this order, these are the logs asked for.  What the caller is told   *)
(* at the end rests on who may still add to them.                          *)
(***************************************************************************)
Log == UNION {{Emitted(d, args, fits) : args \in [ToSet(d.indexed) -> Values], fits \in BOOLEAN} :
                d \in Declared}
Received == {log.was : log \in Log}

EventsTypeOK ==
  /\ binding \in Bindings /\ wanted \in [ToSet(binding.indexed) -> SUBSET Values]
  /\ chain \in Seq(Log) /\ logs \in Seq(Log) /\ pending \in Seq(Log)
  /\ got \in Seq(Received) /\ held \in Seq(Received)
  /\ kind \in {"none", "filter", "watch"} /\ start \in 0..Len(chain)
  /\ caller \in {"idle", "refused", "reading", "finished", "closing", "closed"}
  /\ sub \in {"on", "ended", "lost", "clientClosed"} /\ quit \in BOOLEAN
  /\ done \in BOOLEAN /\ fail \in {"none", "unpack", "lost"}
  /\ loop \in {"off", "waiting", "sending", "stopped"}

\* Before the call, and after a refused one, there is nothing.
NothingBefore ==
  /\ caller = "idle" <=> kind = "none"
  /\ caller \in {"idle", "refused"} => got = <<>> /\ loop = "off"
  /\ caller = "idle" =>
       logs = <<>> /\ pending = <<>> /\ sub = "on" /\ ~done /\ fail = "none"
  /\ caller \in {"idle", "refused", "reading", "finished"} => ~quit

\* The logs of a filter end when there are no more, unless the caller closes it.
FilterEnds ==
  kind = "filter" =>
    /\ loop = "off"
    /\ sub = "on" \/ (sub = "ended" /\ (quit \/ pending = <<>>))
    /\ done => sub = "ended"

\* The goroutine of a watch has one log in its hand when it sends, and ends the
\* subscription when it stops, with an error but for its two good reasons.
WatchReports ==
  kind = "watch" =>
    /\ loop \in {"waiting", "sending"} => fail = "none" /\ sub # "ended"
    /\ loop = "stopped" /\ fail = "none" => quit \/ sub = "clientClosed"
    /\ caller = "finished" => loop = "stopped"

InHand == Len(held) = (IF loop = "sending" THEN 1 ELSE 0)

ReadsOn ==
  IF kind = "filter" THEN caller # "refused" /\ fail = "none" ELSE loop \in {"waiting", "sending"}

GotIsPrefix ==
  /\ Len(got) <= Len(LogsAsked)
  /\ \A i \in 1..Len(got) : got[i] = LogsAsked[i].was

Taken == Len(got) + Len(held)

HeldIsNext ==
  loop = "sending" => Taken <= Len(LogsAsked) /\ held[1] = LogsAsked[Taken].was

ChannelIsNext ==
  ReadsOn =>
    /\ Taken + Len(logs) <= Len(LogsAsked)
    /\ \A i \in 1..Len(logs) : logs[i] = LogsAsked[Taken + i]

RestIsPending ==
  ReadsOn /\ (kind = "filter" \/ sub = "on") =>
    /\ Taken + Len(logs) + Len(pending) = Len(LogsAsked)
    /\ \A i \in 1..Len(pending) : pending[i] = LogsAsked[Taken + Len(logs) + i]

EventsInv ==
  /\ EventsTypeOK
  /\ NothingBefore /\ FilterEnds /\ WatchReports /\ InHand
  /\ GotIsPrefix /\ HeldIsNext /\ ChannelIsNext /\ RestIsPending
  /\ EndsAreTold
-----------------------------------------------------------------------------
(* The logs asked for.                                                     *)

\* The rules pick out by position what is asked for by name, and what is unpacked by
\* position are the values under their names.
LEMMA MatchIsAsked ==
  ASSUME EventsTypeOK, NEW log \in Log
  PROVE  /\ Matches(log) <=> Asked(log)
         /\ Asked(log) => Unpack(log) = log.was
<1>1. PICK d \in Declared, fits \in BOOLEAN :
        \E a \in [ToSet(d.indexed) -> Values] : log = Emitted(d, a, fits)
  BY DEF Log
<1>2. PICK args \in [ToSet(d.indexed) -> Values] : log = Emitted(d, args, fits)
  BY <1>1
<1>3. /\ log.contract = d.contract /\ log.event = d.event
      /\ log.topics = [i \in DOMAIN d.indexed |-> args[d.indexed[i]]] /\ log.data = d.data
      /\ log.was = [p \in Parameters(d) |-> IF p \in ToSet(d.indexed) THEN args[p] ELSE p]
  BY <1>2 DEF Emitted
<1>4. SUFFICES ASSUME d.contract = binding.contract, d.event = binding.event
               PROVE  /\ Matches(log) <=> Asked(log)
                      /\ Asked(log) => Unpack(log) = log.was
  BY <1>3 DEF Matches, Asked
<1>5. d = binding
  <2>1. binding \in Declared
    BY BindingsAreDeclared, EventsAssumption DEF EventsTypeOK
  <2> QED BY <1>4, <2>1, DeclaredOnce
<1>6. wanted \in [ToSet(binding.indexed) -> SUBSET Values]
  BY DEF EventsTypeOK
<1>7. Matches(log) <=> \A i \in DOMAIN binding.indexed :
                         \/ wanted[binding.indexed[i]] = {}
                         \/ args[binding.indexed[i]] \in wanted[binding.indexed[i]]
  BY <1>3, <1>4, <1>5 DEF Matches, Rules
<1>8. Asked(log) <=> \A p \in ToSet(binding.indexed) : wanted[p] = {} \/ args[p] \in wanted[p]
  BY <1>3, <1>4, <1>5, <1>6 DEF Asked, Parameters
<1>9. \A p : p \in ToSet(binding.indexed) <=> \E i \in DOMAIN binding.indexed : p = binding.indexed[i]
  BY DEF ToSet
<1>10. Matches(log) <=> Asked(log)
  BY <1>7, <1>8, <1>9
<1>11. ASSUME NEW p \in Parameters(binding)
       PROVE  (IF p \in ToSet(binding.indexed)
               THEN log.topics[CHOOSE i \in DOMAIN binding.indexed : binding.indexed[i] = p]
               ELSE log.data[CHOOSE i \in DOMAIN binding.data : binding.data[i] = p])
              = IF p \in ToSet(binding.indexed) THEN args[p] ELSE p
  <2>1. CASE p \in ToSet(binding.indexed)
    <3>1. \E i \in DOMAIN binding.indexed : binding.indexed[i] = p
      BY <1>9, <2>1
    <3> QED BY <1>3, <1>5, <2>1, <3>1
  <2>2. CASE p \notin ToSet(binding.indexed)
    <3>1. \E i \in DOMAIN binding.data : binding.data[i] = p
      BY <2>2 DEF Parameters, ToSet
    <3> QED BY <1>3, <1>5, <2>2, <3>1
  <2> QED BY <2>1, <2>2
<1>12. Unpack(log) = log.was
  <2> DEFINE F(p) == IF p \in ToSet(binding.indexed)
                     THEN log.topics[CHOOSE i \in DOMAIN binding.indexed : binding.indexed[i] = p]
                     ELSE log.data[CHOOSE i \in DOMAIN binding.data : binding.data[i] = p]
             G(p) == IF p \in ToSet(binding.indexed) THEN args[p] ELSE p
  <2>1. Unpack(log) = [p \in Parameters(binding) |-> F(p)]
    BY DEF Unpack
  <2>2. log.was = [p \in Parameters(binding) |-> G(p)]
    BY <1>3, <1>5
  <2>3. \A p \in Parameters(binding) : F(p) = G(p)
    BY <1>11
  <2> HIDE DEF F, G
  <2> QED BY <2>1, <2>2, <2>3
<1> QED BY <1>10, <1>12

\* They are logs that are asked for.
LEMMA LogsAskedType ==
  ASSUME EventsTypeOK
  PROVE  /\ LogsAsked \in Seq(Log) /\ Len(LogsAsked) \in Nat
         /\ \A i \in 1..Len(LogsAsked) : /\ LogsAsked[i] \in Log
                                         /\ LogsAsked[i].was \in Received
                                         /\ Unpack(LogsAsked[i]) = LogsAsked[i].was
<1> DEFINE S == {log \in Log : Asked(log)}
           P == {i \in DOMAIN chain : /\ IF kind = "filter" THEN i <= start ELSE i > start
                                      /\ Asked(chain[i])}
<1>1. chain \in Seq(Log) /\ \A i \in 1..Len(chain) : i \in P => chain[i] \in S
  BY DEF EventsTypeOK
<1>2. Only(chain, P) \in Seq(S)
  <2> HIDE DEF S, P
  <2> QED BY <1>1, OnlyType
<1>3. LogsAsked \in Seq(S)
  BY <1>2 DEF LogsAsked
<1>4. LogsAsked \in Seq(Log) /\ Len(LogsAsked) \in Nat
  BY <1>3
<1>5. ASSUME NEW i \in 1..Len(LogsAsked)
      PROVE  /\ LogsAsked[i] \in Log /\ LogsAsked[i].was \in Received
             /\ Unpack(LogsAsked[i]) = LogsAsked[i].was
  <2>1. LogsAsked[i] \in S
    BY <1>3
  <2>2. PICK log \in Log : log = LogsAsked[i] /\ Asked(log)
    BY <2>1
  <2>3. Unpack(log) = log.was
    BY <2>2, MatchIsAsked
  <2> QED BY <2>2, <2>3 DEF Received
<1> QED BY <1>4, <1>5

\* They stay the same as long as nothing is emitted.
LEMMA SameLogs ==
  ASSUME UNCHANGED <<chain, call>>
  PROVE  LogsAsked' = LogsAsked
BY DEF LogsAsked, Asked, call

\* One more log is one more of them, or none, for who watches.
LEMMA EmittedLogs ==
  ASSUME EventsTypeOK, kind = "watch", UNCHANGED call,
         NEW log \in Log, chain' = Append(chain, log)
  PROVE  LogsAsked' = IF Asked(log) THEN Append(LogsAsked, log) ELSE LogsAsked
<1> DEFINE P == {i \in DOMAIN chain : i > start /\ Asked(chain[i])}
           Q == {i \in DOMAIN chain' : i > start /\ Asked(chain'[i])}
<1>1. /\ chain \in Seq(Log) /\ start \in 0..Len(chain) /\ Len(chain) \in Nat
      /\ DOMAIN chain = 1..Len(chain) /\ DOMAIN chain' = 1..(Len(chain) + 1)
      /\ chain'[Len(chain) + 1] = log
      /\ \A i \in 1..Len(chain) : chain'[i] = chain[i]
  BY DEF EventsTypeOK
<1>2. \A i \in 1..Len(chain) : i \in P <=> i \in Q
  BY <1>1
<1>3. Len(chain) + 1 \in Q <=> Asked(log)
  BY <1>1
<1>4. LogsAsked = Only(chain, P)
  BY DEF LogsAsked
<1>5. LogsAsked' = Only(Append(chain, log), Q)
  BY DEF LogsAsked, Asked, call
<1>6. Only(Append(chain, log), Q)
        = IF Len(chain) + 1 \in Q THEN Append(Only(chain, P), log) ELSE Only(chain, P)
  <2> HIDE DEF P, Q
  <2> QED BY <1>1, <1>2, OnlyAppend
<1> HIDE DEF P, Q
<1> QED BY <1>3, <1>4, <1>5, <1>6
-----------------------------------------------------------------------------
(* The steps that emit nothing.                                            *)

\* The next log in the channel is the next one asked for.
LEMMA HeadIsNext ==
  ASSUME EventsInv, ReadsOn, held = <<>>, logs # <<>>
  PROVE  /\ Len(got) + 1 <= Len(LogsAsked) /\ Head(logs) = LogsAsked[Len(got) + 1]
         /\ Unpack(Head(logs)) = LogsAsked[Len(got) + 1].was /\ Unpack(Head(logs)) \in Received
         /\ Tail(logs) \in Seq(Log) /\ Len(logs) \in Nat /\ Len(Tail(logs)) = Len(logs) - 1
         /\ \A i \in 1..(Len(logs) - 1) : Tail(logs)[i] = logs[i + 1]
<1>1. LogsAsked \in Seq(Log) /\ Len(LogsAsked) \in Nat
  BY LogsAskedType DEF EventsInv
<1>2. /\ logs \in Seq(Log) /\ Len(logs) \in Nat /\ Len(logs) >= 1 /\ Head(logs) = logs[1]
      /\ Tail(logs) \in Seq(Log) /\ Len(Tail(logs)) = Len(logs) - 1
      /\ \A i \in 1..(Len(logs) - 1) : Tail(logs)[i] = logs[i + 1]
  BY DEF EventsInv, EventsTypeOK
<1>3. Len(got) \in Nat /\ Taken = Len(got)
  BY DEF EventsInv, EventsTypeOK, Taken
<1>4. Len(got) + 1 <= Len(LogsAsked) /\ logs[1] = LogsAsked[Len(got) + 1]
  BY <1>1, <1>2, <1>3 DEF EventsInv, ChannelIsNext
<1>5. PICK j \in 1..Len(LogsAsked) : j = Len(got) + 1
  BY <1>1, <1>3, <1>4
<1>6. Unpack(LogsAsked[j]) = LogsAsked[j].was /\ LogsAsked[j].was \in Received
  BY LogsAskedType DEF EventsInv
<1> QED BY <1>2, <1>4, <1>5, <1>6

\* An iterator takes the next log, before or after it has seen the end.
LEMMA NextLogInv ==
  ASSUME EventsInv, IsNext, logs # <<>>, NextLog,
         UNCHANGED <<chain, call, pending, sub, quit, watcher>>,
         done' \in BOOLEAN, done' => sub = "ended"
  PROVE  EventsInv'
<1> USE DEF EventsInv
<1>1. /\ LogsAsked' = LogsAsked /\ LogsAsked \in Seq(Log) /\ Len(LogsAsked) \in Nat
      /\ UNCHANGED <<chain, binding, wanted, kind, start, pending, sub, quit, loop, held>>
  BY SameLogs, LogsAskedType DEF call, watcher
<1>2. /\ kind = "filter" /\ caller = "reading" /\ fail = "none" /\ loop = "off" /\ held = <<>>
      /\ ReadsOn
  BY DEF IsNext, FilterEnds, InHand, EventsTypeOK, ReadsOn
<1> DEFINE n == Len(got)
<1>3. /\ n + 1 <= Len(LogsAsked) /\ Unpack(Head(logs)) = LogsAsked[n + 1].was
      /\ Unpack(Head(logs)) \in Received /\ Tail(logs) \in Seq(Log)
      /\ Len(logs) \in Nat /\ Len(Tail(logs)) = Len(logs) - 1
      /\ \A i \in 1..(Len(logs) - 1) : Tail(logs)[i] = logs[i + 1]
  BY <1>2, HeadIsNext
<1>4. got \in Seq(Received) /\ n \in Nat
  BY DEF EventsTypeOK
<1>5. logs' = Tail(logs)
  BY DEF NextLog
<1>6. \/ /\ got' \in Seq(Received) /\ Len(got') = n + 1 /\ got'[n + 1] = LogsAsked[n + 1].was
         /\ \A i \in 1..n : got'[i] = got[i]
         /\ UNCHANGED <<caller, fail>>
      \/ got' = got /\ fail' = "unpack" /\ caller' = "finished"
  <2>1. CASE got' = Append(got, Unpack(Head(logs))) /\ UNCHANGED <<caller, fail>>
    <3>1. ASSUME NEW x \in Received
          PROVE  /\ Append(got, x) \in Seq(Received) /\ Len(Append(got, x)) = n + 1
                 /\ Append(got, x)[n + 1] = x /\ \A i \in 1..n : Append(got, x)[i] = got[i]
      BY <1>4
    <3>2. PICK x \in Received : x = Unpack(Head(logs))
      BY <1>3
    <3>3. got' = Append(got, x) /\ x = LogsAsked[n + 1].was /\ caller' = caller /\ fail' = fail
      BY <1>3, <2>1, <3>2
    <3> HIDE DEF n
    <3> QED BY <3>1, <3>3
  <2>2. CASE fail' = "unpack" /\ caller' = "finished" /\ UNCHANGED got
    BY <2>2
  <2> QED BY <2>1, <2>2 DEF NextLog
<1>7. EventsTypeOK'
  BY <1>1, <1>3, <1>5, <1>6 DEF EventsTypeOK
<1>8. NothingBefore' /\ FilterEnds' /\ WatchReports' /\ InHand'
  BY <1>1, <1>2, <1>6 DEF NothingBefore, FilterEnds, WatchReports, InHand
<1>9. GotIsPrefix' /\ HeldIsNext'
  BY <1>1, <1>2, <1>3, <1>4, <1>6 DEF GotIsPrefix, HeldIsNext
<1>10. ChannelIsNext' /\ RestIsPending'
  <2>1. SUFFICES ASSUME fail' = "none" PROVE ChannelIsNext' /\ RestIsPending'
    BY <1>1, <1>2 DEF ChannelIsNext, RestIsPending, ReadsOn
  <2>2. Taken = n /\ Taken' = n + 1 /\ Len(pending) \in Nat
    BY <1>1, <1>2, <1>4, <1>6, <2>1 DEF Taken, EventsTypeOK
  <2>3. ASSUME NEW i \in 1..Len(logs') PROVE logs'[i] = LogsAsked[(n + 1) + i]
    <3>1. i \in 1..(Len(logs) - 1) /\ i + 1 \in 1..Len(logs) /\ n + (i + 1) = (n + 1) + i
      BY <1>3, <1>4, <1>5
    <3>2. logs[i + 1] = LogsAsked[n + (i + 1)]
      BY <1>2, <2>2, <3>1 DEF ChannelIsNext
    <3> QED BY <1>3, <1>5, <3>1, <3>2
  <2>4. ChannelIsNext'
    BY <1>1, <1>2, <1>3, <1>4, <1>5, <2>2, <2>3 DEF ChannelIsNext
  <2>5. (n + 1) + Len(logs') = n + Len(logs)
    BY <1>3, <1>4, <1>5
  <2>6. RestIsPending'
    BY <1>1, <1>2, <2>2, <2>5 DEF RestIsPending
  <2> QED BY <2>4, <2>6
<1>11. EndsAreTold'
  BY <1>2, <1>6 DEF EndsAreTold
<1> QED BY <1>7, <1>8, <1>9, <1>10, <1>11

\* The goroutine of a watch takes the next log, or stops at one it cannot read.
LEMMA WatchTakesInv ==
  ASSUME EventsInv, WatchTakes
  PROVE  EventsInv'
<1> USE DEF EventsInv
<1>1. /\ LogsAsked' = LogsAsked /\ LogsAsked \in Seq(Log) /\ Len(LogsAsked) \in Nat
      /\ UNCHANGED <<chain, binding, wanted, kind, start, pending, caller, quit, done, got>>
      /\ loop = "waiting" /\ logs # <<>> /\ logs' = Tail(logs)
  BY SameLogs, LogsAskedType DEF WatchTakes, call
<1>2. kind = "watch" /\ held = <<>> /\ ReadsOn /\ fail = "none" /\ caller # "finished"
  <2>1. kind = "watch"
    BY <1>1 DEF NothingBefore, FilterEnds, EventsTypeOK
  <2> QED BY <1>1, <2>1 DEF InHand, ReadsOn, WatchReports, EventsTypeOK
<1> DEFINE n == Len(got)
<1>3. /\ n + 1 <= Len(LogsAsked) /\ Unpack(Head(logs)) = LogsAsked[n + 1].was
      /\ Unpack(Head(logs)) \in Received /\ Tail(logs) \in Seq(Log)
      /\ Len(logs) \in Nat /\ Len(Tail(logs)) = Len(logs) - 1
      /\ \A i \in 1..(Len(logs) - 1) : Tail(logs)[i] = logs[i + 1]
  BY <1>1, <1>2, HeadIsNext
<1>4. n \in Nat /\ Len(pending) \in Nat
  BY DEF EventsTypeOK
<1>5. CASE /\ loop' = "sending" /\ held' = <<Unpack(Head(logs))>> /\ UNCHANGED <<sub, fail>>
  <2>1. held' \in Seq(Received) /\ Len(held') = 1 /\ held'[1] = LogsAsked[n + 1].was
    BY <1>3, <1>5
  <2>2. Taken = n /\ Taken' = n + 1
    BY <1>1, <1>2, <1>4, <2>1 DEF Taken
  <2>3. EventsTypeOK'
    BY <1>1, <1>3, <1>5, <2>1 DEF EventsTypeOK
  <2>4. NothingBefore' /\ FilterEnds' /\ WatchReports' /\ InHand'
    BY <1>1, <1>2, <1>5, <2>1 DEF NothingBefore, FilterEnds, WatchReports, InHand
  <2>5. GotIsPrefix' /\ HeldIsNext'
    BY <1>1, <1>3, <2>1, <2>2 DEF GotIsPrefix, HeldIsNext
  <2>6. ASSUME NEW i \in 1..Len(logs') PROVE logs'[i] = LogsAsked[(n + 1) + i]
    <3>1. i \in 1..(Len(logs) - 1) /\ i + 1 \in 1..Len(logs) /\ n + (i + 1) = (n + 1) + i
      BY <1>1, <1>3, <1>4
    <3>2. logs[i + 1] = LogsAsked[n + (i + 1)]
      BY <1>2, <2>2, <3>1 DEF ChannelIsNext
    <3> QED BY <1>1, <1>3, <3>1, <3>2
  <2>7. (n + 1) + Len(logs') = n + Len(logs)
    BY <1>1, <1>3, <1>4
  <2>8. ChannelIsNext'
    BY <1>1, <1>2, <2>2, <2>6, <2>7 DEF ChannelIsNext
  <2>9. RestIsPending'
    BY <1>1, <1>2, <1>5, <2>2, <2>7 DEF RestIsPending
  <2>10. EndsAreTold'
    BY <1>1, <1>2 DEF EndsAreTold
  <2> QED BY <2>3, <2>4, <2>5, <2>8, <2>9, <2>10
<1>6. CASE WatchReturns("unpack")
  <2>1. loop' = "stopped" /\ held' = <<>> /\ fail' = (IF quit THEN "none" ELSE "unpack")
        /\ sub' = (IF sub = "on" THEN "ended" ELSE sub)
    BY <1>6 DEF WatchReturns
  <2>2. EventsTypeOK'
    BY <1>1, <1>3, <2>1 DEF EventsTypeOK
  <2>3. NothingBefore' /\ FilterEnds' /\ WatchReports' /\ InHand'
    BY <1>1, <1>2, <2>1 DEF NothingBefore, FilterEnds, WatchReports, InHand
  <2>4. GotIsPrefix' /\ HeldIsNext' /\ ChannelIsNext' /\ RestIsPending' /\ EndsAreTold'
    BY <1>1, <1>2, <2>1 DEF GotIsPrefix, HeldIsNext, ChannelIsNext, RestIsPending, ReadsOn, EndsAreTold
  <2> QED BY <2>2, <2>3, <2>4
<1> QED BY <1>5, <1>6 DEF WatchTakes

\* It hands the log on, and nothing else moves.
LEMMA WatchSendsInv ==
  ASSUME EventsInv, WatchSends
  PROVE  EventsInv'
<1> USE DEF EventsInv
<1>1. /\ LogsAsked' = LogsAsked /\ LogsAsked \in Seq(Log) /\ Len(LogsAsked) \in Nat
      /\ UNCHANGED <<chain, binding, wanted, kind, start, pending, logs, sub, caller, quit, done, fail>>
      /\ loop = "sending" /\ loop' = "waiting" /\ held' = <<>> /\ got' = got \o held
      /\ caller = "reading"
  BY SameLogs, LogsAskedType DEF WatchSends, call, stream
<1>2. kind = "watch"
  BY <1>1 DEF NothingBefore, FilterEnds, EventsTypeOK
<1> DEFINE n == Len(got)
<1>3. n \in Nat /\ Len(held) = 1 /\ Taken = n + 1
  BY <1>1 DEF EventsTypeOK, InHand, Taken
<1>4. /\ got' \in Seq(Received) /\ Len(got') = n + 1 /\ got'[n + 1] = held[1]
      /\ \A i \in 1..n : got'[i] = got[i]
  <2>1. got \in Seq(Received) /\ held \in Seq(Received)
    BY DEF EventsTypeOK
  <2>2. /\ got \o held \in Seq(Received) /\ Len(got \o held) = Len(got) + Len(held)
        /\ \A i \in 1..(Len(got) + Len(held)) :
             (got \o held)[i] = IF i <= Len(got) THEN got[i] ELSE held[i - Len(got)]
    BY <2>1
  <2>3. n + 1 \in 1..(n + Len(held)) /\ (n + 1) - n = 1 /\ ~(n + 1 <= n)
        /\ \A i \in 1..n : i \in 1..(n + Len(held)) /\ i <= n
    BY <1>3
  <2> QED BY <1>1, <1>3, <2>2, <2>3
<1>5. Taken' = Taken
  BY <1>1, <1>3, <1>4 DEF Taken
<1>6. EventsTypeOK'
  BY <1>1, <1>4 DEF EventsTypeOK
<1>7. NothingBefore' /\ FilterEnds' /\ WatchReports' /\ InHand'
  BY <1>1, <1>2 DEF NothingBefore, FilterEnds, WatchReports, InHand
<1>8. GotIsPrefix' /\ HeldIsNext'
  <2>1. n + 1 <= Len(LogsAsked) /\ held[1] = LogsAsked[n + 1].was
    BY <1>1, <1>3 DEF HeldIsNext
  <2> QED BY <1>1, <1>3, <1>4, <2>1 DEF GotIsPrefix, HeldIsNext
<1>9. ReadsOn /\ ReadsOn'
  BY <1>1, <1>2 DEF ReadsOn
<1>10. ChannelIsNext' /\ RestIsPending'
  BY <1>1, <1>5, <1>9 DEF ChannelIsNext, RestIsPending
<1>11. EndsAreTold'
  BY <1>1 DEF EndsAreTold
<1> QED BY <1>6, <1>7, <1>8, <1>10, <1>11

\* A log comes into the channel, behind those that are there.
LEMMA PushInv ==
  ASSUME EventsInv, Push
  PROVE  EventsInv'
<1> USE DEF EventsInv
<1>1. /\ LogsAsked' = LogsAsked /\ LogsAsked \in Seq(Log) /\ Len(LogsAsked) \in Nat
      /\ UNCHANGED <<chain, binding, wanted, kind, start, sub, caller, quit, done, fail, loop, held, got>>
      /\ sub = "on" /\ pending # <<>> /\ logs' = Append(logs, Head(pending))
      /\ pending' = Tail(pending)
  BY SameLogs, LogsAskedType DEF Push, call, watcher
<1>2. /\ logs \in Seq(Log) /\ Len(logs) \in Nat /\ logs' \in Seq(Log) /\ Len(logs') = Len(logs) + 1
      /\ logs'[Len(logs) + 1] = pending[1] /\ \A i \in 1..Len(logs) : logs'[i] = logs[i]
      /\ Len(pending) \in Nat /\ 1 \in 1..Len(pending) /\ Len(pending') = Len(pending) - 1
      /\ pending' \in Seq(Log) /\ \A i \in 1..(Len(pending) - 1) : pending'[i] = pending[i + 1]
  BY <1>1 DEF EventsTypeOK
<1>3. EventsTypeOK'
  BY <1>1, <1>2 DEF EventsTypeOK
<1>4. NothingBefore' /\ FilterEnds' /\ WatchReports' /\ InHand'
  BY <1>1, <1>2 DEF NothingBefore, FilterEnds, WatchReports, InHand
<1>5. GotIsPrefix' /\ HeldIsNext' /\ EndsAreTold'
  BY <1>1 DEF GotIsPrefix, HeldIsNext, Taken, EndsAreTold
<1>6. ChannelIsNext' /\ RestIsPending'
  <2> DEFINE t == Taken
  <2>1. t \in Nat /\ Taken' = t /\ (ReadsOn' <=> ReadsOn)
    BY <1>1 DEF EventsTypeOK, Taken, ReadsOn
  <2> HIDE DEF t
  <2>2. SUFFICES ASSUME ReadsOn PROVE ChannelIsNext' /\ RestIsPending'
    BY <2>1 DEF ChannelIsNext, RestIsPending
  <2>3. /\ t + Len(logs) <= Len(LogsAsked)
        /\ \A i \in 1..Len(logs) : logs[i] = LogsAsked[t + i]
        /\ t + Len(logs) + Len(pending) = Len(LogsAsked)
        /\ \A i \in 1..Len(pending) : pending[i] = LogsAsked[t + Len(logs) + i]
    BY <1>1, <2>2 DEF ChannelIsNext, RestIsPending, t
  <2>4. t + Len(logs') <= Len(LogsAsked) /\ t + Len(logs') + Len(pending') = Len(LogsAsked)
    <3>1. /\ t \in Nat /\ Len(logs) \in Nat /\ Len(pending) \in Nat /\ Len(pending) >= 1
          /\ Len(logs') = Len(logs) + 1 /\ Len(pending') = Len(pending) - 1
          /\ t + Len(logs) + Len(pending) = Len(LogsAsked)
      BY <1>2, <2>1, <2>3
    <3> QED BY <3>1
  <2>5. ASSUME NEW i \in 1..Len(logs') PROVE logs'[i] = LogsAsked[t + i]
    <3>1. CASE i \in 1..Len(logs)
      BY <1>2, <2>3, <3>1
    <3>2. CASE i = Len(logs) + 1
      <4>1. PICK j \in 1..Len(pending) : j = 1
        BY <1>2
      <4>2. pending[j] = LogsAsked[t + Len(logs) + j]
        BY <2>3
      <4>3. t + Len(logs) + j = t + i
        BY <1>2, <2>1, <3>2, <4>1
      <4> QED BY <1>2, <3>2, <4>1, <4>2, <4>3
    <3> QED BY <1>2, <3>1, <3>2
  <2>6. ASSUME NEW i \in 1..Len(pending') PROVE pending'[i] = LogsAsked[t + Len(logs') + i]
    <3>1. /\ i \in 1..(Len(pending) - 1) /\ i + 1 \in 1..Len(pending)
          /\ t + Len(logs) + (i + 1) = t + Len(logs') + i
      BY <1>2, <2>1
    <3>2. pending'[i] = pending[i + 1] /\ pending[i + 1] = LogsAsked[t + Len(logs) + (i + 1)]
      BY <1>2, <2>3, <3>1
    <3> QED BY <3>1, <3>2
  <2> QED BY <1>1, <2>1, <2>4, <2>5, <2>6 DEF ChannelIsNext, RestIsPending
<1> QED BY <1>3, <1>4, <1>5, <1>6

\* An end, a lost connection and closing take from what is to come, and nothing else.
LEMMA QuietInv ==
  ASSUME EventsInv,
         \/ StreamEnds \/ ConnectionLost \/ NextIsDone \/ (NextSeesEnd /\ logs = <<>>)
         \/ WatchLosesSub \/ WatchQuits \/ WatchEnds \/ Close \/ CloseReturns
  PROVE  EventsInv'
<1> USE DEF EventsInv, StreamEnds, ConnectionLost, NextIsDone, NextSeesEnd, IsNext, WatchLosesSub,
            WatchQuits, WatchReturns, WatchEnds, Close, CloseReturns, stream, watcher
<1>1. /\ LogsAsked' = LogsAsked /\ LogsAsked \in Seq(Log) /\ Len(LogsAsked) \in Nat
      /\ UNCHANGED <<chain, binding, wanted, kind, start, logs, got>>
  <2>1. UNCHANGED <<chain, call>>
    OBVIOUS
  <2> QED BY <2>1, SameLogs, LogsAskedType DEF call
<1>2. EventsTypeOK'
  <2>1. <<>> \in Seq(Log) /\ <<>> \in Seq(Received)
    OBVIOUS
  <2>2. pending' = pending \/ pending' = <<>>
    OBVIOUS
  <2>3. held' = held \/ held' = <<>>
    OBVIOUS
  <2>4. pending' \in Seq(Log) /\ held' \in Seq(Received)
    BY <2>1, <2>2, <2>3 DEF EventsTypeOK
  <2>5. /\ caller' \in {"idle", "refused", "reading", "finished", "closing", "closed"}
        /\ sub' \in {"on", "ended", "lost", "clientClosed"}
    BY DEF EventsTypeOK
  <2>6. /\ quit' \in BOOLEAN /\ done' \in BOOLEAN
        /\ fail' \in {"none", "unpack", "lost"} /\ loop' \in {"off", "waiting", "sending", "stopped"}
    BY DEF EventsTypeOK
  <2> QED BY <1>1, <2>4, <2>5, <2>6 DEF EventsTypeOK
<1>3. NothingBefore' /\ FilterEnds' /\ WatchReports' /\ InHand'
  BY <1>1 DEF EventsTypeOK, NothingBefore, FilterEnds, WatchReports, InHand
<1>4. GotIsPrefix' /\ HeldIsNext'
  BY <1>1 DEF EventsTypeOK, GotIsPrefix, HeldIsNext, Taken, InHand
<1>5. ChannelIsNext'
  BY <1>1 DEF EventsTypeOK, ChannelIsNext, ReadsOn, Taken, InHand, FilterEnds
<1>6. RestIsPending'
  BY <1>1 DEF EventsTypeOK, RestIsPending, ReadsOn, Taken, InHand, FilterEnds
<1>7. EndsAreTold'
  BY <1>1 DEF EventsTypeOK, EndsAreTold, NothingBefore, FilterEnds, WatchReports, RestIsPending,
              ReadsOn, Taken, InHand
<1> QED BY <1>2, <1>3, <1>4, <1>5, <1>6, <1>7
-----------------------------------------------------------------------------
(* The call, and what is emitted.                                          *)

\* An iterator takes the next log; at the end it takes what is left.
LEMMA IteratorInv ==
  ASSUME EventsInv, IteratorNext
  PROVE  EventsInv'
<1>1. CASE NextReceives
  <2>1. done' = done /\ done \in BOOLEAN /\ (done => sub = "ended")
    BY <1>1 DEF NextReceives, IsNext, EventsInv, EventsTypeOK, FilterEnds
  <2> QED BY <1>1, <2>1, NextLogInv DEF NextReceives
<1>2. CASE NextSeesEnd
  <2>1. CASE logs = <<>>
    BY <1>2, <2>1, QuietInv
  <2>2. CASE logs # <<>>
    BY <1>2, <2>2, NextLogInv DEF NextSeesEnd
  <2> QED BY <2>1, <2>2
<1>3. CASE NextIsDone
  BY <1>3, QuietInv
<1> QED BY <1>1, <1>2, <1>3 DEF IteratorNext

\* The logs of a filter, all of them to come, are the logs asked for.
LEMMA FilterInv ==
  ASSUME EventsInv, Filter
  PROVE  EventsInv'
<1> USE DEF EventsInv
<1>1. /\ UNCHANGED <<chain, binding, wanted, logs, sub, quit, done, fail, loop, held, got>>
      /\ caller = "idle" /\ kind' = "filter" /\ caller' = "reading" /\ start' = Len(chain)
      /\ pending' = Only(chain, {i \in DOMAIN chain : Matches(chain[i])})
  BY DEF Filter, watcher
<1>2. /\ chain \in Seq(Log) /\ Len(chain) \in Nat /\ DOMAIN chain = 1..Len(chain)
      /\ \A i \in DOMAIN chain : chain[i] \in Log
  BY DEF EventsTypeOK
<1>3. LogsAsked' = pending'
  <2>1. LogsAsked' = Only(chain, {i \in DOMAIN chain : i <= Len(chain) /\ Asked(chain[i])})
    BY <1>1 DEF LogsAsked, Asked
  <2>2. \A i \in DOMAIN chain : Matches(chain[i]) <=> i <= Len(chain) /\ Asked(chain[i])
    BY <1>2, MatchIsAsked
  <2>3. {i \in DOMAIN chain : Matches(chain[i])}
          = {i \in DOMAIN chain : i <= Len(chain) /\ Asked(chain[i])}
    BY <2>2
  <2> QED BY <1>1, <2>1, <2>3
<1>4. /\ got = <<>> /\ loop = "off" /\ logs = <<>> /\ sub = "on" /\ ~done /\ fail = "none" /\ ~quit
  BY <1>1 DEF NothingBefore
<1>5. held = <<>>
  BY <1>4 DEF InHand, EventsTypeOK
<1>6. pending' \in Seq(Log) /\ Len(pending') \in Nat
  <2> DEFINE P == {i \in DOMAIN chain : Matches(chain[i])}
  <2>1. \A i \in 1..Len(chain) : i \in P => chain[i] \in Log
    BY <1>2
  <2>2. Only(chain, P) \in Seq(Log)
    <3> HIDE DEF P
    <3> QED BY <1>2, <2>1, OnlyType
  <2> QED BY <1>1, <2>2
<1>7. EventsTypeOK'
  BY <1>1, <1>2, <1>6 DEF EventsTypeOK
<1>8. NothingBefore' /\ FilterEnds' /\ WatchReports' /\ InHand'
  BY <1>1, <1>4, <1>5 DEF NothingBefore, FilterEnds, WatchReports, InHand
<1>9. Taken' = 0 /\ Len(got') = 0 /\ Len(logs') = 0
  BY <1>1, <1>4, <1>5 DEF Taken
<1>10. GotIsPrefix' /\ HeldIsNext'
  BY <1>1, <1>3, <1>4, <1>6, <1>9 DEF GotIsPrefix, HeldIsNext
<1>11. ChannelIsNext'
  BY <1>3, <1>6, <1>9 DEF ChannelIsNext
<1>12. RestIsPending'
  <2>1. \A i \in 1..Len(pending') : 0 + 0 + i = i
    BY <1>6
  <2> QED BY <1>3, <1>6, <1>9, <2>1 DEF RestIsPending
<1>13. EndsAreTold'
  BY <1>1 DEF EndsAreTold
<1> QED BY <1>7, <1>8, <1>10, <1>11, <1>12, <1>13

\* A watch starts behind the last log: nothing asked for is there yet.
LEMMA WatchInv ==
  ASSUME EventsInv, Watch
  PROVE  EventsInv'
<1> USE DEF EventsInv
<1>1. /\ UNCHANGED <<chain, binding, wanted, pending, logs, sub, quit, done, fail, held, got>>
      /\ caller = "idle" /\ kind' = "watch" /\ caller' = "reading" /\ start' = Len(chain)
      /\ loop' = "waiting"
  BY DEF Watch, stream
<1>2. chain \in Seq(Log) /\ Len(chain) \in Nat /\ DOMAIN chain = 1..Len(chain)
  BY DEF EventsTypeOK
<1>3. LogsAsked' = <<>>
  <2> DEFINE P == {i \in DOMAIN chain : i > Len(chain) /\ Asked(chain[i])}
  <2>1. LogsAsked' = Only(chain, P)
    BY <1>1 DEF LogsAsked, Asked
  <2>2. \A i \in 1..Len(chain) : i \notin P
    BY <1>2
  <2> HIDE DEF P
  <2> QED BY <1>2, <2>1, <2>2, OnlyNone
<1>4. /\ got = <<>> /\ loop = "off" /\ logs = <<>> /\ pending = <<>> /\ sub = "on" /\ fail = "none"
      /\ ~quit /\ ~done
  BY <1>1 DEF NothingBefore
<1>5. held = <<>>
  BY <1>4 DEF InHand, EventsTypeOK
<1>6. EventsTypeOK'
  BY <1>1, <1>2 DEF EventsTypeOK
<1>7. NothingBefore' /\ FilterEnds' /\ WatchReports' /\ InHand'
  BY <1>1, <1>4, <1>5 DEF NothingBefore, FilterEnds, WatchReports, InHand
<1>8. Taken' = 0 /\ Len(got') = 0 /\ Len(logs') = 0 /\ Len(pending') = 0 /\ Len(LogsAsked') = 0
  BY <1>1, <1>3, <1>4, <1>5 DEF Taken
<1>9. GotIsPrefix' /\ HeldIsNext' /\ ChannelIsNext' /\ RestIsPending'
  BY <1>1, <1>8 DEF GotIsPrefix, HeldIsNext, ChannelIsNext, RestIsPending
<1>10. EndsAreTold'
  BY <1>1 DEF EndsAreTold
<1> QED BY <1>6, <1>7, <1>9, <1>10

\* After a refused call there is nothing, as before it.
LEMMA RefusedInv ==
  ASSUME EventsInv, NEW k \in {"filter", "watch"}, Refused(k)
  PROVE  EventsInv'
<1> USE DEF EventsInv
<1>1. /\ UNCHANGED <<chain, binding, wanted, start, pending, logs, sub, quit, done, fail, loop, held, got>>
      /\ caller = "idle" /\ kind' = k /\ caller' = "refused"
  BY DEF Refused, stream, watcher
<1>2. /\ got = <<>> /\ loop = "off" /\ logs = <<>> /\ pending = <<>> /\ sub = "on" /\ fail = "none"
      /\ ~quit /\ ~done
  BY <1>1 DEF NothingBefore
<1>3. EventsTypeOK'
  BY <1>1 DEF EventsTypeOK
<1>4. Len(LogsAsked') \in Nat
  <2> DEFINE P == {i \in DOMAIN chain : /\ IF k = "filter" THEN i <= start ELSE i > start
                                        /\ Asked(chain[i])}
  <2>1. LogsAsked' = Only(chain, P)
    BY <1>1 DEF LogsAsked, Asked
  <2>2. chain \in Seq(Log) /\ \A i \in 1..Len(chain) : i \in P => chain[i] \in Log
    BY DEF EventsTypeOK
  <2> HIDE DEF P
  <2>3. Only(chain, P) \in Seq(Log)
    BY <2>2, OnlyType
  <2> QED BY <2>1, <2>3
<1>5. NothingBefore' /\ FilterEnds' /\ WatchReports' /\ InHand'
  BY <1>1, <1>2 DEF NothingBefore, FilterEnds, WatchReports, InHand
<1>6. GotIsPrefix' /\ HeldIsNext' /\ ChannelIsNext' /\ RestIsPending'
  BY <1>1, <1>2, <1>4 DEF GotIsPrefix, HeldIsNext, ChannelIsNext, RestIsPending, ReadsOn
<1>7. EndsAreTold'
  BY <1>1 DEF EndsAreTold
<1> QED BY <1>3, <1>5, <1>6, <1>7

\* What is emitted is a log: of an event the contract declares.
LEMMA EmittedIsLog ==
  ASSUME NEW d \in Declared, NEW args \in [ToSet(d.indexed) -> Values], NEW fits \in BOOLEAN
  PROVE  Emitted(d, args, fits) \in Log
BY DEF Log

\* What is emitted while a watch goes on is one more log to come, if it is asked for;
\* before the call, nobody waits for it.
LEMMA EmitInv ==
  ASSUME EventsInv, NEW d \in Declared, NEW args \in [ToSet(d.indexed) -> Values],
         NEW fits \in BOOLEAN, Emit(d, args, fits)
  PROVE  EventsInv'
<1> USE DEF EventsInv
<1>1. PICK log \in Log : log = Emitted(d, args, fits)
  BY EmittedIsLog
<1>2. /\ UNCHANGED <<binding, wanted, kind, start, logs, sub, caller, quit, done, fail, loop, held, got>>
      /\ UNCHANGED call
      /\ kind = "watch" \/ caller = "idle"
      /\ pending' = IF kind = "watch" /\ sub = "on" /\ Matches(log) THEN Append(pending, log)
                    ELSE pending
  BY <1>1 DEF Emit, call, watcher
<1>3. chain' = Append(chain, log)
  BY <1>1 DEF Emit
<1>4. /\ chain' \in Seq(Log) /\ Len(chain') = Len(chain) + 1 /\ Len(chain) \in Nat
      /\ pending \in Seq(Log) /\ Len(pending) \in Nat
      /\ Append(pending, log) \in Seq(Log) /\ Len(Append(pending, log)) = Len(pending) + 1
      /\ Append(pending, log)[Len(pending) + 1] = log
      /\ \A i \in 1..Len(pending) : Append(pending, log)[i] = pending[i]
  BY <1>3 DEF EventsTypeOK
<1>5. EventsTypeOK'
  <2>1. pending' \in Seq(Log)
    BY <1>2, <1>4
  <2>2. start' \in 0..Len(chain')
    BY <1>2, <1>4 DEF EventsTypeOK
  <2> QED BY <1>2, <1>4, <2>1, <2>2 DEF EventsTypeOK
<1>6. NothingBefore' /\ FilterEnds' /\ WatchReports' /\ InHand'
  BY <1>2 DEF NothingBefore, FilterEnds, WatchReports, InHand
<1>7. CASE kind # "watch"
  <2>1. caller = "idle" /\ kind = "none" /\ got = <<>> /\ loop = "off" /\ pending' = pending
    BY <1>2, <1>7 DEF NothingBefore
  <2>2. Len(LogsAsked') \in Nat
    <3> DEFINE P == {i \in DOMAIN chain' : i > start /\ Asked(chain'[i])}
    <3>1. LogsAsked' = Only(chain', P)
      BY <1>2, <2>1 DEF LogsAsked, Asked
    <3>2. \A i \in 1..Len(chain') : i \in P => chain'[i] \in Log
      BY <1>4
    <3> HIDE DEF P
    <3>3. Only(chain', P) \in Seq(Log)
      BY <1>4, <3>2, OnlyType
    <3> QED BY <3>1, <3>3
  <2>3. GotIsPrefix' /\ HeldIsNext' /\ ChannelIsNext' /\ RestIsPending' /\ EndsAreTold'
    BY <1>2, <2>1, <2>2 DEF GotIsPrefix, HeldIsNext, ChannelIsNext, RestIsPending, ReadsOn, EndsAreTold
  <2> QED BY <1>5, <1>6, <2>3
<1>8. CASE kind = "watch"
  <2>1. LogsAsked' = IF Matches(log) THEN Append(LogsAsked, log) ELSE LogsAsked
    BY <1>2, <1>3, <1>8, EmittedLogs, MatchIsAsked
  <2> DEFINE n == Len(LogsAsked)
  <2>2. LogsAsked \in Seq(Log) /\ n \in Nat
    BY LogsAskedType
  <2>3. /\ Len(Append(LogsAsked, log)) = n + 1 /\ Append(LogsAsked, log)[n + 1] = log
        /\ \A i \in 1..n : Append(LogsAsked, log)[i] = LogsAsked[i]
    BY <2>2
  <2>4. /\ Len(LogsAsked') >= n /\ Len(LogsAsked') \in Nat
        /\ \A i \in 1..n : LogsAsked'[i] = LogsAsked[i]
    BY <2>1, <2>2, <2>3
  <2>5. /\ Taken' = Taken /\ Len(got) \in Nat /\ Len(held) \in Nat /\ Len(logs) \in Nat
        /\ Taken = Len(got) + Len(held) /\ (ReadsOn' <=> ReadsOn)
    BY <1>2 DEF EventsTypeOK, Taken, ReadsOn
  <2>6. GotIsPrefix'
    <3>1. Len(got) <= n /\ \A i \in 1..Len(got) : i \in 1..n /\ got[i] = LogsAsked[i].was
      BY <2>2, <2>5 DEF GotIsPrefix
    <3>2. Len(got) <= Len(LogsAsked')
      BY <2>2, <2>4, <2>5, <3>1
    <3> QED BY <1>2, <2>4, <3>1, <3>2 DEF GotIsPrefix
  <2>7. HeldIsNext'
    <3>1. SUFFICES ASSUME loop = "sending" PROVE HeldIsNext'
      BY <1>2 DEF HeldIsNext
    <3>2. Len(held) = 1 /\ Taken <= n /\ held[1] = LogsAsked[Taken].was
      BY <3>1 DEF InHand, HeldIsNext
    <3>3. Taken \in 1..n /\ Taken <= Len(LogsAsked')
      BY <2>2, <2>4, <2>5, <3>2
    <3> QED BY <1>2, <2>4, <2>5, <3>2, <3>3 DEF HeldIsNext
  <2>8. ASSUME ReadsOn PROVE ChannelIsNext'
    <3>1. Taken + Len(logs) <= n /\ \A i \in 1..Len(logs) : logs[i] = LogsAsked[Taken + i]
      BY <2>8 DEF ChannelIsNext
    <3>2. \A i \in 1..Len(logs) : Taken + i \in 1..n
      BY <2>2, <2>5, <3>1
    <3>3. Taken + Len(logs) <= Len(LogsAsked')
      BY <2>2, <2>4, <2>5, <3>1
    <3> QED BY <1>2, <2>4, <2>5, <3>1, <3>2, <3>3 DEF ChannelIsNext
  <2>9. ASSUME ReadsOn, sub = "on" PROVE RestIsPending'
    <3> DEFINE m == Taken + Len(logs)
    <3>1. m + Len(pending) = n /\ \A i \in 1..Len(pending) : pending[i] = LogsAsked[m + i]
      BY <2>9 DEF RestIsPending
    <3>2. m \in Nat /\ m' = m
      BY <1>2, <2>5
    <3>3. \A i \in 1..Len(pending) : m + i \in 1..n
      BY <1>4, <2>2, <3>1, <3>2
    <3>4. CASE ~Matches(log)
      <4>1. pending' = pending /\ LogsAsked' = LogsAsked
        BY <1>2, <2>1, <3>4
      <4> QED BY <1>2, <2>5, <3>1, <4>1 DEF RestIsPending
    <3>5. CASE Matches(log)
      <4>1. pending' = Append(pending, log) /\ LogsAsked' = Append(LogsAsked, log)
        BY <1>2, <1>8, <2>1, <2>9, <3>5
      <4>2. m + Len(pending') = Len(LogsAsked')
        <5> HIDE DEF n, m
        <5>1. Len(pending') = Len(pending) + 1 /\ Len(LogsAsked') = n + 1 /\ m + Len(pending) = n
          BY <1>4, <2>3, <3>1, <4>1
        <5> QED BY <1>4, <2>2, <3>2, <5>1
      <4>3. ASSUME NEW i \in 1..Len(pending') PROVE pending'[i] = LogsAsked'[m + i]
        <5>1. CASE i \in 1..Len(pending)
          BY <1>4, <2>3, <3>1, <3>3, <4>1, <5>1
        <5>2. CASE i = Len(pending) + 1
          <6> HIDE DEF n, m
          <6>1. m + i = n + 1
            BY <1>4, <3>1, <3>2, <5>2
          <6> QED BY <1>4, <2>3, <4>1, <5>2, <6>1
        <5>3. Len(pending') = Len(pending) + 1
          BY <1>4, <4>1
        <5>4. i \in 1..Len(pending) \/ i = Len(pending) + 1
          BY <1>4, <5>3
        <5> QED BY <5>1, <5>2, <5>4
      <4> QED BY <1>2, <2>5, <4>2, <4>3 DEF RestIsPending
    <3> QED BY <3>4, <3>5
  <2>10. ChannelIsNext' /\ RestIsPending'
    BY <1>2, <1>8, <2>5, <2>8, <2>9 DEF ChannelIsNext, RestIsPending
  <2>11. EndsAreTold'
    BY <1>2, <1>8 DEF EndsAreTold
  <2> QED BY <1>5, <1>6, <2>6, <2>7, <2>10, <2>11
<1> QED BY <1>7, <1>8

\* Whatever is emitted, with its parameters or without.
LEMMA EmitAnyInv ==
  ASSUME EventsInv, EmitAny
  PROVE  EventsInv'
<1>1. CASE \E d \in {e \in Declared : e.event = binding.event}, fits \in BOOLEAN :
             \E args \in [ToSet(d.indexed) -> Values] :
               /\ fits \/ \A p \in DOMAIN args : args[p] = AskedFor
               /\ Emit(d, args, fits)
  BY <1>1, EmitInv
<1>2. CASE \E d \in AnotherEvent : Emit(d, <<>>, TRUE)
  <2>1. PICK d \in AnotherEvent : Emit(d, <<>>, TRUE)
    BY <1>2
  <2>2. d \in Declared /\ d.indexed = <<>>
    BY DEF AnotherEvent
  <2>3. ToSet(d.indexed) = {}
    BY <2>2 DEF ToSet
  <2>4. <<>> \in [ToSet(d.indexed) -> Values]
    BY <2>3
  <2> QED BY <2>1, <2>2, <2>4, EmitInv
<1> QED BY <1>1, <1>2 DEF EmitAny
-----------------------------------------------------------------------------
(* The invariant holds.                                                    *)

\* Nothing has been asked for at first.
LEMMA EventsInitInv == EventsInit => EventsInv
<1>1. SUFFICES ASSUME EventsInit PROVE EventsInv
  OBVIOUS
<1> USE <1>1 DEF EventsInit
<1>2. wanted \in [ToSet(binding.indexed) -> SUBSET Values]
  <2>1. AskedFor \in Values
    BY EventsAssumption DEF AskedFor
  <2>2. PICK P \in {Q \in SUBSET ToSet(binding.indexed) : Cardinality(Q) <= 1} :
          wanted = [p \in ToSet(binding.indexed) |-> IF p \in P THEN {AskedFor} ELSE {}]
    OBVIOUS
  <2> QED BY <2>1, <2>2
<1>3. EventsTypeOK
  <2>1. <<>> \in Seq(Log) /\ <<>> \in Seq(Received) /\ Len(<<>>) = 0
    OBVIOUS
  <2>2. /\ chain \in Seq(Log) /\ logs \in Seq(Log) /\ pending \in Seq(Log)
        /\ got \in Seq(Received) /\ held \in Seq(Received) /\ start \in 0..Len(chain)
    BY <2>1
  <2>3. /\ kind \in {"none", "filter", "watch"} /\ sub \in {"on", "ended", "lost", "clientClosed"}
        /\ caller \in {"idle", "refused", "reading", "finished", "closing", "closed"}
        /\ quit \in BOOLEAN /\ done \in BOOLEAN /\ fail \in {"none", "unpack", "lost"}
        /\ loop \in {"off", "waiting", "sending", "stopped"}
    OBVIOUS
  <2> QED BY <1>2, <2>2, <2>3 DEF EventsTypeOK
<1>4. LogsAsked = <<>>
  BY OnlyEmpty DEF LogsAsked
<1> QED
  BY <1>3, <1>4 DEF EventsInv, NothingBefore, FilterEnds, WatchReports, InHand, GotIsPrefix,
                    HeldIsNext, ChannelIsNext, RestIsPending, ReadsOn, EndsAreTold

\* No step of the client, the goroutines or the caller leaves the invariant.
LEMMA EventsStepInv == EventsInv /\ [EventsNext]_eventVars => EventsInv'
<1>1. SUFFICES ASSUME EventsInv, [EventsNext]_eventVars PROVE EventsInv'
  OBVIOUS
<1>2. CASE UNCHANGED eventVars
  <2>1. /\ UNCHANGED <<chain, binding, wanted, kind, start, pending, logs, sub, caller, quit,
                       done, fail, loop, held, got>>
        /\ LogsAsked' = LogsAsked
    BY <1>2, SameLogs DEF eventVars, call, stream, watcher
  <2>2. EventsTypeOK'
    BY <1>1, <2>1 DEF EventsInv, EventsTypeOK
  <2>3. NothingBefore' /\ FilterEnds' /\ WatchReports' /\ InHand'
    BY <1>1, <2>1 DEF EventsInv, NothingBefore, FilterEnds, WatchReports, InHand
  <2>4. GotIsPrefix' /\ HeldIsNext' /\ EndsAreTold'
    BY <1>1, <2>1 DEF EventsInv, GotIsPrefix, HeldIsNext, Taken, EndsAreTold
  <2>5. ChannelIsNext' /\ RestIsPending'
    BY <1>1, <2>1 DEF EventsInv, ChannelIsNext, RestIsPending, ReadsOn, Taken
  <2> QED
    BY <2>2, <2>3, <2>4, <2>5 DEF EventsInv
<1>3. CASE EmitAny
  BY <1>1, <1>3, EmitAnyInv
<1>4. CASE Push
  BY <1>1, <1>4, PushInv
<1>5. CASE StreamEnds \/ ConnectionLost \/ WatchEnds \/ Close \/ CloseReturns
  BY <1>1, <1>5, QuietInv
<1>6. CASE \E k \in {"filter", "watch"} : Refused(k)
  BY <1>1, <1>6, RefusedInv
<1>7. CASE Filter
  BY <1>1, <1>7, FilterInv
<1>8. CASE IteratorNext
  BY <1>1, <1>8, IteratorInv
<1>9. CASE Watch
  BY <1>1, <1>9, WatchInv
<1>10. CASE WatchLoop
  BY <1>1, <1>10, WatchTakesInv, QuietInv DEF WatchLoop
<1>11. CASE WatchSends
  BY <1>1, <1>11, WatchSendsInv
<1> QED
  BY <1>1, <1>2, <1>3, <1>4, <1>5, <1>6, <1>7, <1>8, <1>9, <1>10, <1>11 DEF EventsNext

\* What is received, in hand, in the channel and to come are the logs asked for, in
\* every state of every call.
THEOREM EventsInvariance == EventsSpec => []EventsInv
BY EventsInitInv, EventsStepInv, PTL DEF EventsSpec

\* The invariant says of what is received what the property says.
LEMMA EventsInvReads == EventsInv => ReadsAreEmitted
<1>1. SUFFICES ASSUME EventsInv PROVE ReadsAreEmitted
  OBVIOUS
<1>2. Len(got) \in Nat /\ DOMAIN got = 1..Len(got) /\ Len(LogsAsked) \in Nat
  BY <1>1, LogsAskedType DEF EventsInv, EventsTypeOK
<1>3. ASSUME kind = "watch", loop = "waiting", sub = "on", pending = <<>>, logs = <<>>
      PROVE  Len(got) = Len(LogsAsked)
  <2>1. ReadsOn /\ Len(held) = 0 /\ Len(logs) = 0 /\ Len(pending) = 0
    BY <1>1, <1>3 DEF EventsInv, InHand, ReadsOn
  <2> QED BY <1>1, <1>2, <1>3, <2>1 DEF EventsInv, RestIsPending, Taken
<1> QED BY <1>1, <1>2, <1>3 DEF EventsInv, GotIsPrefix, ReadsAreEmitted

\* A caller receives the events that were emitted and asked for, in the order of the
\* chain, with every value in the field of its name and none left out or repeated,
\* whatever the other logs, the capacity of the channel and the order of the steps.
THEOREM EventsAreRead == EventsSpec => []ReadsAreEmitted
BY EventsInvariance, EventsInvReads, PTL

\* Who comes to an end without an error has everything it asked for, or the client of
\* its watch was closed.
THEOREM EndsAreAlwaysTold == EventsSpec => []EndsAreTold
<1>1. EventsInv => EndsAreTold
  BY DEF EventsInv
<1> QED BY <1>1, EventsInvariance, PTL
=============================================================================
