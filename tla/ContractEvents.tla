--------------------------- MODULE ContractEvents ---------------------------
(***************************************************************************)
(* The events of the contracts as the Go bindings hand them on             *)
(* (src/on-chain/goBind): Filter<Event> returns an iterator over the logs  *)
(* there are, Watch<Event> feeds those to come into a channel of the       *)
(* caller.  The code is the same for all 22 events; what differs, which    *)
(* event and which of its parameters can be asked for in which order, is a *)
(* definition each.                                                        *)
(*                                                                         *)
(* One caller, one call.  Channels, their goroutines and every choice of a *)
(* select are kept; the client of the node is external: it has the logs in *)
(* the order of the chain, may refuse a call and may lose its connection.  *)
(***************************************************************************)
EXTENDS Integers, FiniteSets, SequencesExt

CONSTANTS
  Bindings,   \* the events of the bindings that are asked for
  Values,     \* of indexed parameters
  Capacity,   \* of the channel of logs
  MaxLogs     \* bound: logs on the chain

Event(contract, event, indexed, data) ==
  [contract |-> contract, event |-> event, indexed |-> indexed, data |-> data]

-----------------------------------------------------------------------------
(* What the bindings know of the events: the parameters that become rules, *)
(* in the order they are passed, and the fields filled from the data.  All *)
(* else that is written out again for every event (its iterator, Filter,   *)
(* Watch and Parse) is the model below, run for each of these.             *)

CollectionFactoryCreateCollection ==
  Event("CollectionFactory", "CreateCollection", <<>>, <<"collectionOwner", "collectionAddress">>)
CollectionFactoryOwnershipTransferred ==
  Event("CollectionFactory", "OwnershipTransferred", <<"previousOwner", "newOwner">>, <<>>)
CollectionFactoryTransferBatch ==
  Event("CollectionFactory", "TransferBatch", <<"operator", "from", "to">>, <<"ids", "values">>)
CollectionFactoryTransferSingle ==
  Event("CollectionFactory", "TransferSingle", <<"operator", "from", "to">>, <<"id", "value">>)

FilswanOracleOwnershipTransferred ==
  Event("FilswanOracle", "OwnershipTransferred", <<"previousOwner", "newOwner">>, <<>>)
FilswanOraclePreSign ==
  Event("FilswanOracle", "PreSign", <<>>, <<"dealId", "network", "recipient", "batchCount">>)
FilswanOracleRoleAdminChanged ==
  Event("FilswanOracle", "RoleAdminChanged",
        <<"role", "previousAdminRole", "newAdminRole">>, <<>>)

\* Mutant: the rules of account and sender are passed the other way round.
FilswanOracleRoleGranted_Swapped ==
  Event("FilswanOracle", "RoleGranted", <<"role", "sender", "account">>, <<>>)

FilswanOracleRoleGranted ==
  Event("FilswanOracle", "RoleGranted", <<"role", "account", "sender">>, <<>>)
FilswanOracleRoleRevoked ==
  Event("FilswanOracle", "RoleRevoked", <<"role", "account", "sender">>, <<>>)
FilswanOracleSign ==
  Event("FilswanOracle", "Sign", <<>>, <<"dealId", "network", "cidList", "batchNo">>)
FilswanOracleSignCarTransaction ==
  Event("FilswanOracle", "SignCarTransaction", <<>>,
        <<"cidList", "dealId", "network", "recipient">>)
FilswanOracleSignHash ==
  Event("FilswanOracle", "SignHash", <<>>, <<"dealId", "network", "recipient", "voteKey">>)
FilswanOracleSignTransaction ==
  Event("FilswanOracle", "SignTransaction", <<>>, <<"cid", "dealId", "recipient">>)

PairApproval == Event("Pair", "Approval", <<"owner", "spender">>, <<"value">>)
PairBurn == Event("Pair", "Burn", <<"sender", "to">>, <<"amount0", "amount1">>)
PairMint == Event("Pair", "Mint", <<"sender">>, <<"amount0", "amount1">>)
PairSwap == Event("Pair", "Swap", <<"sender", "to">>,
                  <<"amount0In", "amount1In", "amount0Out", "amount1Out">>)
PairSync == Event("Pair", "Sync", <<>>, <<"reserve0", "reserve1">>)
PairTransfer == Event("Pair", "Transfer", <<"from", "to">>, <<"value">>)

SwanPaymentExpirePayment ==
  Event("SwanPayment", "ExpirePayment", <<>>, <<"id", "token", "amount", "owner">>)
SwanPaymentLockPayment ==
  Event("SwanPayment", "LockPayment", <<>>,
        <<"id", "token", "lockedFee", "minPayment", "recipient", "deadline", "size", "copyLimit">>)
SwanPaymentUnlockPayment ==
  Event("SwanPayment", "UnlockPayment", <<>>,
        <<"id", "token", "cost", "restToken", "recipient", "owner">>)

AllBindings ==
  {CollectionFactoryCreateCollection, CollectionFactoryOwnershipTransferred,
   CollectionFactoryTransferBatch, CollectionFactoryTransferSingle,
   FilswanOracleOwnershipTransferred, FilswanOraclePreSign, FilswanOracleRoleAdminChanged,
   FilswanOracleRoleGranted, FilswanOracleRoleRevoked, FilswanOracleSign,
   FilswanOracleSignCarTransaction, FilswanOracleSignHash, FilswanOracleSignTransaction,
   PairApproval, PairBurn, PairMint, PairSwap, PairSync, PairTransfer,
   SwanPaymentExpirePayment, SwanPaymentLockPayment, SwanPaymentUnlockPayment}

ASSUME EventsAssumption ==
  /\ Bindings \subseteq AllBindings
  /\ Capacity \in Nat \ {0} /\ MaxLogs \in Nat /\ Values # {}

-----------------------------------------------------------------------------
(* What the contracts declare, in the Solidity of this repository or in    *)
(* what it inherits from.                                                  *)

OracleEvents ==
  {Event("FilswanOracle", "SignTransaction", <<>>, <<"cid", "dealId", "recipient">>),
   Event("FilswanOracle", "SignCarTransaction", <<>>,
         <<"cidList", "dealId", "network", "recipient">>),
   Event("FilswanOracle", "SignHash", <<>>, <<"dealId", "network", "recipient", "voteKey">>),
   Event("FilswanOracle", "PreSign", <<>>, <<"dealId", "network", "recipient", "batchCount">>),
   Event("FilswanOracle", "Sign", <<>>, <<"dealId", "network", "cidList", "batchNo">>)}

PaymentEvents ==
  {Event("SwanPayment", "LockPayment", <<>>,
         <<"id", "token", "lockedFee", "minPayment", "recipient", "deadline", "size", "copyLimit">>),
   Event("SwanPayment", "UnlockPayment", <<>>,
         <<"id", "token", "cost", "restToken", "recipient", "owner">>),
   Event("SwanPayment", "UnlockCarPayment", <<>>, <<"dealId", "network", "recipient">>),
   Event("SwanPayment", "ExpirePayment", <<>>, <<"id", "token", "amount", "owner">>),
   Event("SwanPayment", "Refund", <<>>, <<"cid", "owner", "amount">>)}

FactoryEvents ==
  {Event("CollectionFactory", "CreateCollection", <<>>,
         <<"collectionOwner", "collectionAddress">>)}

\* Ownable, AccessControl, IERC1155 and IUniswapV2Pair.
InheritedEvents ==
  {Event(c, "OwnershipTransferred", <<"previousOwner", "newOwner">>, <<>>) :
     c \in {"FilswanOracle", "CollectionFactory", "SwanPayment"}}
  \cup {Event("FilswanOracle", "RoleAdminChanged",
               <<"role", "previousAdminRole", "newAdminRole">>, <<>>),
        Event("FilswanOracle", "RoleGranted", <<"role", "account", "sender">>, <<>>),
        Event("FilswanOracle", "RoleRevoked", <<"role", "account", "sender">>, <<>>),
        Event("CollectionFactory", "TransferBatch",
              <<"operator", "from", "to">>, <<"ids", "values">>),
        Event("CollectionFactory", "TransferSingle",
              <<"operator", "from", "to">>, <<"id", "value">>),
        Event("Pair", "Approval", <<"owner", "spender">>, <<"value">>),
        Event("Pair", "Burn", <<"sender", "to">>, <<"amount0", "amount1">>),
        Event("Pair", "Mint", <<"sender">>, <<"amount0", "amount1">>),
        Event("Pair", "Swap", <<"sender", "to">>,
              <<"amount0In", "amount1In", "amount0Out", "amount1Out">>),
        Event("Pair", "Sync", <<>>, <<"reserve0", "reserve1">>),
        Event("Pair", "Transfer", <<"from", "to">>, <<"value">>)}

Declared == OracleEvents \cup PaymentEvents \cup FactoryEvents \cup InheritedEvents

Parameters(e) == ToSet(e.indexed) \cup ToSet(e.data)

\* A log has the values of indexed parameters as topics and the others as its data, by
\* position.  A value that is never compared is the name it was emitted under.  A log
\* of another version of an upgraded contract may not fit what the binding expects.
Emitted(d, args, fits) ==
  [contract |-> d.contract, event |-> d.event, fits |-> fits,
   topics |-> [i \in DOMAIN d.indexed |-> args[d.indexed[i]]], data |-> d.data,
   was |-> [p \in Parameters(d) |-> IF p \in ToSet(d.indexed) THEN args[p] ELSE p]]

\* The logs at the positions P, in order (a fold, of which proofs know more than of SelectSeq).
Only(s, P) == FlattenSeq([i \in 1..Len(s) |-> IF i \in P THEN <<s[i]>> ELSE <<>>])

-----------------------------------------------------------------------------
VARIABLES
  chain,    \* all logs
  binding, wanted,  \* the event asked for, and the values wanted of each indexed parameter
  caller,   \* idle, reading (between two calls), closing, closed, finished or refused
  kind,     \* filter, watch or none
  start,    \* logs on the chain when the call was answered
  pending,  \* logs on their way into the channel
  logs,     \* the channel
  sub,      \* of the client: on, ended, lost (with an error) or clientClosed
  quit,     \* the caller has unsubscribed
  done, fail,   \* of the iterator; fail is also what the caller of a watch is told
  loop, held,   \* the goroutine of a watch: off, waiting, sending or stopped
  got       \* what the caller received: a function from the fields to their values

call == <<binding, wanted, kind, start>>
stream == <<pending, logs, sub>>
watcher == <<loop, held>>
eventVars == <<chain, call, stream, caller, quit, done, fail, watcher, got>>

\* Bound: one value of at most one parameter is asked for; the others are all the same.
AskedFor == CHOOSE v \in Values : TRUE

EventsInit ==
  /\ chain = <<>>
  /\ binding \in Bindings
  /\ wanted \in {[p \in ToSet(binding.indexed) |-> IF p \in P THEN {AskedFor} ELSE {}] :
                  P \in {Q \in SUBSET ToSet(binding.indexed) : Cardinality(Q) <= 1}}
  /\ caller = "idle" /\ kind = "none" /\ start = 0
  /\ pending = <<>> /\ logs = <<>> /\ sub = "on" /\ quit = FALSE
  /\ done = FALSE /\ fail = "none" /\ loop = "off" /\ held = <<>> /\ got = <<>>

-----------------------------------------------------------------------------
(* The client of the node.                                                 *)

\* The rules, in the order the binding passes them: no values is any value.
Rules == [i \in DOMAIN binding.indexed |-> wanted[binding.indexed[i]]]

Matches(log) ==
  /\ log.contract = binding.contract /\ log.event = binding.event
  /\ \A i \in DOMAIN Rules :
       i \in DOMAIN log.topics /\ (Rules[i] = {} \/ log.topics[i] \in Rules[i])

\* Bound: nothing after an answer to a filter, which would not contain it anyway.
Emit(d, args, fits) ==
  /\ Len(chain) < MaxLogs /\ (kind = "watch" \/ caller = "idle")
  /\ d.contract = binding.contract
  /\ LET log == Emitted(d, args, fits) IN
     /\ chain' = Append(chain, log)
     /\ pending' = IF kind = "watch" /\ sub = "on" /\ Matches(log) THEN Append(pending, log)
                   ELSE pending
  /\ UNCHANGED <<call, logs, sub, caller, quit, done, fail, watcher, got>>

\* Bounds: one other event of the contract, and misfits of a few values only.
AnotherEvent ==
  LET others == {d \in Declared : /\ d.contract = binding.contract /\ d.event # binding.event
                                  /\ d.indexed = <<>>}
  IN  IF others = {} THEN {} ELSE {CHOOSE d \in others : TRUE}

EmitAny ==
  \/ \E d \in {e \in Declared : e.event = binding.event}, fits \in BOOLEAN :
       \E args \in [ToSet(d.indexed) -> Values] :
         /\ fits \/ \A p \in DOMAIN args : args[p] = AskedFor
         /\ Emit(d, args, fits)
  \/ \E d \in AnotherEvent : Emit(d, <<>>, TRUE)

Push ==
  /\ sub = "on" /\ pending # <<>> /\ Len(logs) < Capacity
  /\ logs' = Append(logs, Head(pending)) /\ pending' = Tail(pending)
  /\ UNCHANGED <<chain, call, sub, caller, quit, done, fail, watcher, got>>

\* The logs of a filter end, and with them the subscription, as it does when closed.
StreamEnds ==
  /\ kind = "filter" /\ sub = "on" /\ (pending = <<>> \/ quit)
  /\ sub' = "ended"
  /\ UNCHANGED <<chain, call, pending, logs, caller, quit, done, fail, watcher, got>>

ConnectionLost ==
  /\ kind = "watch" /\ sub = "on"
  /\ sub' \in {"lost", "clientClosed"} /\ pending' = <<>>
  /\ UNCHANGED <<chain, call, logs, caller, quit, done, fail, watcher, got>>

Refused(k) ==
  /\ caller = "idle" /\ kind' = k /\ caller' = "refused"
  /\ UNCHANGED <<chain, binding, wanted, start, stream, quit, done, fail, watcher, got>>

-----------------------------------------------------------------------------
(* The iterator of Filter<Event>.                                          *)

Unpack(log) ==
  [p \in Parameters(binding) |->
     IF p \in ToSet(binding.indexed) THEN log.topics[CHOOSE i \in DOMAIN binding.indexed : binding.indexed[i] = p]
     ELSE log.data[CHOOSE i \in DOMAIN binding.data : binding.data[i] = p]]

Filter ==
  /\ caller = "idle" /\ kind' = "filter" /\ caller' = "reading" /\ start' = Len(chain)
  /\ pending' = Only(chain, {i \in DOMAIN chain : Matches(chain[i])})
  /\ UNCHANGED <<chain, binding, wanted, logs, sub, quit, done, fail, watcher, got>>

\* The next log of the channel, or its error; what Next returns ends the reading or not.
NextLog ==
  /\ logs' = Tail(logs)
  /\ IF Head(logs).fits
     THEN got' = Append(got, Unpack(Head(logs))) /\ UNCHANGED <<caller, fail>>
     ELSE fail' = "unpack" /\ caller' = "finished" /\ UNCHANGED got

IsNext == kind = "filter" /\ caller = "reading" /\ fail = "none"

NextReceives ==
  /\ IsNext /\ logs # <<>> /\ NextLog
  /\ UNCHANGED <<chain, call, pending, sub, quit, done, watcher>>

\* Mutant: the end of the subscription is the end of the iteration.
NextSeesEnd_NoDrain ==
  /\ IsNext /\ ~done /\ sub = "ended" /\ done' = TRUE
  /\ caller' = "finished"
  /\ UNCHANGED <<chain, call, stream, quit, fail, watcher, got>>

\* The subscription has ended: what is left in the channel is still handed out.
NextSeesEnd ==
  /\ IsNext /\ ~done /\ sub = "ended" /\ done' = TRUE
  /\ IF logs # <<>> THEN NextLog
     ELSE caller' = "finished" /\ UNCHANGED <<logs, fail, got>>
  /\ UNCHANGED <<chain, call, pending, sub, quit, watcher>>

NextIsDone ==
  /\ IsNext /\ done /\ logs = <<>> /\ caller' = "finished"
  /\ UNCHANGED <<chain, call, stream, quit, done, fail, watcher, got>>

IteratorNext == NextReceives \/ NextSeesEnd \/ NextIsDone

-----------------------------------------------------------------------------
(* The goroutine of Watch<Event>.                                          *)

Watch ==
  /\ caller = "idle" /\ kind' = "watch" /\ caller' = "reading" /\ start' = Len(chain)
  /\ loop' = "waiting"
  /\ UNCHANGED <<chain, binding, wanted, stream, quit, done, fail, held, got>>

\* The deferred Unsubscribe; nobody is told an error after an Unsubscribe of the caller.
WatchReturns(err) ==
  /\ loop' = "stopped" /\ held' = <<>>
  /\ sub' = IF sub = "on" THEN "ended" ELSE sub
  /\ fail' = IF quit THEN "none" ELSE err

WatchTakes ==
  /\ loop = "waiting" /\ logs # <<>> /\ logs' = Tail(logs)
  /\ IF Head(logs).fits
     THEN loop' = "sending" /\ held' = <<Unpack(Head(logs))>> /\ UNCHANGED <<sub, fail>>
     ELSE WatchReturns("unpack")
  /\ UNCHANGED <<chain, call, pending, caller, quit, done, got>>

\* The sink has no buffer: the caller receives as the goroutine sends.
WatchSends ==
  /\ loop = "sending" /\ caller = "reading"
  /\ got' = got \o held /\ held' = <<>> /\ loop' = "waiting"
  /\ UNCHANGED <<chain, call, stream, caller, quit, done, fail>>

WatchLosesSub ==
  /\ loop \in {"waiting", "sending"} /\ sub \in {"lost", "clientClosed"}
  /\ WatchReturns(IF sub = "lost" THEN "lost" ELSE "none")
  /\ UNCHANGED <<chain, call, pending, logs, caller, quit, done, got>>

\* Mutant: who sends to the sink does not listen to quit.
WatchQuits_Waiting ==
  /\ loop = "waiting" /\ quit
  /\ WatchReturns("none")
  /\ UNCHANGED <<chain, call, pending, logs, caller, quit, done, got>>

WatchQuits ==
  /\ loop \in {"waiting", "sending"} /\ quit
  /\ WatchReturns("none")
  /\ UNCHANGED <<chain, call, pending, logs, caller, quit, done, got>>

WatchLoop == WatchTakes \/ WatchLosesSub \/ WatchQuits

\* The caller's Err() is closed, with an error in it or none.
WatchEnds ==
  /\ kind = "watch" /\ caller = "reading" /\ loop = "stopped" /\ caller' = "finished"
  /\ UNCHANGED <<chain, call, stream, quit, done, fail, watcher, got>>

-----------------------------------------------------------------------------
(* Close of an iterator, Unsubscribe of a watch: both wait for the         *)
(* goroutine behind them.                                                  *)

Close ==
  /\ caller \in {"reading", "finished"}
  /\ quit' = TRUE /\ caller' = "closing"
  /\ UNCHANGED <<chain, call, stream, done, fail, watcher, got>>

CloseReturns ==
  /\ caller = "closing"
  /\ IF kind = "filter" THEN sub = "ended" ELSE loop = "stopped"
  /\ caller' = "closed"
  /\ UNCHANGED <<chain, call, stream, quit, done, fail, watcher, got>>

EventsNext ==
  \/ EmitAny \/ Push \/ StreamEnds \/ ConnectionLost
  \/ \E k \in {"filter", "watch"} : Refused(k)
  \/ Filter \/ IteratorNext \/ Watch \/ WatchLoop \/ WatchSends \/ WatchEnds
  \/ Close \/ CloseReturns

\* Goroutines run on, and who iterates goes on asking; nobody has to read a sink.
EventsFairness ==
  /\ WF_eventVars(Push) /\ WF_eventVars(StreamEnds) /\ WF_eventVars(IteratorNext)
  /\ WF_eventVars(WatchLoop) /\ WF_eventVars(CloseReturns)

EventsSpec == EventsInit /\ [][EventsNext]_eventVars /\ EventsFairness

-----------------------------------------------------------------------------
\* What was asked for: by the name of the parameter, whatever its position.
Asked(log) ==
  /\ log.contract = binding.contract /\ log.event = binding.event
  /\ \A p \in DOMAIN wanted : wanted[p] = {} \/ log.was[p] \in wanted[p]

LogsAsked ==
  Only(chain, {i \in DOMAIN chain : /\ IF kind = "filter" THEN i <= start ELSE i > start
                                    /\ Asked(chain[i])})

\* What a caller receives are the events that were emitted, every value in the field of
\* its name, in the order of the chain, with none left out, repeated or not asked for;
\* and while a watch is connected and has nothing under way it has handed on all.
ReadsAreEmitted ==
  /\ Len(got) <= Len(LogsAsked)
  /\ \A i \in DOMAIN got : got[i] = LogsAsked[i].was
  /\ kind = "watch" /\ loop = "waiting" /\ sub = "on" /\ pending = <<>> /\ logs = <<>>
       => Len(got) = Len(LogsAsked)

\* Who comes to an end without an error has everything: an iterator that is not closed
\* by its caller leaves out no log, and a watch only ends so if the client was closed.
EndsAreTold ==
  caller = "finished" /\ fail = "none" =>
    IF kind = "filter" THEN Len(got) = Len(LogsAsked) ELSE sub = "clientClosed"

\* Close and Unsubscribe return, even of a watch nobody reads from any more, and an
\* iteration that is not given up comes to its end.
CallsReturn ==
  /\ caller = "closing" ~> caller = "closed"
  /\ kind = "filter" /\ caller = "reading" ~> caller # "reading"
=============================================================================
