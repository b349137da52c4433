------------------------------- MODULE IrqPin -------------------------------
(***************************************************************************)
(* An interrupt line and the sinks that share it                           *)
(* (kernel/thor/generic/irq.cpp, thor-internal/irq.hpp).  A sink is either *)
(* an in-kernel handler, which answers a raise at once, or an IrqObject,   *)
(* whose driver awaits the raise and answers with helAcknowledgeIrq().     *)
(* Every operation holds the pin's mutex and is one action.                *)
(*                                                                         *)
(* The line is already configured.  The back-off exponent only scales a    *)
(* delay, and the counters behind log messages are left out.  Nobody       *)
(* cancels an await: AwaitIrqOperation passes no cancellation token.       *)
(***************************************************************************)
EXTENDS Integers, FiniteSets

CONSTANTS Sinks,       \* sinks, each attached and detached at most once
          Strategies,  \* values program() returns: sets of mask strategies
          MaxIrqSeq       \* bound: the line is not raised past this sequence number

ASSUME StrategiesAssumption ==
  /\ MaxIrqSeq \in Nat
  /\ \A t \in Strategies :
       /\ t \subseteq {"maskable", "maskInService", "suppressMaskInService"}
       /\ {"maskInService", "suppressMaskInService"} \cap t # {} => "maskable" \in t
       /\ ~({"maskInService", "suppressMaskInService"} \subseteq t)

VARIABLES
  strategy,  \* _strategy
  pin,       \* the fields of IrqPin, and _status and _currentSequence of its sinks
  hwMasked,  \* what mask() and unmask() told the controller
  attached,  \* _sinkList
  driver,    \* what the owner of a sink is doing
  seen,      \* the sequence number the owner of a sink saw last
  unstall    \* the coroutine of the pin's constructor

irqVars == <<strategy, pin, hwMasked, attached, driver, seen, unstall>>

Statuses == {"standBy", "indefinite", "acked", "nacked"}
Answers  == {"indefinite", "acked", "nacked"}
MaskBits == {"forService", "whileBuffered", "forNack"}

\* The type of every variable.
IrqTypeOK ==
  /\ strategy \in Strategies
  /\ pin.inService \in BOOLEAN /\ pin.raiseBuffered \in BOOLEAN
  /\ pin.dispatchAcks \in BOOLEAN /\ pin.dispatchKicks \in BOOLEAN
  /\ pin.dueSinks \in Nat /\ pin.maskState \subseteq MaskBits
  /\ pin.status \in [Sinks -> Statuses] /\ pin.sequence \in [Sinks -> Nat]
  /\ pin.event \in BOOLEAN /\ pin.failed \in BOOLEAN
  /\ hwMasked \in BOOLEAN
  /\ attached \subseteq Sinks
  /\ driver \in [Sinks -> {"new", "idle", "waiting", "handle", "gone"}]
  /\ seen \in [Sinks -> Nat]
  /\ unstall \in {"poll", "asleep", "check", "timer"}

IrqInit ==
  /\ strategy \in Strategies
  /\ pin = [inService |-> FALSE, raiseBuffered |-> FALSE, dispatchAcks |-> FALSE,
            dispatchKicks |-> FALSE, dueSinks |-> 0, maskState |-> {},
            status |-> [k \in Sinks |-> "standBy"], sequence |-> [k \in Sinks |-> 0],
            event |-> FALSE,   \* _unstallEvent is raised by this operation
            failed |-> FALSE]  \* an assertion has failed
  /\ hwMasked = FALSE /\ attached = {}
  /\ driver = [k \in Sinks |-> "new"] /\ seen = [k \in Sinks |-> 0]
  /\ unstall = "poll"

-----------------------------------------------------------------------------
(* The private functions of IrqPin, as functions from pin to pin; a says   *)
(* what each attached sink returns from raise() should it be called.       *)

HwMaskRequested(p) ==
  /\ ~("suppressMaskInService" \in strategy /\ p.inService)
  /\ p.maskState # {}

\* The line was NACKed by everybody: it is stalled until it is kicked.
Stall(p) ==
  IF "maskable" \in strategy
  THEN [p EXCEPT !.maskState = @ \cup {"forNack"}, !.event = TRUE] ELSE p

\* The line leaves service.
Leave(p) ==
  [p EXCEPT !.inService = FALSE, !.maskState = @ \ {"forService"}]

DoService(p, a) ==
  LET raised == [p EXCEPT
        !.failed = @ \/ p.inService \/ p.raiseBuffered
                     \/ ("suppressMaskInService" \in strategy /\ p.maskState # {}),
        !.inService = TRUE,
        !.maskState = IF "maskInService" \in strategy THEN @ \cup {"forService"} ELSE @,
        !.dispatchAcks = FALSE, !.dispatchKicks = FALSE, !.dueSinks = 0,
        !.status = [k \in Sinks |-> IF k \in DOMAIN a THEN a[k] ELSE @[k]],
        !.sequence = [k \in Sinks |-> IF k \in DOMAIN a THEN @[k] + 1 ELSE @[k]]]
      asynchronous == {k \in DOMAIN a : a[k] = "indefinite"}
      anyAck == \E k \in DOMAIN a : a[k] = "acked"
  IN IF asynchronous # {}
     THEN [raised EXCEPT !.dispatchAcks = anyAck, !.dueSinks = Cardinality(asynchronous)]
     ELSE IF anyAck THEN Leave(raised) ELSE Stall(raised)

\* An edge that came while the line was in service is serviced now.
Reraise(p, a) ==
  IF p.raiseBuffered
  THEN DoService([p EXCEPT !.raiseBuffered = FALSE,
                           !.maskState = @ \ {"whileBuffered"}], a)
  ELSE p

Dispatch(p, a) ==
  LET q == IF p.dispatchKicks THEN [p EXCEPT !.maskState = @ \ {"forNack"}] ELSE p
  IN IF p.dispatchAcks \/ p.dispatchKicks THEN Reraise(Leave(q), a) ELSE Stall(q)

AllAnswered(p) == p.dueSinks = 0

\* _acknowledge(), _nack() and _kick(true): one sink less is due.
Answered(p, a) ==
  LET q == [p EXCEPT !.failed = @ \/ ~p.inService \/ p.dueSinks = 0,
                     !.dueSinks = @ - 1]
  IN IF AllAnswered(q) THEN Dispatch(q, a) ELSE q

\* _kick(false).
Kicked(p, a) ==
  LET q == [p EXCEPT !.dispatchKicks = TRUE]
  IN IF ~p.inService THEN p ELSE IF AllAnswered(q) THEN Dispatch(q, a) ELSE q

-----------------------------------------------------------------------------
(* An operation ends: the hardware mask follows _maskState, the awaits of  *)
(* the sinks that were raised complete (IrqObject::raise()), and           *)
(* _unstallEvent.raise() resumes the unstall coroutine.                    *)

Raised(p, k) == p.sequence[k] # pin.sequence[k]

Finish(p, d, u) ==
  /\ hwMasked' = HwMaskRequested(p)
  /\ pin' = [p EXCEPT !.event = FALSE,
                      !.failed = @ \/ (HwMaskRequested(p) /\ "maskable" \notin strategy)]
  /\ driver' = [k \in Sinks |-> IF Raised(p, k) /\ d[k] = "waiting" THEN "handle" ELSE d[k]]
  /\ seen' = [k \in Sinks |-> IF Raised(p, k) /\ d[k] = "waiting" THEN p.sequence[k] ELSE seen[k]]
  /\ unstall' = IF p.event /\ u = "asleep" THEN "check" ELSE u
  /\ UNCHANGED strategy

-----------------------------------------------------------------------------
(* Operations.                                                             *)

Attach(k) ==
  /\ driver[k] = "new"
  /\ attached' = attached \cup {k}
  /\ driver' = [driver EXCEPT ![k] = "idle"]
  /\ UNCHANGED <<strategy, pin, hwMasked, seen, unstall>>

\* An edge while the line is in service.
Buffered(p) ==
  [p EXCEPT !.failed = @ \/ "maskInService" \in strategy, !.raiseBuffered = TRUE,
            !.maskState = IF "maskable" \in strategy THEN @ \cup {"whileBuffered"} ELSE @]

\* raise(); on a line that is masked it does nothing.
Raise ==
  /\ \A k \in attached : pin.sequence[k] < MaxIrqSeq
  /\ ~HwMaskRequested(pin)
  /\ IF pin.inService
     THEN Finish(Buffered(pin), driver, unstall)
     ELSE \E a \in [attached -> Answers] : Finish(DoService(pin, a), driver, unstall)
  /\ UNCHANGED attached

RaisedSince(k) == seen[k] < pin.sequence[k]

\* submitAwait(): the driver of an IrqObject waits for the raise after the one
\* it saw last.
SubmitAwait(k) ==
  /\ driver[k] = "idle"
  /\ IF RaisedSince(k)
     THEN /\ seen' = [seen EXCEPT ![k] = pin.sequence[k]]
          /\ driver' = [driver EXCEPT ![k] = "handle"]
     ELSE driver' = [driver EXCEPT ![k] = "waiting"] /\ UNCHANGED seen
  /\ UNCHANGED <<strategy, pin, hwMasked, attached, unstall>>

\* Mutant of Accepts: the sequence number is not checked.
AcceptsAny(k) == pin.status[k] = "indefinite"
\* ackSink() and nackSink() take an answer to the raise in service only.
Accepts(k) == seen[k] = pin.sequence[k] /\ pin.status[k] = "indefinite"

\* ackSink() and nackSink(): what is not accepted is an error to the caller.
Answer(k) ==
  /\ driver[k] = "handle"
  /\ LET idle == [driver EXCEPT ![k] = "idle"]
     IN IF Accepts(k)
        THEN \E st \in {"acked", "nacked"}, a \in [attached -> Answers] :
               Finish(Answered([pin EXCEPT !.status[k] = st,
                                  !.dispatchAcks = @ \/ st = "acked"], a), idle, unstall)
        ELSE driver' = idle /\ UNCHANGED <<strategy, pin, hwMasked, seen, unstall>>
  /\ UNCHANGED attached

\* kickSink(), from any thread that holds the IRQ object.
Kick(k, wantClear) ==
  /\ k \in attached
  /\ \E a \in [attached -> Answers] :
       Finish(IF wantClear /\ pin.status[k] = "indefinite"
              THEN Answered([pin EXCEPT !.status[k] = "acked", !.dispatchKicks = TRUE], a)
              ELSE Kicked(pin, a), driver, unstall)
  /\ UNCHANGED attached

\* Mutant of Owes: a sink that goes away is not answered for.
OwesNothing(k) == FALSE
Owes(k) == pin.status[k] = "indefinite"

\* detachSink(): a pending await keeps the IRQ object alive.
Detach(k) ==
  /\ k \in attached /\ driver[k] # "waiting"
  /\ attached' = attached \ {k}
  /\ \E a \in [attached \ {k} -> Answers] :
       Finish(IF Owes(k) THEN Answered([pin EXCEPT !.status[k] = "standBy"], a)
                         ELSE [pin EXCEPT !.status[k] = "standBy"],
              [driver EXCEPT ![k] = "gone"], unstall)

-----------------------------------------------------------------------------
(* The unstall coroutine.                                                  *)

\* _unstallEvent.async_wait_if(), and the test behind it.
UnstallPoll ==
  /\ unstall \in {"poll", "check"}
  /\ unstall' = IF "forNack" \in pin.maskState
                THEN (IF unstall = "poll" THEN "check" ELSE "timer")
                ELSE (IF unstall = "poll" THEN "asleep" ELSE "poll")
  /\ UNCHANGED <<strategy, pin, hwMasked, attached, driver, seen>>

\* The delay is over.
UnstallKick ==
  /\ unstall = "timer"
  /\ IF "forNack" \in pin.maskState
     THEN \E a \in [attached -> Answers] : Finish(Kicked(pin, a), driver, "poll")
     ELSE unstall' = "poll" /\ UNCHANGED <<strategy, pin, hwMasked, driver, seen>>
  /\ UNCHANGED attached

IrqNext ==
  \/ Raise \/ UnstallPoll \/ UnstallKick
  \/ \E k \in Sinks : \/ Attach(k) \/ SubmitAwait(k) \/ Answer(k) \/ Detach(k)
                     \/ \E wantClear \in BOOLEAN : Kick(k, wantClear)

IrqSpec == IrqInit /\ [][IrqNext]_irqVars

-----------------------------------------------------------------------------
\* _dueSinks counts the attached sinks that owe an answer, across late
\* answers, kicks, sinks that come and go, and buffered edges; out of service
\* nobody owes one.
DueSinksExact ==
  /\ pin.dueSinks = Cardinality({k \in attached : pin.status[k] = "indefinite"})
  /\ ~pin.inService => pin.dueSinks = 0

\* No assertion of irq.cpp fails.
NoAssertionFails == ~pin.failed

\* Whatever masks the line, or waits to be serviced again, ends with the
\* service that is under way: an idle line is open and owes no edge.
IdleLineOpen ==
  ~pin.inService => pin.maskState = {} /\ ~pin.raiseBuffered /\ ~hwMasked

\* A driver never sleeps through a raise: while an await is queued, the sink
\* has not been raised since the raise the driver saw.
NoMissedRaise ==
  \A k \in Sinks : driver[k] = "waiting" => seen[k] = pin.sequence[k]

\* "While the IRQ is in-service, IRQ handlers (of the same IRQ line) will not
\* be invoked again" (irqs.md): when handlers are invoked, at most the sink
\* that is answering in this very step owed an answer.  An answer counts only for
\* the raise it answers: a sink leaves the state indefinite by its driver's ACK or
\* NACK only if the driver saw that raise (kicks, and the end of the sink, aside).
AnswersMatch ==
  [][ /\ pin'.sequence # pin.sequence => pin.dueSinks <= 1
      /\ \A k \in Sinks : Answer(k) /\ pin' # pin => seen[k] = pin.sequence[k] ]_irqVars

\* The line is open and no edge is buffered (what has to hold again and again for
\* a maskable line: NACKed lines are retried, buffered edges serviced).
LineServed == ~hwMasked /\ ("maskable" \in strategy => ~pin.raiseBuffered)

\* irq.hpp on irq_strategy::maskable: "a line that cannot be held off must not
\* be stalled": a line that is not maskable and has a sink stays in service only
\* while some sink still owes an answer.
UnmaskableNotStalled ==
  "maskable" \notin strategy /\ attached # {} /\ pin.inService => pin.dueSinks > 0
=============================================================================
