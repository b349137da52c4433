----------------------------- MODULE Shootdown ------------------------------
(***************************************************************************)
(* Address space identifiers, TLB shootdown and the retirement of page     *)
(* spaces (kernel/thor/generic/asid.cpp, arch-generic/asid.hpp).           *)
(*                                                                         *)
(* Every CPU has some ASID bindings and one global binding.  What runs     *)
(* with interrupts disabled (activate() and the shootdown IPI) is a frame  *)
(* of its CPU; its steps interleave with those of other CPUs.  A critical  *)
(* section of PageSpace::mutex_ is one step.                               *)
(*                                                                         *)
(* A shoot node stands for its request and for the pages it names.  The    *)
(* TLB is the worst the hardware may do: a binding that is switched to     *)
(* caches every page that is still mapped at that moment.  Callers unmap   *)
(* pages before they call submitShootdown(); the pages count as mapped     *)
(* until that call, which can only leave more stale entries behind.        *)
(***************************************************************************)
EXTENDS Naturals, FiniteSets, Sequences, FiniteSetsExt

CONSTANTS Processors, \* CPUs
          Spaces,     \* page spaces of address spaces
          Kernel,     \* KernelPageSpace::global()
          Nodes,      \* shootdown requests, each made once
          Machines,   \* numbers of CPUs, ASIDs, spaces and requests to consider
          SelfIpi,    \* does sendShootdownIpi() also reach the sender?
          None        \* a null pointer

ASSUME SpacesAssumption == Kernel \notin Spaces /\ None \notin Spaces \cup {Kernel} \cup Nodes
ASSUME MachinesAssumption ==
  \A m \in Machines : /\ m.cpus \in 1 .. Cardinality(Processors) /\ m.slots \in Nat \ {0}
                     /\ m.spaces \in 0 .. Cardinality(Spaces)
                     /\ m.nodes \in 0 .. Cardinality(Nodes)
ASSUME IpiAssumption == SelfIpi \in BOOLEAN

VARIABLES
  node,     \* ShootNode: its request, its queue hook and its progress
  space,    \* PageSpace
  binding,  \* PageBinding, and what the TLB may hold for its ASID
  processor,      \* PageContext, the loaded page table, and the IPI on its way or pending
  frame     \* the code a CPU executes with interrupts disabled

asidVars == <<node, space, binding, processor, frame>>

AllSpaces == Spaces \cup {Kernel}
Slots == 1 .. Max({m.slots : m \in Machines})
Global == 0
Bindings == Slots \cup {Global}

NoFrame == [op |-> "none", phase |-> "none", b |-> Global, sp |-> None, after |-> 0,
            upTo |-> 0, cur |-> None, next |-> None, retire |-> FALSE]

Phases == {"none", "switch", "drop", "binding", "back", "scan", "load", "shoot",
           "erase", "complete", "finish"}

\* The type of every variable.
AsidTypeOK ==
  /\ node \in [Nodes -> [space : AllSpaces,
                         status : {"unused", "mapped", "queued", "erased", "done"},
                         seq : Nat, initiator : Processors \cup {None}, toShoot : Nat,
                         next : Nodes \cup {None}, prev : Nodes \cup {None}]]
  /\ space \in [AllSpaces -> [numBindings : Nat, shootSequence : Nat, tail : Nodes \cup {None},
                              retire : {"unused", "live", "waiting", "taken", "done"}]]
  /\ binding \in [Processors -> [Bindings -> [bound : AllSpaces \cup {None}, already : Nat,
                                        tlb : SUBSET Nodes]]]
  /\ processor \in [Processors -> [lru : Seq(Slots), primary : Slots \cup {None},
                       loaded : Slots \cup {None}, coming : BOOLEAN, ipi : BOOLEAN]]
  /\ frame \in [Processors -> [op : {"none", "activate", "shoot", "unbind"}, phase : Phases,
                         b : Bindings, sp : AllSpaces \cup {None}, after : Nat, upTo : Nat,
                         cur : Nodes \cup {None}, next : Nodes \cup {None},
                         retire : BOOLEAN]]

\* All CPUs of the machine are online and every space and request of it exists.
AsidInit ==
  \E m \in Machines :
  \E online \in kSubset(m.cpus, Processors), live \in kSubset(m.spaces, Spaces),
     made \in kSubset(m.nodes, Nodes) :
  \E about \in [Nodes -> live \cup {Kernel}] :
    /\ \A n \in Nodes \ made : about[n] = Kernel
    /\ node = [n \in Nodes |->
                [space |-> about[n], status |-> IF n \in made THEN "mapped" ELSE "unused",
                 seq |-> 0, initiator |-> None, toShoot |-> 0, next |-> None, prev |-> None]]
    /\ space = [s \in AllSpaces |->
                 [numBindings |-> IF s = Kernel THEN m.cpus ELSE 0, shootSequence |-> 0,
                  tail |-> None, retire |-> IF s \in live \cup {Kernel} THEN "live" ELSE "unused"]]
    /\ binding = [c \in Processors |-> [b \in Bindings |->
                   IF b = Global /\ c \in online
                   THEN [bound |-> Kernel, already |-> 0, tlb |-> {n \in made : about[n] = Kernel}]
                   ELSE [bound |-> None, already |-> 0, tlb |-> {}]]]
    /\ processor = [c \in Processors |->
               [lru |-> IF c \in online THEN [i \in 1 .. m.slots |-> i] ELSE <<>>,
                primary |-> None, loaded |-> None, coming |-> FALSE, ipi |-> FALSE]]
    /\ frame = [c \in Processors |-> NoFrame]

-----------------------------------------------------------------------------
\* Helpers.

Online == {c \in Processors : processor[c].lru # <<>>}

\* CPU c executes code that can be interrupted; a pending IPI comes first.
InterruptsOn(c) == c \in Online /\ frame[c].phase = "none" /\ ~processor[c].ipi

\* Continue in phase p.
GotoPhase(c, p) == frame' = [frame EXCEPT ![c].phase = p]

MappedPages(s) == {n \in Nodes : node[n].space = s /\ node[n].status = "mapped"}

\* Slot b becomes the most recently used one.
Touched(lru, b) == Append(SelectSeq(lru, LAMBDA i : i # b), b)

\* The binding is made primary and its page table is loaded.
SwitchTo(c, b) ==
  processor' = [processor EXCEPT ![c].lru = Touched(@, b), ![c].primary = b, ![c].loaded = b]

\* Mutant of OwnBindings: the initiator keeps its own bindings.
OwnBindingsNone(c, s) == {}

\* The bindings of this CPU that submitShootdown() shoots down at once.
OwnBindings(c, s) == {b \in Bindings : binding[c][b].bound = s}

\* sendShootdownIpi() on CPU c: the IPI is on its way to every target.
IpiTargets(c) == IF SelfIpi THEN Online ELSE Online \ {c}
SendShootdownIpi(c) ==
  processor' = [d \in Processors |-> IF d \in IpiTargets(c)
                                     THEN [processor[d] EXCEPT !.coming = TRUE] ELSE processor[d]]

\* frg::intrusive_rcu_list: an erased node keeps its own pointers, so that a
\* walker that stands on it still finds its way.
PushBack(n, s, rec) ==
  [m \in Nodes |->
    CASE m = n -> [rec EXCEPT !.prev = space[s].tail, !.next = None]
      [] m # n /\ m = space[s].tail -> [node[m] EXCEPT !.next = n]
      [] OTHER -> node[m]]

\* erase(): the neighbours point past the node.
UnlinkedNode(n) ==
  [m \in Nodes |->
    CASE m = n -> [node[m] EXCEPT !.status = "erased"]
      [] m # n /\ m \in {node[n].prev, node[n].next} ->
           [node[m] EXCEPT !.next = IF m = node[n].prev THEN node[n].next ELSE @,
                           !.prev = IF m = node[n].next THEN node[n].prev ELSE @]
      [] OTHER -> node[m]]

-----------------------------------------------------------------------------
\* Requests, from threads and fibers with interrupts enabled.

\* PageSpace::submitShootdown(); TRUE is returned if no binding is left to shoot.
Submit(c, n) ==
  LET s == node[n].space
      own == OwnBindings(c, s)
      unshot == space[s].numBindings - Cardinality(own)
  IN
  /\ InterruptsOn(c)
  /\ node[n].status = "mapped"
  /\ binding' = [binding EXCEPT ![c] = [b \in Bindings |->
                  IF b \in own THEN [binding[c][b] EXCEPT !.tlb = @ \ {n}] ELSE binding[c][b]]]
  /\ IF unshot = 0
     THEN /\ node' = [node EXCEPT ![n].status = "done"]
          /\ UNCHANGED <<space, processor>>
     ELSE /\ node' = PushBack(n, s, [node[n] EXCEPT !.status = "queued", !.initiator = c,
                                       !.seq = space[s].shootSequence + 1, !.toShoot = unshot])
          /\ space' = [space EXCEPT ![s].shootSequence = @ + 1, ![s].tail = n]
          /\ SendShootdownIpi(c)
  /\ UNCHANGED frame

\* No CPU is about to run a thread of space s: activate(s) is over everywhere.
NotActivating(s) ==
  \A c \in Processors : frame[c].op = "activate" =>
    s # (IF frame[c].phase = "switch" THEN frame[c].sp ELSE binding[c][frame[c].b].bound)

\* PageSpace::retire().  The last thread of the space is gone.
Retire(c, s) ==
  /\ InterruptsOn(c)
  /\ space[s].retire = "live"
  /\ NotActivating(s)
  /\ space' = [space EXCEPT ![s].retire = IF space[s].numBindings > 0 THEN "waiting" ELSE "done"]
  /\ SendShootdownIpi(c)
  /\ UNCHANGED <<node, binding, frame>>

\* The IPI arrives; a CPU latches one pending IPI.
ArriveIpi(c) ==
  /\ processor[c].coming
  /\ processor' = [processor EXCEPT ![c].coming = FALSE, ![c].ipi = TRUE]
  /\ UNCHANGED <<node, space, binding, frame>>

-----------------------------------------------------------------------------
\* PageSpace::activate(), with interrupts disabled.

\* The space is bound on this CPU already: PageBinding::rebind().
ActivateBound(c, s) ==
  /\ InterruptsOn(c)
  /\ space[s].retire = "live"
  /\ \E b \in Slots :
       /\ binding[c][b].bound = s
       /\ processor[c].primary # b
       /\ SwitchTo(c, b)
  /\ UNCHANGED <<node, space, binding, frame>>

\* Otherwise PageBinding::rebind(space) takes the least recently used binding:
\* the critical section of the new space.
ActivateUnbound(c, s) ==
  /\ InterruptsOn(c)
  /\ space[s].retire = "live"
  /\ \A b \in Slots : binding[c][b].bound # s
  /\ space' = [space EXCEPT ![s].numBindings = @ + 1]
  /\ frame' = [frame EXCEPT ![c] = [NoFrame EXCEPT !.op = "activate", !.phase = "switch",
                 !.b = Head(processor[c].lru), !.sp = s, !.after = space[s].shootSequence]]
  /\ UNCHANGED <<node, binding, processor>>

\* The binding takes the new space; its ASID is flushed and the table loaded.
SwitchToPageTable(c) ==
  LET f == frame[c]
      old == binding[c][f.b]
  IN
  /\ f.phase = "switch"
  /\ binding' = [binding EXCEPT ![c][f.b] =
                   [bound |-> f.sp, already |-> f.after, tlb |-> MappedPages(f.sp)]]
  /\ SwitchTo(c, f.b)
  /\ frame' = [frame EXCEPT ![c] =
                 IF old.bound = None THEN NoFrame
                 ELSE [f EXCEPT !.phase = "drop", !.sp = old.bound, !.after = old.already]]
  /\ UNCHANGED <<node, space>>

-----------------------------------------------------------------------------
\* The shootdown IPI: PageBinding::shootdown() of every binding in turn.

\* The frame of the IPI at the first binding from b on that is bound; the global
\* one comes last.
AtBinding(c, b) ==
  LET later == {i \in Slots : i >= b /\ binding[c][i].bound # None} IN
  [NoFrame EXCEPT !.op = "shoot", !.phase = "binding",
     !.b = IF later = {} THEN Global ELSE CHOOSE i \in later : \A j \in later : i <= j]

\* The frame of the IPI once binding b is dealt with.
NextBinding(c, b) == IF b = Global THEN NoFrame ELSE AtBinding(c, b + 1)

TakeIpi(c) ==
  /\ frame[c].phase = "none"
  /\ processor[c].ipi
  /\ processor' = [processor EXCEPT ![c].ipi = FALSE]
  /\ frame' = [frame EXCEPT ![c] = AtBinding(c, 1)]
  /\ UNCHANGED <<node, space, binding>>

Draining(f) == f.op # "shoot"

\* The node is one that the walk still has to process.
Unprocessed(n, f) == n # None /\ node[n].seq > f.after

\* The frame when the walk is over: doShootdown_() has nothing left to do.
WalkOver(c, f) ==
  IF Draining(f) THEN [f EXCEPT !.phase = "finish", !.cur = None] ELSE NextBinding(c, f.b)

\* The walk begins at the back of the queue, unless nothing is left to do.
AtBack(c, f) ==
  LET n == space[f.sp].tail IN
  IF Unprocessed(n, f) THEN [f EXCEPT !.phase = "scan", !.cur = n] ELSE WalkOver(c, f)

WantToRetire(s) == space[s].retire # "live"

\* What unbind() does to the hardware: the ASID is flushed, and the CPU leaves
\* the page table if this binding is the primary one.
FlushAsid(c, b) ==
  /\ binding' = [binding EXCEPT ![c][b].tlb = {}]
  /\ processor' = [processor EXCEPT ![c].loaded = IF processor[c].primary = b THEN None ELSE @]

\* shootdown() of a bound binding: the space retires, or its queue is walked.
ShootBinding(c) ==
  LET f == frame[c]
      bd == binding[c][f.b]
  IN
  /\ f.phase = "binding"
  /\ \/ /\ WantToRetire(bd.bound)
        /\ FlushAsid(c, f.b)
        /\ frame' = [frame EXCEPT ![c] = [f EXCEPT !.op = "unbind", !.phase = "drop",
                                            !.sp = bd.bound, !.after = bd.already]]
     \/ /\ ~WantToRetire(bd.bound)
        /\ frame' = [frame EXCEPT ![c] = AtBack(c, [f EXCEPT !.sp = bd.bound, !.after = bd.already])]
        /\ UNCHANGED <<binding, processor>>
  /\ UNCHANGED <<node, space>>

-----------------------------------------------------------------------------
\* The critical section in which rebind() and unbind() give up space sp.

\* Mutant of TakesRetireNode: the first binding to go takes the node.
TakesRetireNodeEarly(s) == space[s].retire = "waiting"

\* Does this binding take the retire node with it?
TakesRetireNode(s) == space[s].numBindings = 1 /\ space[s].retire = "waiting"

Drop(c) ==
  LET f == frame[c] IN
  /\ f.phase = "drop"
  /\ space' = [space EXCEPT ![f.sp].numBindings = @ - 1,
                            ![f.sp].retire = IF TakesRetireNode(f.sp) THEN "taken" ELSE @]
  /\ frame' = [frame EXCEPT ![c] = [f EXCEPT !.phase = "back", !.retire = TakesRetireNode(f.sp),
                                      !.upTo = space[f.sp].shootSequence]]
  /\ UNCHANGED <<node, binding, processor>>

-----------------------------------------------------------------------------
\* doShootdown_() (op "shoot") and drainShootdown_() (the others): backward to
\* the first unprocessed node, then forward.

ReadBack(c) ==
  LET f == frame[c] IN
  /\ f.phase = "back"
  /\ frame' = [frame EXCEPT ![c] = AtBack(c, f)]
  /\ UNCHANGED <<node, space, binding, processor>>

ReadPrevious(c) ==
  LET f == frame[c]
      n == node[f.cur].prev
  IN
  /\ f.phase = "scan"
  /\ frame' = [frame EXCEPT ![c] = IF Unprocessed(n, f)
                                   THEN [f EXCEPT !.cur = n]
                                   ELSE [f EXCEPT !.phase = "load"]]
  /\ UNCHANGED <<node, space, binding, processor>>

\* The frame after node f.cur, whose successor was read as next.
Advanced(c, f, next) ==
  IF next = None THEN WalkOver(c, [f EXCEPT !.next = None])
  ELSE [f EXCEPT !.phase = "load", !.after = node[f.cur].seq, !.cur = next, !.next = None]

\* alreadyShotSequence_ follows the walk of doShootdown_().
AlreadyShot(c, f) ==
  IF Draining(f) THEN binding
  ELSE [binding EXCEPT ![c][f.b].already = node[f.cur].seq]

\* Mutant of BeyondRange: later requests are counted down, too.
BeyondRangeNever(f) == FALSE

\* drainShootdown_() stops at requests made after the binding was given up.
BeyondRange(f) == Draining(f) /\ node[f.cur].seq > f.upTo

\* This CPU has invalidated the pages of its own requests synchronously.
ShotByInitiator(c, n) == node[n].initiator = c

ReadNext(c) ==
  LET f == frame[c]
      n == node[f.cur].next
  IN
  /\ f.phase = "load"
  /\ \/ /\ BeyondRange(f)
        /\ frame' = [frame EXCEPT ![c] = WalkOver(c, f)]
        /\ UNCHANGED binding
     \/ /\ ~BeyondRange(f) /\ ShotByInitiator(c, f.cur)
        /\ frame' = [frame EXCEPT ![c] = Advanced(c, f, n)]
        /\ binding' = AlreadyShot(c, f)
     \/ /\ ~BeyondRange(f) /\ ~ShotByInitiator(c, f.cur)
        /\ frame' = [frame EXCEPT ![c] = [f EXCEPT !.phase = "shoot", !.next = n]]
        /\ UNCHANGED binding
  /\ UNCHANGED <<node, space, processor>>

\* Mutant of Invalidated: nothing is invalidated.
InvalidatedNot(c, f) == binding

\* The TLB entries that a walk removes: drainShootdown_() need not remove any.
Invalidated(c, f) ==
  IF Draining(f) THEN binding ELSE [binding EXCEPT ![c][f.b].tlb = @ \ {f.cur}]

Shoot(c) ==
  LET f == frame[c]
      last == node[f.cur].toShoot = 1
  IN
  /\ f.phase = "shoot"
  /\ node' = [node EXCEPT ![f.cur].toShoot = @ - 1]
  /\ frame' = [frame EXCEPT ![c] = IF last THEN [f EXCEPT !.phase = "erase"] ELSE Advanced(c, f, f.next)]
  /\ binding' = [Invalidated(c, f) EXCEPT ![c][f.b].already =
                   IF last \/ Draining(f) THEN @ ELSE node[f.cur].seq]
  /\ UNCHANGED <<space, processor>>

Erase(c) ==
  LET f == frame[c] IN
  /\ f.phase = "erase"
  /\ node' = UnlinkedNode(f.cur)
  /\ space' = [space EXCEPT ![f.sp].tail = IF @ = f.cur THEN node[f.cur].prev ELSE @]
  /\ GotoPhase(c, "complete")
  /\ UNCHANGED <<binding, processor>>

\* ShootNode::complete() posts the worklet, which resumes the waiter and passes
\* the node to submitRcu().
CompleteNode(c) ==
  LET f == frame[c] IN
  /\ f.phase = "complete"
  /\ node' = [node EXCEPT ![f.cur].status = "done"]
  /\ binding' = AlreadyShot(c, f)
  /\ frame' = [frame EXCEPT ![c] = Advanced(c, f, f.next)]
  /\ UNCHANGED <<space, processor>>

\* The end of rebind() and unbind().
Finish(c) ==
  LET f == frame[c] IN
  /\ f.phase = "finish"
  /\ space' = [space EXCEPT ![f.sp].retire = IF f.retire THEN "done" ELSE @]
  /\ binding' = IF f.op = "unbind"
                THEN [binding EXCEPT ![c][f.b].bound = None, ![c][f.b].already = 0]
                ELSE binding
  /\ frame' = [frame EXCEPT ![c] = IF f.op = "activate" THEN NoFrame ELSE NextBinding(c, f.b)]
  /\ UNCHANGED <<node, processor>>

-----------------------------------------------------------------------------
\* The specification.

\* What CPU c does with interrupts disabled.
FrameStep(c) ==
  \/ SwitchToPageTable(c) \/ ShootBinding(c) \/ Drop(c)
  \/ ReadBack(c) \/ ReadPrevious(c) \/ ReadNext(c)
  \/ Shoot(c) \/ Erase(c) \/ CompleteNode(c) \/ Finish(c)

AsidNext ==
  \/ \E c \in Processors, n \in Nodes : Submit(c, n)
  \/ \E c \in Processors, s \in Spaces : Retire(c, s) \/ ActivateBound(c, s) \/ ActivateUnbound(c, s)
  \/ \E c \in Processors : ArriveIpi(c) \/ TakeIpi(c) \/ FrameStep(c)

AsidSpec == AsidInit /\ [][AsidNext]_asidVars

\* An IPI arrives, is taken when the CPU enables interrupts, and a CPU finishes
\* what it does with interrupts disabled.
AsidFairSpec ==
  /\ AsidSpec
  /\ \A c \in Processors : /\ WF_asidVars(ArriveIpi(c)) /\ WF_asidVars(TakeIpi(c))
                           /\ WF_asidVars(FrameStep(c))

-----------------------------------------------------------------------------
\* Properties.

\* Once a shootdown has completed, no TLB of any CPU holds a translation that
\* it was meant to remove.  Callers of shootdown() free the pages then.
NoStaleTranslation ==
  \A n \in Nodes : node[n].status = "done" =>
    \A c \in Processors, b \in Bindings : n \notin binding[c][b].tlb

\* What is freed cannot be reached any more.  Once PageSpace::retire() has completed
\* no CPU runs on the page table and no TLB holds anything of the space.  A walk that
\* begins after a request has completed cannot reach its node: it is off the queue,
\* and a grace period between completion and destruction does the rest.
FreedUnreachable ==
  /\ \A s \in Spaces : space[s].retire = "done" =>
       \A c \in Processors :
         /\ processor[c].loaded # None => binding[c][processor[c].loaded].bound # s
         /\ \A b \in Bindings : \A n \in binding[c][b].tlb : node[n].space # s
  /\ \A s \in AllSpaces : space[s].tail # None => node[space[s].tail].status # "done"
  /\ \A n \in Nodes : node[n].status = "queued" =>
       \A m \in {node[n].next, node[n].prev} \ {None} : node[m].status # "done"

\* Does the binding owe a decrement of bindingsToShoot_ to the queued node n?
Owes(c, b, n) ==
  LET f == frame[c]
      bd == binding[c][b]
      here == f.phase # "none" /\ f.b = b
      giving == here /\ f.op # "shoot" /\ f.phase \notin {"switch", "binding"}
      pending == here /\ f.phase \in {"erase", "complete"} /\ f.cur = n
  IN
  /\ node[n].initiator # c
  /\ ~pending
  /\ \/ bd.bound = node[n].space /\ node[n].seq > bd.already /\ ~(giving /\ f.op = "unbind")
     \/ /\ giving /\ f.sp = node[n].space /\ node[n].seq > f.after
        /\ f.phase # "drop" => node[n].seq <= f.upTo
        /\ f.phase # "finish"
     \/ here /\ f.phase = "switch" /\ f.sp = node[n].space /\ node[n].seq > f.after

\* bindingsToShoot_ of a queued request is exactly the number of bindings that
\* will still count it down, whatever was bound, unbound or rebound since: it
\* neither reaches zero early nor stays above zero for ever.
CountExact ==
  \A n \in Nodes : node[n].status = "queued" =>
    node[n].toShoot = Cardinality({p \in Processors \X Bindings : Owes(p[1], p[2], n)})

\* Every request that is waited for completes, "Waits for all CPUs to perform the
\* shootdown", and a retired space is unbound everywhere and its retirement completes:
\* "Waits for all bindings to unbind from it before completing" (asid.hpp).
ShootdownProgress ==
  /\ \A n \in Nodes : []<>(node[n].status # "queued")
  /\ \A s \in Spaces : []<>(space[s].retire # "waiting")
=============================================================================
