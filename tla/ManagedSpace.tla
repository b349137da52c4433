---------------------------- MODULE ManagedSpace ----------------------------
(***************************************************************************)
(* The page cache of thor (kernel/thor/generic/memory-view.cpp): the pages *)
(* of one ManagedSpace, either the cache of a file (FrontalMemory and      *)
(* BackingMemory) or a SwapSpace (SwappableMemory).  A page moves between  *)
(* the transactions of TxState while                                       *)
(*   - page faults map it and unmapping, ageing and msync() revoke it,     *)
(*   - the kernel copies to and from it under a page lock,                 *)
(*   - the reclaim loop takes clean pages away, the drain loop hands dirty *)
(*     ones to the user-space driver, which fills and saves them,          *)
(*   - writebackFence(), invalidateRange() and discardPage() are called.   *)
(*                                                                         *)
(* One critical section of ManagedSpace::mutex is one step.  "unsaved"     *)
(* stands for the contents: memory differs from the backing store's copy.  *)
(* A transaction monitor is one-shot, so it is enough to know who waits    *)
(* for the page's current one ("awaiting") and who waits for one that was  *)
(* replaced without being raised ("orphaned").                             *)
(***************************************************************************)
EXTENDS Naturals, FiniteSets, Sequences

CONSTANTS
  Pages,
  Mappings,       \* Mapping objects, each with one page table entry
  Copiers,        \* callers of MemoryView::copyTo() and copyFrom()
  Settings,       \* which of these take part, and how: the initial states
  NoPage,
  LateWrites,     \* a CPU writes through a TLB entry until it is shot down
  InvalidateDirty \* invalidateRange() is called on pages that wait for the drain

ASSUME ManagedAssumption ==
  /\ NoPage \notin Pages
  /\ LateWrites \in BOOLEAN /\ InvalidateDirty \in BOOLEAN
  /\ \A s \in Settings :
       /\ s.pages \subseteq Pages /\ s.maps \subseteq Mappings /\ s.copies \subseteq Copiers
       /\ \A f \in {"swap", "readahead", "fences", "invalidates", "detached"} : s[f] \in BOOLEAN

VARIABLES
  setting,
  page,        \* ManagedPage and CachePage, with the lists that link the page
  unsaved,
  mapper,      \* the page table entry, TLB entry and the threads of a mapping
  copier,
  reclaimer,   \* _runReclaimLoop()
  drain,       \* _runDrainLoop()
  posts,       \* EvictionQueue: how far each mapping is with each kind of eviction
  polls,       \* _managementQueue: pollNotification() calls that wait
  asked,       \* the pages of _writebackList and _initializationList, oldest first
  job,         \* what the driver does about the page's notification
  fence,       \* a caller of writebackFence()
  invalidator, \* a caller of invalidateRange()
  awaiting, orphaned,
  budget, drainBlocked

loops == <<reclaimer, drain>>
driverVars == <<polls, asked, job>>
callers == <<fence, invalidator>>
monitors == <<awaiting, orphaned>>
swapVars == <<budget, drainBlocked>>
managedVars == <<setting, page, unsaved, mapper, copier, reclaimer, drain, posts, polls, asked, job,
                 fence, invalidator, awaiting, orphaned, budget, drainBlocked>>

FreshPage ==
  [load |-> "missing", tx |-> "none", lists |-> {}, frame |-> FALSE, monitor |-> FALSE,
   stillDirty |-> FALSE, force |-> FALSE, copyValid |-> FALSE, discarded |-> FALSE,
   claimed |-> FALSE, relisted |-> FALSE, locks |-> 0, uses |-> 0]

Evictions == {"fenceEphemeral", "fenceDirty", "breakRange"}

ManagedInit ==
  /\ setting \in Settings
  /\ page = [p \in Pages |-> FreshPage]
  /\ unsaved = [p \in Pages |-> FALSE]
  /\ mapper = [m \in Mappings |-> [pc |-> "idle", pg |-> NoPage, pte |-> "none", tlb |-> "none",
                                   revoke |-> "none"]]
  /\ copier = [k \in Copiers |-> [pc |-> "idle", pg |-> NoPage]]
  /\ reclaimer = [pc |-> "awake", batch |-> {}, discards |-> {}, dirty |-> FALSE, queued |-> FALSE]
  /\ drain = [pc |-> "awake", pending |-> {}]
  /\ posts = [e \in Evictions |-> [m \in Mappings |-> "done"]]
  /\ polls = 0 /\ asked = <<>> /\ job = [p \in Pages |-> "none"]
  /\ fence = [pc |-> "idle", pg |-> NoPage, from |-> "none", owed |-> FALSE]
  /\ invalidator = [pc |-> "idle", pg |-> NoPage]
  /\ awaiting = {} /\ orphaned = {}
  /\ budget = 0 /\ drainBlocked = FALSE

-----------------------------------------------------------------------------
(* What the critical sections do to one page. *)

Held(pg) == pg.locks > 0 \/ pg.uses > 0

Linked(pg, list) == [pg EXCEPT !.lists = @ \cup {list}]
Unlinked(pg, list) == [pg EXCEPT !.lists = @ \ {list}]

\* MemoryReclaimer::addPage() and removePage().  A page is in a generation's
\* list or, once it was posted, in the bundle's reclaim list.
AddPage(pg) == Linked([pg EXCEPT !.tx = "inReclaimer"], "generation")
RemovePage(pg) == Unlinked(Unlinked(pg, "generation"), "reclaim")

\* The end of a transaction: the page goes to the reclaimer unless it is used.
Settled(pg) == IF Held(pg) THEN [pg EXCEPT !.tx = "none"] ELSE AddPage(pg)

\* Mutant of Averted: the reclamation goes on.
AvertedNot(pg) == pg
Averted(pg) == IF pg.tx = "performReclaim" THEN [pg EXCEPT !.tx = "avertReclaim"] ELSE pg

\* The first lock or use takes the page away from the reclaimer.
Pinned(pg) ==
  IF pg.load = "present" /\ pg.tx = "inReclaimer" THEN [RemovePage(pg) EXCEPT !.tx = "none"]
  ELSE Averted(pg)

WithLock(pg) ==
  LET locked == [pg EXCEPT !.locks = @ + 1] IN IF pg.locks = 0 THEN Pinned(locked) ELSE locked
WithUse(pg) ==
  LET used == [pg EXCEPT !.uses = @ + 1] IN IF pg.uses = 0 THEN Pinned(used) ELSE used

\* _disposeDiscarded(): an unused page is erased or queued for the reclaim loop.
Erased(pg) == [pg EXCEPT !.tx = "erased", !.frame = FALSE, !.load = "missing", !.claimed = FALSE]
Disposed(pg) ==
  IF Held(pg) THEN pg
  ELSE IF pg.frame THEN Linked([pg EXCEPT !.tx = "discardQueued"], "discard")
  ELSE Erased(pg)

\* The end of unlockPages() and decrementUses() once nothing uses the page.
Released(pg) ==
  IF Held(pg) \/ pg.tx # "none" THEN pg
  ELSE IF pg.discarded THEN Disposed(pg)
  ELSE IF pg.load = "present" THEN AddPage(pg) ELSE pg

WithoutLock(pg) == Released([pg EXCEPT !.locks = @ - 1])
WithoutUse(pg) == Released([pg EXCEPT !.uses = @ - 1])

\* Zero-filling a page that was never swapped out; bumping or averting one that is there.
Bumped(pg) ==
  IF pg.tx = "inReclaimer" THEN Linked(Unlinked(pg, "reclaim"), "generation") ELSE Averted(pg)
ZeroFilled(pg) ==
  LET filled == [pg EXCEPT !.frame = TRUE, !.load = "present"]
  IN  IF Held(filled) THEN filled ELSE AddPage(filled)

Requested(pg) == Linked([pg EXCEPT !.tx = "wantInitialization", !.monitor = TRUE], "initialization")

\* markDirty() on one page.  Discarded data does not enter writeback again.
Dirtied(pg) ==
  IF pg.load = "missing" \/ pg.discarded THEN pg
  ELSE CASE pg.tx \in {"none", "inReclaimer"} ->
              Linked([RemovePage(pg) EXCEPT !.copyValid = FALSE, !.tx = "dirty"], "dirty")
         [] pg.tx \in {"performReclaim", "avertReclaim"} ->
              [pg EXCEPT !.copyValid = FALSE, !.tx = "avertReclaim", !.stillDirty = TRUE]
         [] pg.tx = "writeback" -> [pg EXCEPT !.copyValid = FALSE, !.stillDirty = TRUE]
         [] OTHER -> [pg EXCEPT !.copyValid = FALSE]

-----------------------------------------------------------------------------
(* Events, monitors and notifications. *)

Woken(loop) == IF loop.pc = "asleep" THEN [loop EXCEPT !.pc = "awake"] ELSE loop
WokenIf(loop, raised) == IF raised THEN Woken(loop) ELSE loop

\* A page changes under the mutex; _discardEvent is raised if it was queued for
\* discarding and _dirtyEvent if its entry was erased, which returns its budget.
Replace(p, new) ==
  /\ page' = [page EXCEPT ![p] = new]
  /\ reclaimer' = WokenIf(reclaimer, "discard" \in new.lists \ page[p].lists)
  /\ drain' = WokenIf(drain, new.tx = "erased")
  /\ drainBlocked' = (drainBlocked /\ (page[p].claimed => new.claimed))

\* While the drain waits for swap budget, only a page that holds budget wakes it.
MarkDirty(p) ==
  LET new == Dirtied(page[p])
      rings == /\ "dirty" \in new.lists \ page[p].lists
               /\ ~drainBlocked \/ new.claimed
  IN  /\ page' = [page EXCEPT ![p] = new]
      /\ drain' = WokenIf(drain, rings)
      /\ drainBlocked' = (drainBlocked /\ ~rings)
      /\ UNCHANGED reclaimer

WaitersOf(p) == {w \in awaiting : w[2] = p}
Waits(w) == w \in orphaned \/ \E p \in Pages : <<w, p>> \in awaiting
RaiseMonitors(ps) == awaiting' = {w \in awaiting : w[2] \notin ps} /\ UNCHANGED orphaned

\* The driver's lists after a step: what is still listed, then what is new.
Lists(pages) ==
  LET listed == {p \in Pages : pages[p].lists \cap {"writeback", "initialization"} # {}}
      old == SelectSeq(asked, LAMBDA p : p \in listed)
      new == listed \ {asked[i] : i \in DOMAIN asked}
  IN  {old \o s : s \in {t \in [1 .. Cardinality(new) -> new] : \A p \in new : \E i \in DOMAIN t : t[i] = p}}

\* _progressManagement(): a waiting poll gets a request for adjacent pages, here
\* any number of them from the front; writeback comes before initialization.
\* Mutant of Progress: a poll that waits already is not looked at.
ProgressNot(pages, waiting) == page' = pages /\ polls' = waiting /\ asked' \in Lists(pages) /\ UNCHANGED job
Progress(pages, waiting) ==
  \E all \in Lists(pages) :
    LET listed(list) == SelectSeq(all, LAMBDA p : list \in pages[p].lists)
        list == IF listed("writeback") # <<>> THEN "writeback" ELSE "initialization"
    IN  IF waiting = 0 \/ listed(list) = <<>>
        THEN page' = pages /\ polls' = waiting /\ asked' = all /\ UNCHANGED job
        ELSE \E count \in 1 .. Len(listed(list)) :
               LET fused == {listed(list)[i] : i \in 1 .. count} IN
               /\ page' = [p \in Pages |-> IF p \in fused
                             THEN [Unlinked(pages[p], list) EXCEPT !.tx = list, !.relisted = FALSE]
                             ELSE pages[p]]
               /\ polls' = waiting - 1
               /\ asked' = SelectSeq(all, LAMBDA p : p \notin fused)
               /\ job' = [p \in Pages |-> IF p \in fused THEN "notified" ELSE job[p]]

\* touchRange() of FrontalMemory and SwappableMemory on behalf of w, which goes on
\* at once if the page is there (or can be zero-filled) and waits otherwise.
\* Readahead requests the other pages, too.
Touch(w, p) ==
  LET pg == page[p]
      wanted == {q \in setting.pages : /\ q = p \/ setting.readahead
                                       /\ page[q].load = "missing" /\ page[q].tx = "none"}
  IN  \/ /\ pg.load = "present"
         /\ page' = [page EXCEPT ![p] = Bumped(pg)]
         /\ UNCHANGED <<driverVars, monitors>>
      \/ /\ pg.load = "missing" /\ setting.swap /\ ~pg.copyValid
         /\ page' = [page EXCEPT ![p] = ZeroFilled(pg)]
         /\ UNCHANGED <<driverVars, monitors>>
      \/ /\ pg.load = "missing" /\ (setting.swap => pg.copyValid)
         /\ Progress([q \in Pages |-> IF q \in wanted THEN Requested(page[q]) ELSE page[q]], polls)
         /\ awaiting' = awaiting \cup {<<w, p>>} /\ UNCHANGED orphaned

-----------------------------------------------------------------------------
(* A mapping: faults, accesses through the TLB, revocation, evictions. *)

Exposes(m) == mapper[m].pc = "exposed"
Revokes(m) == mapper[m].revoke # "none" \/ Exposes(m)

FaultTouch(m, p) ==
  /\ m \in setting.maps /\ p \in setting.pages /\ ~page[p].discarded
  /\ mapper[m].pc = "idle" /\ mapper[m].pte = "none"
  /\ mapper[m].revoke = "none" \/ p = mapper[m].pg
  /\ mapper' = [mapper EXCEPT ![m].pc = "fetch", ![m].pg = p]
  /\ Touch(m, p)
  /\ UNCHANGED <<setting, unsaved, copier, loops, posts, callers, swapVars>>

\* faultPageByCursor() in an exposeRcu and a revokeRcu section: peekRange() ...
FaultPeek(m) ==
  LET p == mapper[m].pg IN
  /\ mapper[m].pc = "fetch" /\ ~Waits(m)
  /\ \/ /\ page[p].load = "missing"
        /\ mapper' = [mapper EXCEPT ![m].pc = "idle"]
        /\ UNCHANGED page
     \/ /\ page[p].load = "present"
        /\ mapper' = [mapper EXCEPT ![m].pc = "exposed"]
        /\ page' = [page EXCEPT ![p] = Averted(page[p])]
  /\ UNCHANGED <<setting, unsaved, copier, loops, posts, driverVars, callers, monitors, swapVars>>

\* ... then incrementUses() and the page table entry.
FaultMap(m) ==
  LET p == mapper[m].pg IN
  /\ Exposes(m)
  /\ mapper' = [mapper EXCEPT ![m].pc = "idle", ![m].pte = "clean"]
  /\ page' = [page EXCEPT ![p] = WithUse(page[p])]
  /\ UNCHANGED <<setting, unsaved, copier, loops, posts, driverVars, callers, monitors, swapVars>>

\* The hardware: a read loads the TLB.  A write through an entry that is cached
\* as dirty does not look at the page table.
AccessMapped(m) ==
  /\ \/ /\ mapper[m].pte # "none" /\ mapper[m].tlb = "none"
        /\ mapper' = [mapper EXCEPT ![m].tlb = mapper[m].pte]
        /\ UNCHANGED unsaved
     \/ /\ mapper[m].pte # "none" /\ mapper[m].tlb # "dirty"
        /\ mapper' = [mapper EXCEPT ![m].pte = "dirty", ![m].tlb = "dirty"]
        /\ unsaved' = [unsaved EXCEPT ![mapper[m].pg] = TRUE]
     \/ /\ mapper[m].tlb = "dirty" /\ (mapper[m].pte = "dirty" \/ LateWrites)
        /\ unsaved' = [unsaved EXCEPT ![mapper[m].pg] = TRUE]
        /\ UNCHANGED mapper
  /\ UNCHANGED <<setting, page, copier, loops, posts, driverVars, callers, monitors, swapVars>>

\* unmapPagesByCursor(), agePagesByCursor() and cleanPagesByCursor() in a revokeRcu
\* section that ends after the shootdown: change the entry, then mark the page
\* dirty, then drop its use.
\* Mutant of AfterClear: the use is dropped without marking the page.
AfterClearUnmarked(pte, unmap) == IF unmap THEN "drop" ELSE "mark"
AfterClear(pte, unmap) == IF pte = "dirty" THEN (IF unmap THEN "mark and drop" ELSE "mark") ELSE "drop"

RevokeStart(m, unmap) ==
  /\ mapper[m].revoke = "none"
  /\ mapper[m].pte \in (IF unmap THEN {"clean", "dirty"} ELSE {"dirty"})
  /\ mapper' = [mapper EXCEPT ![m].pte = IF unmap THEN "none" ELSE "clean",
                              ![m].revoke = AfterClear(mapper[m].pte, unmap)]

Revoke(m) ==
  /\ \E unmap \in BOOLEAN : RevokeStart(m, unmap)
  /\ UNCHANGED <<setting, page, unsaved, copier, loops, posts, driverVars, callers, monitors, swapVars>>

RevokeMark(m) ==
  /\ mapper[m].revoke \in {"mark", "mark and drop"}
  /\ mapper' = [mapper EXCEPT ![m].revoke = IF @ = "mark" THEN "shootdown" ELSE "drop"]
  /\ MarkDirty(mapper[m].pg)
  /\ UNCHANGED <<setting, unsaved, copier, posts, driverVars, callers, monitors, budget>>

RevokeDrop(m) ==
  /\ mapper[m].revoke = "drop"
  /\ mapper' = [mapper EXCEPT ![m].revoke = "shootdown"]
  /\ Replace(mapper[m].pg, WithoutUse(page[mapper[m].pg]))
  /\ UNCHANGED <<setting, unsaved, copier, posts, driverVars, callers, monitors, budget>>

RevokeShootdown(m) ==
  /\ mapper[m].revoke = "shootdown"
  /\ mapper' = [mapper EXCEPT ![m].revoke = "none", ![m].tlb = "none"]
  /\ UNCHANGED <<setting, page, unsaved, copier, loops, posts, driverVars, callers, monitors, swapVars>>

\* runEvictionLoop(): a fence waits for exposeRcu and revokeRcu sections, breakRange
\* also unmaps in between.  A barrier ends once it saw the mapping outside of the
\* sections it waits for.
\* Mutant of FirstStage: the fence does not wait for exposed pages.
FirstStageRevoke(e) == "revoke"
FirstStage(e) == IF e = "fenceDirty" THEN "revoke" ELSE "expose"

Posted(e) == posts' = [posts EXCEPT ![e] = [m \in Mappings |-> IF m \in setting.maps THEN FirstStage(e) ELSE "done"]]
Acked(e) == \A m \in Mappings : posts[e][m] = "done"

Evict(m, e) ==
  /\ \/ /\ posts[e][m] = "expose" /\ ~Exposes(m)
        /\ posts' = [posts EXCEPT ![e][m] = IF e = "breakRange" THEN "unmap" ELSE "revoke"]
        /\ UNCHANGED mapper
     \/ /\ posts[e][m] = "unmap"
        /\ IF mapper[m].pte # "none" /\ mapper[m].pg = invalidator.pg
           THEN RevokeStart(m, TRUE) ELSE UNCHANGED mapper
        /\ posts' = [posts EXCEPT ![e][m] = "revoke"]
     \/ /\ posts[e][m] = "revoke" /\ ~Revokes(m)
        /\ posts' = [posts EXCEPT ![e][m] = "done"]
        /\ UNCHANGED mapper
  /\ UNCHANGED <<setting, page, unsaved, copier, loops, driverVars, callers, monitors, swapVars>>

-----------------------------------------------------------------------------
(* MemoryView::copyTo() and copyFrom(). *)

CopyStep(k, from, to) ==
  /\ copier[k].pc = from
  /\ copier' = [copier EXCEPT ![k].pc = to]

CopyLock(k, p) ==
  /\ k \in setting.copies /\ p \in setting.pages /\ ~page[p].discarded
  /\ copier[k].pc = "idle"
  /\ copier' = [copier EXCEPT ![k] = [pc |-> "locked", pg |-> p]]
  /\ page' = [page EXCEPT ![p] = WithLock(page[p])]
  /\ UNCHANGED <<setting, unsaved, mapper, loops, posts, driverVars, callers, monitors, swapVars>>

CopyTouch(k) ==
  /\ CopyStep(k, "locked", "fetch")
  /\ Touch(k, copier[k].pg)
  /\ UNCHANGED <<setting, unsaved, mapper, loops, posts, callers, swapVars>>

\* peekRange(), which finds a page, and the copy in one or the other direction.
CopyData(k) ==
  LET p == copier[k].pg IN
  /\ copier[k].pc = "fetch" /\ ~Waits(k)
  /\ page' = [page EXCEPT ![p] = IF page[p].load = "present" THEN Averted(page[p]) ELSE page[p]]
  /\ \/ CopyStep(k, "fetch", "written") /\ unsaved' = [unsaved EXCEPT ![p] = TRUE]
     \/ CopyStep(k, "fetch", "copied") /\ UNCHANGED unsaved
  /\ UNCHANGED <<setting, mapper, loops, posts, driverVars, callers, monitors, swapVars>>

CopyMark(k) ==
  /\ CopyStep(k, "written", "copied")
  /\ MarkDirty(copier[k].pg)
  /\ UNCHANGED <<setting, unsaved, mapper, posts, driverVars, callers, monitors, budget>>

CopyUnlock(k) ==
  /\ CopyStep(k, "copied", "idle")
  /\ Replace(copier[k].pg, WithoutLock(page[copier[k].pg]))
  /\ UNCHANGED <<setting, unsaved, mapper, posts, driverVars, callers, monitors, budget>>

-----------------------------------------------------------------------------
(* Reclamation. *)

\* rotateGenerations_() posts the pages of the oldest generation.
Rotate(p) ==
  /\ "generation" \in page[p].lists
  /\ page' = [page EXCEPT ![p] = Linked(Unlinked(page[p], "generation"), "reclaim")]
  /\ reclaimer' = Woken(reclaimer)
  /\ UNCHANGED <<setting, unsaved, mapper, copier, drain, posts, driverVars, callers, monitors, swapVars>>

ReclaimCollect ==
  LET batch == {p \in Pages : "reclaim" \in page[p].lists}
      discards == {p \in Pages : "discard" \in page[p].lists}
  IN  /\ reclaimer.pc = "awake"
      /\ IF batch \cup discards = {}
         THEN reclaimer' = [reclaimer EXCEPT !.pc = "asleep"] /\ UNCHANGED <<page, posts>>
         ELSE /\ reclaimer' = [pc |-> "fence", batch |-> batch, discards |-> discards,
                               dirty |-> FALSE, queued |-> FALSE]
              /\ page' = [p \in Pages |->
                   CASE p \in batch -> [RemovePage(page[p]) EXCEPT !.tx = "performReclaim"]
                     [] p \in discards -> Unlinked(page[p], "discard")
                     [] OTHER -> page[p]]
              /\ Posted("fenceEphemeral")
      /\ UNCHANGED <<setting, unsaved, mapper, copier, drain, driverVars, callers, monitors, swapVars>>

ReclaimFenced ==
  /\ reclaimer.pc = "fence" /\ Acked("fenceEphemeral")
  /\ reclaimer' = [reclaimer EXCEPT !.pc = "batch"]
  /\ UNCHANGED <<setting, page, unsaved, mapper, copier, drain, posts, driverVars, callers, monitors, swapVars>>

\* What becomes of a page after the fence: a frame is freed unless it was averted.
Reclaimed(pg) ==
  IF pg.discarded THEN Disposed([pg EXCEPT !.stillDirty = FALSE, !.tx = "none"])
  ELSE IF pg.tx = "avertReclaim"
  THEN IF pg.stillDirty THEN Linked([pg EXCEPT !.stillDirty = FALSE, !.tx = "dirty"], "dirty")
       ELSE Settled(pg)
  ELSE [pg EXCEPT !.load = "missing", !.tx = "none", !.frame = FALSE,
                  !.monitor = @ /\ ~pg.force, !.force = FALSE]

ReclaimPage(p) ==
  LET new == Reclaimed(page[p]) IN
  /\ reclaimer.pc = "batch" /\ p \in reclaimer.batch
  /\ page' = [page EXCEPT ![p] = new]
  /\ reclaimer' = [reclaimer EXCEPT !.batch = @ \ {p},
                                    !.dirty = @ \/ new.tx \in {"dirty", "erased"},
                                    !.queued = @ \/ new.tx = "discardQueued"]
  /\ RaiseMonitors(IF page[p].monitor /\ ~new.monitor THEN {p} ELSE {})
  /\ drainBlocked' = (drainBlocked /\ ~(new.tx = "dirty" /\ new.claimed)
                                   /\ (page[p].claimed => new.claimed))
  /\ UNCHANGED <<setting, unsaved, mapper, copier, drain, posts, driverVars, callers, budget>>

\* A discarded page that is used again is left to its last user.
ReclaimDiscarded(p) ==
  LET new == IF Held(page[p]) THEN [page[p] EXCEPT !.tx = "none"] ELSE Erased(page[p]) IN
  /\ reclaimer.pc = "batch" /\ reclaimer.batch = {} /\ p \in reclaimer.discards
  /\ page' = [page EXCEPT ![p] = new]
  /\ reclaimer' = [reclaimer EXCEPT !.discards = @ \ {p}, !.dirty = @ \/ new.tx = "erased"]
  /\ drainBlocked' = (drainBlocked /\ (page[p].claimed => new.claimed))
  /\ UNCHANGED <<setting, unsaved, mapper, copier, drain, posts, driverVars, callers, monitors, budget>>

ReclaimDone ==
  /\ reclaimer.pc = "batch" /\ reclaimer.batch \cup reclaimer.discards = {}
  /\ reclaimer' = [reclaimer EXCEPT !.pc = "awake"]
  /\ drain' = WokenIf(drain, reclaimer.dirty)
  /\ UNCHANGED <<setting, page, unsaved, mapper, copier, posts, driverVars, callers, monitors, swapVars>>

-----------------------------------------------------------------------------
(* The drain loop: dirty pages get swap budget, pass fenceDirty() and are      *)
(* written back.                                                              *)

Claims == {p \in Pages : page[p].claimed}

\* The pages the loop over _dirtyList takes: with a swap space, those that hold
\* budget and as many others as the budget allows.
Drainable(S, dirty) ==
  \/ ~setting.swap /\ S = dirty
  \/ /\ setting.swap
     /\ dirty \cap Claims \subseteq S
     /\ LET new == S \ Claims IN
        /\ Cardinality(Claims) + Cardinality(new) <= budget \/ new = {}
        /\ S = dirty \/ Cardinality(Claims) + Cardinality(new) >= budget

DrainCollect ==
  LET dirty == {p \in Pages : "dirty" \in page[p].lists} IN
  /\ drain.pc = "awake"
  /\ \/ /\ dirty = {} \/ drainBlocked
        /\ drain' = [drain EXCEPT !.pc = "asleep"]
        /\ UNCHANGED <<page, posts, drainBlocked>>
     \/ /\ dirty # {} /\ ~drainBlocked
        /\ \E S \in SUBSET dirty :
             /\ Drainable(S, dirty)
             /\ page' = [p \in Pages |-> IF p \in S
                           THEN [Unlinked(page[p], "dirty") EXCEPT !.tx = "pendingWriteback",
                                                                   !.claimed = setting.swap]
                           ELSE page[p]]
             /\ IF S = {} THEN drainBlocked' = TRUE /\ UNCHANGED <<drain, posts>>
                ELSE /\ drain' = [pc |-> "fence", pending |-> S]
                     /\ Posted("fenceDirty")
                     /\ UNCHANGED drainBlocked
  /\ UNCHANGED <<setting, unsaved, mapper, copier, reclaimer, driverVars, callers, monitors, budget>>

\* The monitor is replaced; whoever waited for the previous one is not told.
Drained(pg) ==
  IF pg.discarded THEN Disposed([pg EXCEPT !.tx = "none"])
  ELSE Linked([pg EXCEPT !.tx = "wantWriteback", !.monitor = TRUE], "writeback")

DrainFenced ==
  LET new == [p \in Pages |-> IF p \in drain.pending THEN Drained(page[p]) ELSE page[p]]
      replaced == UNION {WaitersOf(p) : p \in {q \in drain.pending : ~page[q].discarded}}
  IN  /\ drain.pc = "fence" /\ Acked("fenceDirty")
      /\ Progress(new, polls)
      /\ drain' = [pc |-> "awake", pending |-> {}]
      /\ reclaimer' = WokenIf(reclaimer, \E p \in Pages : new[p].tx = "discardQueued" /\ page[p].tx # "discardQueued")
      /\ drainBlocked' = (drainBlocked /\ \A p \in Pages : page[p].claimed => new[p].claimed)
      /\ awaiting' = awaiting \ replaced /\ orphaned' = orphaned \cup {w[1] : w \in replaced}
      /\ UNCHANGED <<setting, unsaved, mapper, copier, posts, callers, budget>>

\* SwapSpace::setBudget().
SetBudget(b) ==
  /\ setting.swap /\ b # budget
  /\ budget' = b /\ drainBlocked' = FALSE
  /\ drain' = Woken(drain)
  /\ UNCHANGED <<setting, page, unsaved, mapper, copier, reclaimer, posts, driverVars, callers, monitors>>

-----------------------------------------------------------------------------
(* The driver.  It asks for the next notification when it is done with the     *)
(* previous one, or at once if it serves them in detached coroutines.          *)

PollNotification ==
  /\ polls = 0 /\ (setting.detached \/ \A p \in Pages : job[p] = "none")
  /\ Progress(page, 1)
  /\ UNCHANGED <<setting, unsaved, mapper, copier, loops, posts, callers, monitors, swapVars>>

\* Access to the page through BackingMemory: lockRange() and touchRange(), which
\* allocates the frame; the transfer; unlockRange().
JobLock(p) ==
  /\ job[p] = "notified"
  /\ job' = [job EXCEPT ![p] = "locked"]
  /\ page' = [page EXCEPT ![p] = [WithLock(page[p]) EXCEPT !.frame = TRUE]]
  /\ UNCHANGED <<setting, unsaved, mapper, copier, loops, posts, polls, asked, callers, monitors, swapVars>>

JobTransfer(p) ==
  /\ job[p] = "locked"
  /\ job' = [job EXCEPT ![p] = "transferred"]
  /\ unsaved' = [unsaved EXCEPT ![p] = FALSE]
  /\ fence' = [fence EXCEPT !.owed = @ /\ fence.pg # p]
  /\ UNCHANGED <<setting, page, mapper, copier, loops, posts, polls, asked, invalidator, monitors, swapVars>>

JobUnlock(p) ==
  /\ job[p] = "transferred"
  /\ job' = [job EXCEPT ![p] = "finished"]
  /\ Replace(p, WithoutLock(page[p]))
  /\ UNCHANGED <<setting, unsaved, mapper, copier, posts, polls, asked, callers, monitors, budget>>

\* updateRange() on one page.  A page that was marked dirty during the writeback
\* is listed again, with another monitor ("relisted" remembers it); a poll that
\* waits is not looked at.
UpdatedPage(pg) ==
  LET done == [pg EXCEPT !.monitor = FALSE, !.stillDirty = FALSE]
  IN  CASE pg.tx = "initialization" -> Settled([done EXCEPT !.load = "present"])
        [] pg.tx = "writeback" /\ pg.discarded -> Disposed([done EXCEPT !.tx = "none"])
        [] pg.tx = "writeback" /\ ~pg.discarded /\ ~pg.stillDirty -> Settled([done EXCEPT !.copyValid = TRUE])
        [] OTHER -> Linked([done EXCEPT !.tx = "wantWriteback", !.monitor = TRUE, !.relisted = TRUE],
                             "writeback")

JobUpdate(p) ==
  /\ job[p] = "finished"
  /\ job' = [job EXCEPT ![p] = "none"]
  /\ Replace(p, UpdatedPage(page[p]))
  /\ asked' \in Lists([page EXCEPT ![p] = UpdatedPage(page[p])])
  /\ RaiseMonitors({p})
  /\ UNCHANGED <<setting, unsaved, mapper, copier, posts, polls, callers, budget>>

-----------------------------------------------------------------------------
(* writebackFence(): waits for a writeback that is due, and for the next one   *)
(* if the first may have begun before the fence.                              *)

MarkedDirty(p) ==
  \/ page[p].tx \in {"dirty", "pendingWriteback", "wantWriteback"}
  \/ page[p].tx = "writeback" /\ (page[p].stillDirty \/ job[p] \in {"notified", "locked"})

FenceStart(p) ==
  /\ setting.fences /\ p \in setting.pages /\ fence.pc = "idle"
  /\ fence' = [pc |-> CASE page[p].tx = "wantWriteback" -> "last"
                        [] page[p].tx = "writeback" -> "first"
                        [] OTHER -> "done",
               pg |-> p, from |-> page[p].tx, owed |-> unsaved[p] /\ MarkedDirty(p) /\ ~page[p].discarded]
  /\ awaiting' = IF page[p].tx \in {"wantWriteback", "writeback"}
                 THEN awaiting \cup {<<"fence", p>>} ELSE awaiting
  /\ UNCHANGED <<setting, page, unsaved, mapper, copier, loops, posts, driverVars, invalidator, orphaned, swapVars>>

\* Mutant of NeedsSecond: one writeback is enough.
NeedsSecondNot == FALSE
NeedsSecond == fence.pc = "first" /\ page[fence.pg].monitor

FenceWoken ==
  /\ fence.pc \in {"first", "last"} /\ ~Waits("fence")
  /\ fence' = [fence EXCEPT !.pc = IF NeedsSecond THEN "last" ELSE "done"]
  /\ awaiting' = IF NeedsSecond THEN awaiting \cup {<<"fence", fence.pg>>} ELSE awaiting
  /\ UNCHANGED <<setting, page, unsaved, mapper, copier, loops, posts, driverVars, invalidator, orphaned, swapVars>>

FenceReturn ==
  /\ fence.pc = "done"
  /\ fence' = [pc |-> "idle", pg |-> NoPage, from |-> "none", owed |-> FALSE]
  /\ UNCHANGED <<setting, page, unsaved, mapper, copier, loops, posts, driverVars, invalidator, monitors, swapVars>>

-----------------------------------------------------------------------------
(* invalidateRange() and discardPage(). *)

InvalidateCall(p) ==
  /\ setting.invalidates /\ p \in setting.pages /\ invalidator.pc = "idle"
  /\ invalidator' = [pc |-> "look", pg |-> p]
  /\ UNCHANGED <<setting, page, unsaved, mapper, copier, loops, posts, driverVars, fence, monitors, swapVars>>

InvalidateEnds == [pc |-> "idle", pg |-> NoPage]

InvalidateLook ==
  LET p == invalidator.pg
      pg == page[p]
      reclaiming == pg.tx \in {"performReclaim", "avertReclaim"}
  IN  /\ invalidator.pc = "look"
      /\ \/ /\ pg.load = "missing" \/ (~reclaiming /\ ~pg.monitor /\ pg.locks > 0)
            /\ invalidator' = InvalidateEnds
            /\ UNCHANGED <<page, posts, awaiting>>
         \/ /\ pg.load = "present" /\ (reclaiming \/ pg.monitor)
            /\ invalidator' = [invalidator EXCEPT !.pc = "wait"]
            /\ page' = [page EXCEPT ![p].force = @ \/ reclaiming, ![p].monitor = TRUE]
            /\ awaiting' = awaiting \cup {<<"invalidate", p>>}
            /\ UNCHANGED posts
         \/ /\ pg.load = "present" /\ ~reclaiming /\ ~pg.monitor /\ pg.locks = 0
            /\ InvalidateDirty \/ pg.tx \notin {"dirty", "pendingWriteback"}
            /\ invalidator' = [invalidator EXCEPT !.pc = "break"]
            /\ page' = [page EXCEPT ![p] = [RemovePage(pg) EXCEPT !.tx = "performReclaim"]]
            /\ Posted("breakRange")
            /\ UNCHANGED awaiting
      /\ UNCHANGED <<setting, unsaved, mapper, copier, loops, driverVars, fence, orphaned, swapVars>>

InvalidateBroken ==
  LET p == invalidator.pg
      evicted == page[p].tx = "performReclaim"
  IN  /\ invalidator.pc = "break" /\ Acked("breakRange")
      /\ page' = IF evicted
                 THEN [page EXCEPT ![p].load = "missing", ![p].tx = "none", ![p].frame = FALSE]
                 ELSE page
      /\ invalidator' = IF evicted THEN InvalidateEnds ELSE [invalidator EXCEPT !.pc = "look"]
      /\ UNCHANGED <<setting, unsaved, mapper, copier, loops, posts, driverVars, fence, monitors, swapVars>>

InvalidateWoken ==
  /\ invalidator.pc = "wait" /\ ~Waits("invalidate")
  /\ invalidator' = [invalidator EXCEPT !.pc = "look"]
  /\ UNCHANGED <<setting, page, unsaved, mapper, copier, loops, posts, driverVars, fence, monitors, swapVars>>

\* The destructor of the page's SwappableMemory: no mapping or copy is left.  A
\* transaction that is under way completes the discard.  _wakeDrain() follows.
ViewUnused(p) ==
  /\ \A m \in Mappings : mapper[m].pg = p =>
       mapper[m].pc = "idle" /\ mapper[m].pte = "none" /\ mapper[m].revoke = "none"
  /\ \A k \in Copiers : copier[k].pg = p => copier[k].pc = "idle"

Discarded(pg) ==
  LET gone == [pg EXCEPT !.discarded = TRUE] IN
  CASE pg.tx \in {"none", "inReclaimer"} -> Disposed([RemovePage(gone) EXCEPT !.tx = "none"])
    [] pg.tx = "dirty" -> Disposed([Unlinked(gone, "dirty") EXCEPT !.tx = "none"])
    [] pg.tx = "wantWriteback" ->
         Disposed([Unlinked(gone, "writeback") EXCEPT !.tx = "none", !.monitor = FALSE, !.relisted = FALSE])
    [] OTHER -> gone

DiscardPage(p) ==
  LET new == Discarded(page[p]) IN
  /\ setting.swap /\ p \in setting.pages /\ ~page[p].discarded /\ ViewUnused(p)
  /\ page' = [page EXCEPT ![p] = new] /\ asked' \in Lists([page EXCEPT ![p] = new])
  /\ reclaimer' = WokenIf(reclaimer, new.tx = "discardQueued")
  /\ drain' = Woken(drain) /\ drainBlocked' = FALSE
  /\ RaiseMonitors(IF page[p].tx = "wantWriteback" THEN {p} ELSE {})
  /\ unsaved' = [unsaved EXCEPT ![p] = FALSE]
  /\ fence' = [fence EXCEPT !.owed = @ /\ fence.pg # p]
  /\ UNCHANGED <<setting, mapper, copier, posts, polls, job, invalidator, budget>>

-----------------------------------------------------------------------------
FaultStep(m) == FaultPeek(m) \/ FaultMap(m)
RevokeStep(m) == RevokeMark(m) \/ RevokeDrop(m) \/ RevokeShootdown(m)

CopierStep(k) == CopyTouch(k) \/ CopyData(k) \/ CopyMark(k) \/ CopyUnlock(k)

ReclaimStep ==
  \/ ReclaimCollect \/ ReclaimFenced \/ ReclaimDone
  \/ \E p \in Pages : ReclaimPage(p) \/ ReclaimDiscarded(p)

DrainStep == DrainCollect \/ DrainFenced

JobStep(p) == JobLock(p) \/ JobTransfer(p) \/ JobUnlock(p) \/ JobUpdate(p)

FenceStep == FenceWoken \/ FenceReturn
InvalidateStep == InvalidateLook \/ InvalidateBroken \/ InvalidateWoken

ManagedNext ==
  \/ \E m \in Mappings :
       \/ FaultStep(m) \/ RevokeStep(m) \/ AccessMapped(m) \/ Revoke(m)
       \/ \E p \in Pages : FaultTouch(m, p)
       \/ \E e \in Evictions : Evict(m, e)
  \/ \E k \in Copiers : CopierStep(k) \/ \E p \in Pages : CopyLock(k, p)
  \/ ReclaimStep \/ DrainStep \/ PollNotification \/ FenceStep \/ InvalidateStep
  \/ \E p \in Pages :
       Rotate(p) \/ JobStep(p) \/ FenceStart(p) \/ InvalidateCall(p) \/ DiscardPage(p)
  \/ \E b \in 0 .. Cardinality(setting.pages) : SetBudget(b)

ManagedSpec == ManagedInit /\ [][ManagedNext]_managedVars

\* Work queues and the scheduler run every coroutine and thread that can run; the
\* driver polls and serves what it is notified of.  A barrier waits for the sections
\* that began before it, so new ones cannot hold up an eviction forever.  Nobody has
\* to touch a page.
ManagedFairness ==
  /\ WF_managedVars(ReclaimStep) /\ WF_managedVars(DrainStep) /\ WF_managedVars(PollNotification)
  /\ WF_managedVars(FenceStep) /\ WF_managedVars(InvalidateStep)
  /\ \A m \in Mappings : /\ WF_managedVars(FaultStep(m)) /\ WF_managedVars(RevokeStep(m))
                         /\ SF_managedVars(\E e \in Evictions : Evict(m, e))
  /\ \A k \in Copiers : WF_managedVars(CopierStep(k))
  /\ \A p \in Pages : WF_managedVars(JobStep(p))
ManagedFairSpec == ManagedSpec /\ ManagedFairness

-----------------------------------------------------------------------------
(* Properties. *)

\* A frame is not freed while anybody can reach it: a thread in an exposeRcu
\* section, a page table or TLB entry, a copy under way, the driver's transfer.
FramesHeld ==
  \A p \in Pages : ~page[p].frame =>
    /\ \A m \in Mappings : mapper[m].pg = p =>
         mapper[m].pc # "exposed" /\ mapper[m].pte = "none" /\ mapper[m].tlb = "none"
    /\ \A k \in Copiers : copier[k].pg = p => copier[k].pc \notin {"written", "copied"}
    /\ job[p] \notin {"locked", "transferred"}

\* Data that is not in the backing store is never forgotten: the page table entry
\* is dirty or the page is about to be marked dirty, it waits to be written back,
\* or it is written back again.  In particular a clean page's frame can be freed.
NoLostWrite ==
  \A p \in Pages : unsaved[p] =>
    \/ page[p].discarded
    \/ page[p].load = "present" /\
         \/ MarkedDirty(p)
         \/ page[p].tx = "avertReclaim" /\ page[p].stillDirty
         \/ \E m \in Mappings : /\ mapper[m].pg = p
                                /\ \/ mapper[m].pte = "dirty"
                                   \/ mapper[m].revoke \in {"mark", "mark and drop"}
         \/ \E k \in Copiers : copier[k].pg = p /\ copier[k].pc = "written"

\* The list that each state of a transaction stands for.
ListOf(tx) ==
  CASE tx = "wantInitialization" -> {"initialization"} [] tx = "dirty" -> {"dirty"}
    [] tx = "wantWriteback" -> {"writeback"} [] OTHER -> {}

\* The assertions of the loops and the comments on TxState: a page is in the list
\* its state names, in none else, and is there, unused or owned as that state says.
PageStates ==
  \A p \in Pages :
    LET pg == page[p] IN
    /\ pg.tx = "inReclaimer" =>
         ~Held(pg) /\ pg.load = "present" /\ pg.lists \in {{"generation"}, {"reclaim"}}
    /\ pg.tx = "discardQueued" => pg.lists \subseteq {"discard"}
    /\ pg.tx \notin {"inReclaimer", "discardQueued"} => pg.lists = ListOf(pg.tx)
    /\ pg.tx \in {"dirty", "pendingWriteback", "wantWriteback", "writeback", "performReclaim",
                  "avertReclaim"} => pg.load = "present"
    /\ pg.load = "present" => pg.frame
    /\ pg.tx = "performReclaim" => pg.locks = 0
    /\ pg.stillDirty => pg.tx \in {"writeback", "avertReclaim"}
    /\ pg.tx \in {"wantInitialization", "initialization"} => ~pg.discarded /\ pg.monitor
    /\ p \in drain.pending => pg.tx = "pendingWriteback"
    /\ p \in reclaimer.batch => pg.tx \in {"performReclaim", "avertReclaim"}
    /\ p \in reclaimer.discards => pg.tx = "discardQueued" /\ pg.discarded /\ pg.frame
    /\ \A k \in Copiers : copier[k].pg = p /\ copier[k].pc = "fetch" /\ ~Waits(k) => pg.load = "present"

\* A fence that finds a writeback due or under way returns only after the data
\* that was marked dirty before it is in the backing store.
FenceFlushes == fence.pc = "done" /\ fence.from \in {"wantWriteback", "writeback"} => ~fence.owed

\* A page that updateRange() listed again while the driver, which serves requests
\* in detached coroutines, was waiting for the next one (memory-view.cpp:1770-1778),
\* and one that waits behind the writebacks, which the driver is given first.
Unannounced(p) == setting.detached /\ page[p].relisted /\ polls > 0
Overtaken(p) ==
  page[p].tx = "wantInitialization" /\ \E q \in Pages : page[q].tx = "wantWriteback"
Overlooked(p) == Unannounced(p) \/ Overtaken(p)

\* A page does not stay with the kernel: what waits for the drain or the driver is
\* taken up (a swap space may be short of budget) and a discarded page is erased.
PageMoves(p) ==
  /\ page[p].tx \in {"dirty", "pendingWriteback", "wantWriteback", "wantInitialization"} =>
       (setting.swap /\ budget < Cardinality(setting.pages)) \/ Overlooked(p)
  /\ page[p].discarded => page[p].tx = "erased"

\* Whoever waits for a page is woken, and every page moves on again and again.  What
\* may stay for ever is a page that is listed again without the driver being told,
\* with a fence that waits for its second writeback, and a page to be initialized
\* while another one is written back time and again.
PagesProgress ==
  /\ \A w \in Mappings \cup Copiers \cup {"fence"} :
       []<>(Waits(w) => \E p \in Pages : <<w, p>> \in awaiting /\ Overlooked(p))
  /\ \A p \in Pages : []<>PageMoves(p)

\* The same for a fence that finds the page marked dirty in whatever state.
FenceComplete == fence.pc = "done" => ~fence.owed

=============================================================================
