----------------------------- MODULE MCProgress -----------------------------
(***************************************************************************)
(* What must eventually happen, for TLC: the shootdown of TLBs and the     *)
(* transactions of the page cache.  A behaviour is one of the component    *)
(* that scenario names, while the variables of the other keep their        *)
(* initial values.                                                         *)
(***************************************************************************)
EXTENDS MCShootdown, MCPages

VARIABLE scenario

progressVars == <<scenario, asidVars, managedVars>>

Sh(A) == scenario = "shootdown" /\ A /\ UNCHANGED <<scenario, managedVars>>
Pg(A) == scenario = "pages" /\ A /\ UNCHANGED <<scenario, asidVars>>

ProgressInit ==
  /\ scenario \in {"shootdown", "pages"}
  /\ AsidInit /\ ManagedInit
  /\ scenario # "shootdown" => \A n \in Nodes : node[n].space = Kernel
  /\ scenario # "pages" => setting = CHOOSE s \in Settings : TRUE

ProgressNext == Sh(AsidNext) \/ Pg(ManagedNext)

\* Those of AsidFairSpec and ManagedFairSpec.
ShootdownFairness ==
  \A c \in Processors : /\ WF_progressVars(Sh(ArriveIpi(c))) /\ WF_progressVars(Sh(TakeIpi(c)))
                        /\ WF_progressVars(Sh(FrameStep(c)))

PagesFairness ==
  /\ WF_progressVars(Pg(ReclaimStep)) /\ WF_progressVars(Pg(DrainStep))
  /\ WF_progressVars(Pg(PollNotification)) /\ WF_progressVars(Pg(FenceStep))
  /\ \A m \in Mappings : /\ WF_progressVars(Pg(FaultStep(m))) /\ WF_progressVars(Pg(RevokeStep(m)))
                         /\ SF_progressVars(Pg(\E e \in Evictions : Evict(m, e)))
  /\ \A k \in Copiers : WF_progressVars(Pg(CopierStep(k)))
  /\ \A p \in Pages : WF_progressVars(Pg(JobStep(p)))

ProgressSpec ==
  /\ ProgressInit /\ [][ProgressNext]_progressVars
  /\ ShootdownFairness /\ PagesFairness
=============================================================================
