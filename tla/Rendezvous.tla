---------------------------- MODULE Rendezvous ----------------------------
(***************************************************************************)
(* What the streams of the kernel promise to the programs that exchange    *)
(* messages over them, without queues, locks, submitters or coroutines.    *)
(*                                                                         *)
(* A stream has two lanes.  Items are admitted to a lane one after the     *)
(* other; the i-th item of one lane meets the i-th item of the other lane, *)
(* whatever else happens, and the two answers are a function of the two    *)
(* items.  Closing a stream only concerns items that met nobody.  Every    *)
(* item is answered at most once, and a packet (the items of one           *)
(* submission) is answered when all of its items are.                      *)
(*                                                                         *)
(* Stream.tla is the implementation; it is shown to implement Spec.        *)
(***************************************************************************)
EXTENDS Naturals, Sequences, SequencesExt

CONSTANTS
  Packets,          \* the submissions
  Answers(_, _),    \* <<error, got data?>>: what one item may get for meeting another
  CloseErrors,      \* the errors of items that met nobody
  Success,          \* the error code that is none
  NoAnswer,         \* not answered yet
  Nobody            \* no data was received

VARIABLES
  plan,      \* the items of every packet
  arrived,   \* per stream and lane: the admitted items, in order
  closed,    \* per stream: nothing can be admitted any more
  answer,    \* item -> <<error, the item whose data was received>>
  answered   \* the packets that were answered

rvars == <<plan, arrived, closed, answer, answered>>

Lanes == {0, 1}

(* An item is named by its packet and its index there. *)
Nodes == UNION {{<<p, i>> : i \in DOMAIN plan[p]} : p \in Packets}

Item(n) == plan[n[1]][n[2]]

At(s, d) == arrived[s][d]

(* The items of the same rank on the other lane of the same stream. *)
Partners(n) ==
  {m \in Nodes : \E s \in DOMAIN arrived, d \in Lanes :
     \E i \in DOMAIN At(s, d) \cap DOMAIN At(s, 1 - d) :
        At(s, d)[i] = n /\ At(s, 1 - d)[i] = m}

Admitted(n) == \E s \in DOMAIN arrived, d \in Lanes : n \in ToSet(At(s, d))

ClosedOn(n) == \E s \in DOMAIN arrived, d \in Lanes :
                 closed[s] /\ n \in ToSet(At(s, d))

(* The answers for meeting the items that n met. *)
Meetings(n) ==
  UNION {{<<a[1], IF a[2] THEN m ELSE Nobody>> : a \in Answers(Item(n), Item(m))} :
         m \in Partners(n)}

(* The item whose ancillary chain n belongs to, if any. *)
Parents(n) == {m \in Nodes : m[1] = n[1] /\ m[2] = Item(n).link}

(* An item that met another one is answered for that meeting, even if the
   stream was closed since.  An item that met nobody fails because its stream
   was closed, or together with the item that it is chained to.            *)
Answerable(n) ==
  IF Partners(n) # {} THEN Meetings(n)
  ELSE IF Admitted(n) THEN IF ClosedOn(n) THEN CloseErrors \X {Nobody} ELSE {}
  ELSE (CloseErrors \cup UNION {{a[1] : a \in Meetings(m)} \ {Success} : m \in Parents(n)})
       \X {Nobody}

RInit ==
  /\ arrived = << [d \in Lanes |-> <<>>] >>
  /\ closed = << FALSE >>
  /\ answer = [n \in Nodes |-> NoAnswer]
  /\ answered = {}

(* An item takes the next place on a lane. *)
Admit(n, s, d) ==
  /\ ~closed[s]
  /\ ~Admitted(n)
  /\ answer[n] = NoAnswer
  /\ arrived' = [arrived EXCEPT ![s][d] = Append(@, n)]
  /\ UNCHANGED <<plan, closed, answer, answered>>

(* An offer that meets an accept creates a stream. *)
Create ==
  /\ arrived' = Append(arrived, [d \in Lanes |-> <<>>])
  /\ closed' = Append(closed, FALSE)
  /\ UNCHANGED <<plan, answer, answered>>

Close(s) ==
  /\ closed' = [closed EXCEPT ![s] = TRUE]
  /\ UNCHANGED <<plan, arrived, answer, answered>>

(* Some items are answered. *)
Resolve ==
  /\ \A n \in Nodes : answer'[n] # answer[n] =>
       answer[n] = NoAnswer /\ answer'[n] \in Answerable(n)
  /\ UNCHANGED <<plan, arrived, closed, answered>>

(* A packet is answered once all of its items are. *)
Reply(p) ==
  /\ p \notin answered
  /\ \A i \in DOMAIN plan[p] : answer[<<p, i>>] # NoAnswer
  /\ answered' = answered \cup {p}
  /\ UNCHANGED <<plan, arrived, closed, answer>>

RNext ==
  \/ \E n \in Nodes, s \in DOMAIN arrived, d \in Lanes : Admit(n, s, d)
  \/ Create
  \/ \E s \in DOMAIN arrived : Close(s)
  \/ Resolve
  \/ \E p \in Packets : Reply(p)

RSpec == RInit /\ [][RNext]_rvars
============================================================================
