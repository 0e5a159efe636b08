----------------------------- MODULE PoolContract -----------------------------
(***************************************************************************)
(* What a WorkerPool promises about the items given to it, with no event   *)
(* loop, no waiters and no workers: a bounded FIFO backlog, a bounded      *)
(* number of items in hand, and one way through life for every item.       *)
(* WorkerPool implements it (ImplementsContract).                          *)
(***************************************************************************)
EXTENDS Naturals, Sequences, FiniteSets

CONSTANTS Items,
          Bound,   \* capacity of the backlog
          Hands    \* how many items may be in hand at once

VARIABLES
  backlog,   \* accepted items nobody has begun
  life,      \* where each item is in its life
  open       \* whether new items are let in

contractVars == <<backlog, life, open>>

Init ==
  /\ backlog = <<>>
  /\ life = [i \in Items |-> "new"]
  /\ open = TRUE

InHand == {i \in Items : life[i] = "inHand"}

Becomes(i, state) == life' = [life EXCEPT ![i] = state]

\* The item must wait for room.
Block(i) ==
  /\ life[i] = "new"
  /\ open
  /\ Len(backlog) >= Bound
  /\ Becomes(i, "blocked")
  /\ UNCHANGED <<backlog, open>>

\* A blocked item is let in even when the pool has closed meanwhile.
Accept(i) ==
  /\ life[i] = "blocked" \/ (life[i] = "new" /\ open)
  /\ Len(backlog) < Bound
  /\ backlog' = Append(backlog, i)
  /\ Becomes(i, "backlog")
  /\ UNCHANGED open

\* Turned away: closed, no room for an item that will not wait, or withdrawn.
Refuse(i) ==
  /\ life[i] = "new"
  /\ ~open
  /\ Becomes(i, "refused")
  /\ UNCHANGED <<backlog, open>>

Shed(i) ==
  /\ life[i] = "new"
  /\ open
  /\ Len(backlog) >= Bound
  /\ Becomes(i, "shed")
  /\ UNCHANGED <<backlog, open>>

Withdraw(i) ==
  /\ life[i] = "blocked"
  /\ Becomes(i, "withdrawn")
  /\ UNCHANGED <<backlog, open>>

\* Items are begun in the order they were accepted.
Begin(i) ==
  /\ backlog # <<>>
  /\ i = Head(backlog)
  /\ Cardinality(InHand) < Hands
  /\ backlog' = Tail(backlog)
  /\ Becomes(i, "inHand")
  /\ UNCHANGED open

\* An item in hand ends once, in one of three ways.
Finish(i) ==
  /\ life[i] = "inHand"
  /\ \E end \in {"completed", "failed", "interrupted"} : Becomes(i, end)
  /\ UNCHANGED <<backlog, open>>

Close ==
  /\ open' = FALSE
  /\ UNCHANGED <<backlog, life>>

Next ==
  \/ Close
  \/ \E i \in Items :
       Block(i) \/ Accept(i) \/ Refuse(i) \/ Shed(i) \/ Withdraw(i) \/ Begin(i) \/ Finish(i)

Spec == Init /\ [][Next]_contractVars
=============================================================================
