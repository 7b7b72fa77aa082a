------------------------------- MODULE Escrow -------------------------------
(***************************************************************************)
(* What the compute billing bridge promises its callers, with requests,    *)
(* transactions and crashes left out.  A hold takes quota out of a wallet, *)
(* may grow, is spent piece by piece, and is closed once; closing returns  *)
(* exactly what was not spent.  ComputeHold implements this specification. *)
(***************************************************************************)
EXTENDS Integers

CONSTANTS
  Holds,     \* hold ids
  Wallets,   \* the rows a balance can live in
  MaxHeld    \* the largest amount one hold can carry

VARIABLES
  balance,   \* wallet -> spendable quota
  phase,     \* hold -> "new", "open" or "closed"
  held,      \* hold -> quota taken out of a wallet for it so far
  spent      \* hold -> how much of that is spent

escrowVars == <<balance, phase, held, spent>>

Init ==
  /\ balance \in [Wallets -> Int]
  /\ phase = [h \in Holds |-> "new"]
  /\ held = [h \in Holds |-> 0]
  /\ spent = [h \in Holds |-> 0]

\* A new hold is paid for in full or not opened.
Open(h, w, n) ==
  /\ phase[h] = "new"
  /\ 0 < n /\ n <= balance[w]
  /\ phase' = [phase EXCEPT ![h] = "open"]
  /\ held' = [held EXCEPT ![h] = n]
  /\ balance' = [balance EXCEPT ![w] = @ - n]
  /\ UNCHANGED spent

\* An open hold grows on the same terms.
Grow(h, w, n) ==
  /\ phase[h] = "open"
  /\ 0 < n /\ n <= balance[w] /\ held[h] + n <= MaxHeld
  /\ held' = [held EXCEPT ![h] = @ + n]
  /\ balance' = [balance EXCEPT ![w] = @ - n]
  /\ UNCHANGED <<phase, spent>>

\* Spending stays inside the hold and moves no balance.
Spend(h, total) ==
  /\ phase[h] = "open"
  /\ spent[h] <= total /\ total <= held[h]
  /\ spent' = [spent EXCEPT ![h] = total]
  /\ UNCHANGED <<balance, phase, held>>

\* Closing happens once, fixes the spend and returns the rest to one wallet.
Close(h, w, total) ==
  /\ phase[h] = "open"
  /\ spent[h] <= total /\ total <= held[h]
  /\ phase' = [phase EXCEPT ![h] = "closed"]
  /\ spent' = [spent EXCEPT ![h] = total]
  /\ balance' = [balance EXCEPT ![w] = @ + held[h] - total]
  /\ UNCHANGED held

\* A login that moves takes a wallet it has to itself along.
Transfer(v, w) ==
  /\ v # w
  /\ balance' = [balance EXCEPT ![v] = 0, ![w] = @ + balance[v]]
  /\ UNCHANGED <<phase, held, spent>>

Next ==
  \/ \E h \in Holds, w \in Wallets, n \in 0 .. MaxHeld :
       Open(h, w, n) \/ Grow(h, w, n) \/ Spend(h, n) \/ Close(h, w, n)
  \/ \E v, w \in Wallets : Transfer(v, w)

Spec == Init /\ [][Next]_escrowVars
=============================================================================
