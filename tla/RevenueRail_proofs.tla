------------------------- MODULE RevenueRail_proofs -------------------------
(***************************************************************************)
(* The safety of the revenue rail, for every number and size of inflows, of *)
(* withdrawals and of governance operations, and that it implements         *)
(* RailLedger.  One inductive invariant carries all of it: between any two  *)
(* calls of an inflow, `book' is `committed' plus what has been handed out. *)
(***************************************************************************)
EXTENDS RevenueRail, Sums_proofs, SequenceTheorems, TLAPS

\* The split of an inflow, for every amount and every policy that
\* updateAllocationPolicy accepts.

\* Division rounds down: a share is a natural number, and its value in ten
\* thousandths is at most the exact one and less than one wei below it.
LEMMA ShareBounds ==
    ASSUME NEW amount \in Nat, NEW bps \in Nat
    PROVE  /\ Share(amount, bps) \in Nat
           /\ Share(amount, bps) * BPS_DENOMINATOR <= amount * bps
           /\ amount * bps < Share(amount, bps) * BPS_DENOMINATOR + BPS_DENOMINATOR
<1> DEFINE x == amount * bps
<1>1. x \in Nat
  OBVIOUS
<1>2. ASSUME NEW y \in Nat
      PROVE  /\ y \div 10000 \in Nat
             /\ (y \div 10000) * 10000 <= y
             /\ y < (y \div 10000) * 10000 + 10000
  OBVIOUS
<1>3. Share(amount, bps) = x \div 10000
  BY DEF Share, BPS_DENOMINATOR
<1> HIDE DEF x
<1>4. /\ x \div 10000 \in Nat
      /\ (x \div 10000) * 10000 <= x
      /\ x < (x \div 10000) * 10000 + 10000
  BY <1>1, <1>2
<1> QED
  BY <1>3, <1>4 DEF BPS_DENOMINATOR, x

\* The entries of an accepted policy multiply out over their sum.
LEMMA PolicyProduct ==
    ASSUME NEW p \in AllocationPolicy, PolicyAccepted(p), NEW amount \in Nat
    PROVE  /\ \A s \in SinkNames : p[s] \in Nat
           /\ amount * p["TREASURY"] + amount * p["MEV"] + amount * p["OPS_DEV"]
                + amount * p["DATA_YIELD"] + amount * p["DELEGATE_POOLS"]
                + amount * p["FOUNDER"] = amount * BPS_DENOMINATOR
<1>1. \A s \in SinkNames : p[s] \in Nat
  BY DEF AllocationPolicy, UInt16
<1>2. /\ p["TREASURY"] \in Nat /\ p["MEV"] \in Nat /\ p["OPS_DEV"] \in Nat
      /\ p["DATA_YIELD"] \in Nat /\ p["DELEGATE_POOLS"] \in Nat
      /\ p["FOUNDER"] \in Nat
  BY <1>1 DEF SinkNames
<1>3. \A t, m, o, d, g, f \in Nat :
        amount * t + amount * m + amount * o + amount * d + amount * g + amount * f
          = amount * (t + m + o + d + g + f)
  OBVIOUS
<1>4. p["TREASURY"] + p["MEV"] + p["OPS_DEV"] + p["DATA_YIELD"]
        + p["DELEGATE_POOLS"] + p["FOUNDER"] = BPS_DENOMINATOR
  BY DEF PolicyAccepted, Total
<1> QED
  BY <1>1, <1>2, <1>3, <1>4

\* Every inflow of every size splits exactly under an accepted policy: the
\* shares are natural numbers (the founder's remainder does not underflow in
\* _calculateAmounts) and add up to the amount.
THEOREM SplitIsExact ==
    ASSUME NEW p \in AllocationPolicy, PolicyAccepted(p), NEW amount \in Nat
    PROVE  /\ CalculateAmounts(p, amount) \in [SinkNames -> Nat]
           /\ SplitExact(p, amount)
<1> DEFINE c == CalculateAmounts(p, amount)
           t == Share(amount, p["TREASURY"])
           m == Share(amount, p["MEV"])
           o == Share(amount, p["OPS_DEV"])
           d == Share(amount, p["DATA_YIELD"])
           g == Share(amount, p["DELEGATE_POOLS"])
<1>1. /\ c["TREASURY"] = t /\ c["MEV"] = m /\ c["OPS_DEV"] = o
      /\ c["DATA_YIELD"] = d /\ c["DELEGATE_POOLS"] = g
      /\ c["FOUNDER"] = amount - t - m - o - d - g
  BY DEF CalculateAmounts, SinkNames
<1>2. /\ p["TREASURY"] \in Nat /\ p["MEV"] \in Nat /\ p["OPS_DEV"] \in Nat
      /\ p["DATA_YIELD"] \in Nat /\ p["DELEGATE_POOLS"] \in Nat
      /\ p["FOUNDER"] \in Nat
  BY PolicyProduct DEF SinkNames
<1>3. t \in Nat /\ m \in Nat /\ o \in Nat /\ d \in Nat /\ g \in Nat
  BY <1>2, ShareBounds
<1>4. /\ t * BPS_DENOMINATOR <= amount * p["TREASURY"]
      /\ m * BPS_DENOMINATOR <= amount * p["MEV"]
      /\ o * BPS_DENOMINATOR <= amount * p["OPS_DEV"]
      /\ d * BPS_DENOMINATOR <= amount * p["DATA_YIELD"]
      /\ g * BPS_DENOMINATOR <= amount * p["DELEGATE_POOLS"]
  BY <1>2, ShareBounds, Zenon
<1>5. /\ amount * p["TREASURY"] \in Nat /\ amount * p["MEV"] \in Nat
      /\ amount * p["OPS_DEV"] \in Nat /\ amount * p["DATA_YIELD"] \in Nat
      /\ amount * p["DELEGATE_POOLS"] \in Nat /\ amount * p["FOUNDER"] \in Nat
  BY <1>2
<1>6. amount * p["TREASURY"] + amount * p["MEV"] + amount * p["OPS_DEV"]
        + amount * p["DATA_YIELD"] + amount * p["DELEGATE_POOLS"]
        + amount * p["FOUNDER"] = amount * 10000
  BY PolicyProduct DEF BPS_DENOMINATOR
<1> HIDE DEF t, m, o, d, g
<1>7. t + m + o + d + g <= amount
  BY <1>3, <1>4, <1>5, <1>6 DEF BPS_DENOMINATOR
<1>8. /\ amount - t - m - o - d - g \in Nat
      /\ t + m + o + d + g + (amount - t - m - o - d - g) = amount
  BY <1>3, <1>7
<1>9. \A s \in SinkNames : c[s] \in Nat
  BY <1>1, <1>3, <1>8 DEF SinkNames
<1>10. c \in [SinkNames -> Nat]
  BY <1>9 DEF CalculateAmounts
<1>11. Total(c) = amount
  BY <1>1, <1>8 DEF Total
<1> QED
  BY <1>9, <1>10, <1>11 DEF SplitExact

\* Under an accepted policy the treasury's share of every inflow is less than
\* one wei short of 40 %, whatever the amount.
THEOREM TreasuryFloorHolds ==
    ASSUME NEW p \in AllocationPolicy, PolicyAccepted(p), NEW amount \in Nat
    PROVE  TreasuryFloorKept(CalculateAmounts(p, amount), amount)
<1> DEFINE bps == p["TREASURY"]
           t == Share(amount, bps)
<1>1. bps \in Nat /\ bps >= 4000
  BY PolicyProduct DEF SinkNames, PolicyAccepted, TREASURY_FLOOR_BPS
<1>2. CalculateAmounts(p, amount)["TREASURY"] = t
  BY DEF CalculateAmounts, SinkNames
<1>3. t \in Nat /\ amount * bps < t * BPS_DENOMINATOR + BPS_DENOMINATOR
  <2>1. bps \in Nat
    BY <1>1
  <2> HIDE DEF bps
  <2> QED
    BY <2>1, ShareBounds
<1>4. amount * bps >= amount * 4000
  <2>1. \A b \in Nat : b >= 4000 => amount * b >= amount * 4000
    OBVIOUS
  <2> QED
    BY <1>1, <2>1
<1>5. amount * bps \in Nat
  BY <1>1
<1> HIDE DEF t
<1>6. amount * 4000 < t * 10000 + 10000
  BY <1>3, <1>4, <1>5 DEF BPS_DENOMINATOR
<1> QED
  BY <1>2, <1>3, <1>6
  DEF TreasuryFloorKept, TREASURY_FLOOR_BPS, BPS_DENOMINATOR

\* Under an accepted policy the founder's share of every inflow exceeds 5 % by
\* less than five wei, the rounding of the five other shares.
THEOREM FounderCapHolds ==
    ASSUME NEW p \in AllocationPolicy, PolicyAccepted(p), NEW amount \in Nat
    PROVE  FounderCapKept(CalculateAmounts(p, amount), amount)
<1> DEFINE c == CalculateAmounts(p, amount)
           t == Share(amount, p["TREASURY"])
           m == Share(amount, p["MEV"])
           o == Share(amount, p["OPS_DEV"])
           d == Share(amount, p["DATA_YIELD"])
           g == Share(amount, p["DELEGATE_POOLS"])
<1>1. c["FOUNDER"] = amount - t - m - o - d - g
  BY DEF CalculateAmounts, SinkNames
<1>2. /\ p["TREASURY"] \in Nat /\ p["MEV"] \in Nat /\ p["OPS_DEV"] \in Nat
      /\ p["DATA_YIELD"] \in Nat /\ p["DELEGATE_POOLS"] \in Nat
      /\ p["FOUNDER"] \in Nat
  BY PolicyProduct DEF SinkNames
<1>3. t \in Nat /\ m \in Nat /\ o \in Nat /\ d \in Nat /\ g \in Nat
  BY <1>2, ShareBounds
<1>4. /\ amount * p["TREASURY"] < t * BPS_DENOMINATOR + BPS_DENOMINATOR
      /\ amount * p["MEV"] < m * BPS_DENOMINATOR + BPS_DENOMINATOR
      /\ amount * p["OPS_DEV"] < o * BPS_DENOMINATOR + BPS_DENOMINATOR
      /\ amount * p["DATA_YIELD"] < d * BPS_DENOMINATOR + BPS_DENOMINATOR
      /\ amount * p["DELEGATE_POOLS"] < g * BPS_DENOMINATOR + BPS_DENOMINATOR
  BY <1>2, ShareBounds, Zenon
<1>5. /\ amount * p["TREASURY"] \in Nat /\ amount * p["MEV"] \in Nat
      /\ amount * p["OPS_DEV"] \in Nat /\ amount * p["DATA_YIELD"] \in Nat
      /\ amount * p["DELEGATE_POOLS"] \in Nat /\ amount * p["FOUNDER"] \in Nat
  BY <1>2
<1>6. amount * p["TREASURY"] + amount * p["MEV"] + amount * p["OPS_DEV"]
        + amount * p["DATA_YIELD"] + amount * p["DELEGATE_POOLS"]
        + amount * p["FOUNDER"] = amount * 10000
  BY PolicyProduct DEF BPS_DENOMINATOR
<1>7. amount * p["FOUNDER"] <= amount * 500
  <2>1. \A b \in Nat : b <= 500 => amount * b <= amount * 500
    OBVIOUS
  <2>2. p["FOUNDER"] <= 500
    BY DEF PolicyAccepted, FOUNDER_MAX_BPS
  <2> QED
    BY <1>2, <2>1, <2>2
<1> HIDE DEF t, m, o, d, g
<1>8. (amount - t - m - o - d - g - 5) * 10000 < amount * 500
  BY <1>3, <1>4, <1>5, <1>6, <1>7 DEF BPS_DENOMINATOR
<1> QED
  BY <1>1, <1>8, <1>3
  DEF FounderCapKept, FOUNDER_MAX_BPS, BPS_DENOMINATOR, RoundedShares
-----------------------------------------------------------------------------
\* The inductive invariant.

SinkBalances(b) == [s \in SinkNames |-> b.bal[s]]

\* The chain at rest: nothing with the receiver or the router, lock free, and
\* every sink's books in order.
CommittedAtRest ==
    /\ committed.bal[Receiver] = 0
    /\ committed.bal[Router] = 0
    /\ ~committed.entered
    /\ \A s \in SinkNames : committed.received[s] = committed.bal[s] + committed.paid[s]

\* What an accepted inflow has added to the committed state so far.
InFlight ==
    tx.phase # "idle" =>
        /\ \E inflow \in [amount : Inflows, sender : Sources] :
             /\ inflow.amount = tx.amount
             /\ book.inflows = Append(committed.inflows, inflow)
        /\ \A s \in SinkNames : book.bal[s] >= committed.bal[s]
        /\ Total(SinkBalances(book)) + book.bal[Receiver] + book.bal[Router]
             = Total(SinkBalances(committed)) + tx.amount
        /\ \A s \in SinkNames \ {"DATA_YIELD"} : book.paid[s] = committed.paid[s]

\* The allocation of an inflow, once computed, splits it exactly, keeps the
\* treasury floor, and is the record the router has appended to its history.
AllocationRecorded ==
    /\ tx.phase = "accepted" => book.history = committed.history /\ tx.next = 1
    /\ tx.phase = "routing" =>
         /\ Total(tx.shares) = tx.amount
         /\ TreasuryFloorKept(tx.shares, tx.amount)
         /\ book.history = Append(committed.history,
                                  [totalInflow |-> tx.amount, shares |-> tx.shares])

FlowInv ==
    /\ FlowTypeOK
    /\ EtherInFlight
    /\ SinkBooksBalance
    /\ CommittedAtRest
    /\ InFlight
    /\ AllocationRecorded
    /\ HistoryMatchesInflows
    /\ TreasuryFloorInHistory

RailInv == ConfigTypeOK /\ FlowInv
-----------------------------------------------------------------------------
\* Books and balances.

LEMMA NamesDistinct ==
    /\ Receiver \notin SinkNames /\ Router \notin SinkNames /\ Receiver # Router
    /\ Router \in Accounts /\ Receiver \in Accounts /\ SinkNames \subseteq Accounts
    /\ "DATA_YIELD" \in SinkNames /\ "MEV" \in SinkNames
    /\ NoAddr \notin SinkNames
  BY DEF Receiver, Router, SinkNames, Accounts, NoAddr

LEMMA BookFields ==
    ASSUME NEW b \in Book
    PROVE  /\ b.inflows \in Seq(InflowRecord)
           /\ b.history \in Seq(AllocationRecord)
           /\ b.received \in [SinkNames -> Nat]
           /\ b.paid \in [SinkNames -> Nat]
           /\ b.bal \in [Accounts -> Nat]
           /\ b.entered \in BOOLEAN
  BY DEF Book

LEMMA BalanceTotal ==
    ASSUME NEW b
    PROVE  Total(SinkBalances(b)) = b.bal["TREASURY"] + b.bal["MEV"] + b.bal["OPS_DEV"]
             + b.bal["DATA_YIELD"] + b.bal["DELEGATE_POOLS"] + b.bal["FOUNDER"]
  BY DEF Total, SinkBalances, SinkNames

\* Moving ether that is there changes two balances and nothing else.
LEMMA TransferLemma ==
    ASSUME NEW b \in Book, NEW from \in Accounts, NEW to \in Accounts, from # to,
           NEW amount \in Nat, amount <= b.bal[from]
    PROVE  LET nb == Transfer(b, from, to, amount)
           IN  /\ nb \in Book
               /\ nb.inflows = b.inflows /\ nb.history = b.history
               /\ nb.received = b.received /\ nb.paid = b.paid
               /\ nb.entered = b.entered
               /\ nb.bal[from] = b.bal[from] - amount
               /\ nb.bal[to] = b.bal[to] + amount
               /\ \A a \in Accounts \ {from, to} : nb.bal[a] = b.bal[a]
<1> DEFINE bal == Moved(b.bal, from, to, amount)
           nb == Transfer(b, from, to, amount)
<1>1. b.bal \in [Accounts -> Nat]
  BY BookFields
<1>2. /\ bal[from] = b.bal[from] - amount
      /\ bal[to] = b.bal[to] + amount
      /\ \A a \in Accounts \ {from, to} : bal[a] = b.bal[a]
  BY <1>1 DEF Moved
<1>3. bal \in [Accounts -> Nat]
  <2>1. \A a \in Accounts : bal[a] \in Nat
    BY <1>1, <1>2
  <2> QED
    BY <1>1, <2>1 DEF Moved
<1>4. nb = [b EXCEPT !.bal = bal]
  BY DEF Transfer
<1> HIDE DEF bal, nb
<1>5. /\ nb \in Book /\ nb.bal = bal
      /\ nb.inflows = b.inflows /\ nb.history = b.history
      /\ nb.received = b.received /\ nb.paid = b.paid /\ nb.entered = b.entered
  BY <1>3, <1>4 DEF Book
<1> QED
  BY <1>2, <1>5 DEF nb

LEMMA CreditLemma ==
    ASSUME NEW b \in Book, NEW from \in Accounts, NEW s \in SinkNames, from # s,
           NEW amount \in Nat, amount <= b.bal[from]
    PROVE  LET nb == Credit(b, from, s, amount)
           IN  /\ nb \in Book
               /\ nb.inflows = b.inflows /\ nb.history = b.history
               /\ nb.paid = b.paid /\ nb.entered = b.entered
               /\ nb.bal[from] = b.bal[from] - amount
               /\ nb.bal[s] = b.bal[s] + amount
               /\ \A a \in Accounts \ {from, s} : nb.bal[a] = b.bal[a]
               /\ nb.received[s] = b.received[s] + amount
               /\ \A t \in SinkNames \ {s} : nb.received[t] = b.received[t]
<1> DEFINE tb == Transfer(b, from, s, amount)
           nb == Credit(b, from, s, amount)
<1>1. s \in Accounts
  BY NamesDistinct
<1>2. /\ tb \in Book
      /\ tb.inflows = b.inflows /\ tb.history = b.history
      /\ tb.received = b.received /\ tb.paid = b.paid /\ tb.entered = b.entered
      /\ tb.bal[from] = b.bal[from] - amount
      /\ tb.bal[s] = b.bal[s] + amount
      /\ \A a \in Accounts \ {from, s} : tb.bal[a] = b.bal[a]
  BY <1>1, TransferLemma
<1>3. nb = [tb EXCEPT !.received = [tb.received EXCEPT ![s] = tb.received[s] + amount]]
  BY DEF Credit
<1> HIDE DEF tb, nb
<1>4. tb.received \in [SinkNames -> Nat]
  BY <1>2, BookFields
<1> DEFINE rec == [tb.received EXCEPT ![s] = tb.received[s] + amount]
<1>5. /\ rec \in [SinkNames -> Nat]
      /\ rec[s] = tb.received[s] + amount
      /\ \A t \in SinkNames \ {s} : rec[t] = tb.received[t]
  BY <1>4
<1> HIDE DEF rec
<1>6. nb = [tb EXCEPT !.received = rec]
  BY <1>3 DEF rec
<1>7. /\ nb \in Book /\ nb.received = rec
      /\ nb.inflows = tb.inflows /\ nb.history = tb.history
      /\ nb.bal = tb.bal /\ nb.paid = tb.paid /\ nb.entered = tb.entered
  BY <1>2, <1>5, <1>6 DEF Book
<1> QED
  BY <1>2, <1>5, <1>7 DEF nb

\* The books of every sink balance: received is held or paid.
BooksBalance(b) ==
    \A s \in SinkNames : b.received[s] = b.bal[s] + b.paid[s]

LEMMA CreditKeepsBooks ==
    ASSUME NEW b \in Book, NEW s \in SinkNames,
           NEW amount \in Nat, amount <= b.bal[Router], BooksBalance(b)
    PROVE  LET nb == Credit(b, Router, s, amount)
           IN  /\ BooksBalance(nb)
               /\ nb.bal[Receiver] = b.bal[Receiver]
               /\ \A t \in SinkNames : nb.bal[t] >= b.bal[t]
               /\ Total(SinkBalances(nb)) = Total(SinkBalances(b)) + amount
<1> DEFINE nb == Credit(b, Router, s, amount)
<1>1. Router # s /\ Receiver # s /\ Router # Receiver
      /\ Router \in Accounts /\ Receiver \in Accounts /\ Router \notin SinkNames
      /\ SinkNames \subseteq Accounts
  BY NamesDistinct
<1>2. /\ nb \in Book /\ nb.paid = b.paid
      /\ nb.bal[s] = b.bal[s] + amount
      /\ \A a \in Accounts \ {Router, s} : nb.bal[a] = b.bal[a]
      /\ nb.received[s] = b.received[s] + amount
      /\ \A t \in SinkNames \ {s} : nb.received[t] = b.received[t]
  BY <1>1, CreditLemma
<1> HIDE DEF nb
<1>3. /\ b.bal \in [Accounts -> Nat] /\ b.paid \in [SinkNames -> Nat]
      /\ b.received \in [SinkNames -> Nat]
  BY BookFields
<1>4. \A t \in SinkNames \ {s} : nb.bal[t] = b.bal[t]
  BY <1>1, <1>2
<1>5. BooksBalance(nb)
  <2>1. ASSUME NEW t \in SinkNames
        PROVE  nb.received[t] = nb.bal[t] + nb.paid[t]
    <3>1. b.bal[t] \in Nat /\ b.paid[t] \in Nat
      BY <1>1, <1>3
    <3>2. b.received[t] = b.bal[t] + b.paid[t]
      BY DEF BooksBalance
    <3>3. CASE t = s
      BY <1>2, <3>1, <3>2, <3>3
    <3>4. CASE t # s
      BY <1>2, <1>4, <3>2, <3>4
    <3> QED
      BY <3>3, <3>4
  <2> QED
    BY <2>1 DEF BooksBalance
<1>6. nb.bal[Receiver] = b.bal[Receiver]
  BY <1>1, <1>2
<1>7. \A t \in SinkNames : nb.bal[t] >= b.bal[t]
  <2>1. \A t \in SinkNames : b.bal[t] \in Nat
    BY <1>1, <1>3
  <2> QED
    BY <1>2, <1>4, <2>1
<1>8. Total(SinkBalances(nb)) = Total(SinkBalances(b)) + amount
  <2>1. \A t \in SinkNames : b.bal[t] \in Nat
    BY <1>1, <1>3
  <2>2. s \in {"TREASURY", "MEV", "OPS_DEV", "DATA_YIELD", "DELEGATE_POOLS", "FOUNDER"}
    BY DEF SinkNames
  <2> QED
    BY <1>2, <1>4, <2>1, <2>2, BalanceTotal DEF SinkNames
<1> QED
  BY <1>5, <1>6, <1>7, <1>8 DEF nb

\* Forwarding DataYield's share to MEV leaves every sum as it was.
LEMMA ForwardLemma ==
    ASSUME NEW b \in Book, NEW amount \in Nat, amount <= b.bal["DATA_YIELD"],
           BooksBalance(b), dataYield.mevSink = "MEV"
    PROVE  LET nb == Forward(b, amount)
           IN  /\ nb \in Book
               /\ nb.inflows = b.inflows /\ nb.history = b.history
               /\ nb.entered = b.entered
               /\ \A t \in SinkNames \ {"DATA_YIELD"} : nb.paid[t] = b.paid[t]
               /\ BooksBalance(nb)
               /\ nb.bal[Receiver] = b.bal[Receiver]
               /\ nb.bal[Router] = b.bal[Router]
               /\ nb.bal["DATA_YIELD"] = b.bal["DATA_YIELD"] - amount
               /\ \A t \in SinkNames \ {"DATA_YIELD"} : nb.bal[t] >= b.bal[t]
               /\ Total(SinkBalances(nb)) = Total(SinkBalances(b))
<1> DEFINE cb == Credit(b, "DATA_YIELD", "MEV", amount)
           nb == Forward(b, amount)
<1>1. /\ "DATA_YIELD" \in SinkNames /\ "MEV" \in SinkNames /\ "DATA_YIELD" # "MEV"
      /\ Router \notin SinkNames /\ Receiver \notin SinkNames
      /\ Router \in Accounts /\ Receiver \in Accounts
      /\ SinkNames \subseteq Accounts
  BY NamesDistinct
<1>2. "DATA_YIELD" \in Accounts
  BY <1>1
<1>3. /\ cb \in Book
      /\ cb.inflows = b.inflows /\ cb.history = b.history
      /\ cb.paid = b.paid /\ cb.entered = b.entered
      /\ cb.bal["DATA_YIELD"] = b.bal["DATA_YIELD"] - amount
      /\ cb.bal["MEV"] = b.bal["MEV"] + amount
      /\ \A a \in Accounts \ {"DATA_YIELD", "MEV"} : cb.bal[a] = b.bal[a]
      /\ cb.received["MEV"] = b.received["MEV"] + amount
      /\ \A t \in SinkNames \ {"MEV"} : cb.received[t] = b.received[t]
  BY <1>1, <1>2, CreditLemma
<1> DEFINE paid == [cb.paid EXCEPT !["DATA_YIELD"] = @ + amount]
<1>4. nb = [cb EXCEPT !.paid = paid]
  BY DEF Forward
<1> HIDE DEF cb, nb
<1>5. cb.paid \in [SinkNames -> Nat]
  BY <1>3, BookFields
<1>6. /\ paid \in [SinkNames -> Nat]
      /\ paid["DATA_YIELD"] = b.paid["DATA_YIELD"] + amount
      /\ \A t \in SinkNames \ {"DATA_YIELD"} : paid[t] = b.paid[t]
  BY <1>1, <1>3, <1>5
<1> HIDE DEF paid
<1>7. /\ nb \in Book /\ nb.paid = paid
      /\ nb.inflows = b.inflows /\ nb.history = b.history /\ nb.entered = b.entered
      /\ nb.bal = cb.bal /\ nb.received = cb.received
  BY <1>3, <1>4, <1>6 DEF Book
<1>8. /\ b.bal \in [Accounts -> Nat] /\ b.paid \in [SinkNames -> Nat]
      /\ \A t \in SinkNames : b.bal[t] \in Nat /\ b.paid[t] \in Nat
  BY <1>1, BookFields
<1>9. BooksBalance(nb)
  <2>1. ASSUME NEW t \in SinkNames
        PROVE  nb.received[t] = nb.bal[t] + nb.paid[t]
    <3>1. b.bal[t] \in Nat /\ b.paid[t] \in Nat
      BY <1>8
    <3>2. b.received[t] = b.bal[t] + b.paid[t]
      BY DEF BooksBalance
    <3>3. CASE t = "MEV"
      BY <1>1, <1>3, <1>6, <1>7, <3>1, <3>2, <3>3
    <3>4. CASE t = "DATA_YIELD"
      BY <1>1, <1>3, <1>6, <1>7, <3>1, <3>2, <3>4
    <3>5. CASE t \notin {"MEV", "DATA_YIELD"}
      BY <1>1, <1>3, <1>6, <1>7, <3>2, <3>5
    <3> QED
      BY <3>3, <3>4, <3>5
  <2> QED
    BY <2>1 DEF BooksBalance
<1>10. nb.bal[Receiver] = b.bal[Receiver] /\ nb.bal[Router] = b.bal[Router]
  BY <1>1, <1>3, <1>7
<1>11. \A t \in SinkNames \ {"DATA_YIELD"} : nb.bal[t] >= b.bal[t]
  BY <1>1, <1>3, <1>7, <1>8
<1>12. Total(SinkBalances(nb)) = Total(SinkBalances(b))
  BY <1>3, <1>7, <1>8, BalanceTotal DEF SinkNames, Accounts
<1> QED
  BY <1>3, <1>6, <1>7, <1>9, <1>10, <1>11, <1>12 DEF nb

\* A route that may proceed hands the share to a sink, and DataYield can only
\* be forwarding to MEV: no other sink accepts a call from it.
LEMMA RouteTarget ==
    ASSUME ConfigTypeOK, NEW entry \in SinkConfig, NEW amount, CanRoute(entry, amount)
    PROVE  /\ entry.addr \in SinkNames
           /\ Redirects(entry.addr) => dataYield.mevSink = "MEV"
<1>1. entry.addr \in SinkNames
  BY DEF CanRoute, CanReceive
<1>2. ASSUME Redirects(entry.addr)
      PROVE  dataYield.mevSink = "MEV"
  <2> DEFINE m == dataYield.mevSink
  <2>1. m \in SinkNames /\ IsAuthorizedCaller(m, "DATA_YIELD")
    BY <1>2 DEF CanRoute, CanReceive
  <2>2. sinks[m].router \in RouterAddrs \union {NoAddr}
    BY <2>1 DEF ConfigTypeOK
  <2>3. "DATA_YIELD" \notin RouterAddrs \union {NoAddr}
    BY RailAssumption DEF RailAssumption, RouterAddrs, NoAddr, Router, Accounts, SinkNames
  <2> QED
    BY <2>1, <2>2, <2>3 DEF IsAuthorizedCaller
<1> QED
  BY <1>1, <1>2

\* What one _route call does to the books, forwarding included.
LEMMA AllocatedLemma ==
    ASSUME NEW b \in Book, NEW s \in SinkNames,
           NEW amount \in Nat, amount <= b.bal[Router], BooksBalance(b),
           Redirects(s) => dataYield.mevSink = "MEV"
    PROVE  LET nb == Allocated(b, s, amount)
           IN  /\ nb \in Book
               /\ nb.inflows = b.inflows /\ nb.history = b.history
               /\ nb.entered = b.entered
               /\ \A t \in SinkNames \ {"DATA_YIELD"} : nb.paid[t] = b.paid[t]
               /\ BooksBalance(nb)
               /\ nb.bal[Receiver] = b.bal[Receiver]
               /\ nb.bal[Router] = b.bal[Router] - amount
               /\ \A t \in SinkNames : nb.bal[t] >= b.bal[t]
               /\ Total(SinkBalances(nb)) = Total(SinkBalances(b)) + amount
<1> DEFINE cb == Credit(b, Router, s, amount)
<1>1. /\ Router \in Accounts /\ Router # s
      /\ SinkNames \subseteq Accounts /\ "DATA_YIELD" \in SinkNames
  BY NamesDistinct
<1>2. /\ cb \in Book
      /\ cb.inflows = b.inflows /\ cb.history = b.history
      /\ cb.paid = b.paid /\ cb.entered = b.entered
      /\ cb.bal[Router] = b.bal[Router] - amount
      /\ cb.bal[s] = b.bal[s] + amount
  BY <1>1, CreditLemma
<1>3. /\ BooksBalance(cb)
      /\ cb.bal[Receiver] = b.bal[Receiver]
      /\ \A t \in SinkNames : cb.bal[t] >= b.bal[t]
      /\ Total(SinkBalances(cb)) = Total(SinkBalances(b)) + amount
  BY CreditKeepsBooks
<1> HIDE DEF cb
<1>4. CASE ~Redirects(s)
  <2>1. Allocated(b, s, amount) = cb
    BY <1>4 DEF Allocated, cb
  <2> QED
    BY <1>2, <1>3, <2>1
<1>5. CASE Redirects(s)
  <2>1. s = "DATA_YIELD" /\ dataYield.mevSink = "MEV"
    BY <1>5 DEF Redirects
  <2> DEFINE nb == Forward(cb, amount)
  <2>2. Allocated(b, s, amount) = nb
    BY <1>5 DEF Allocated, cb
  <2>3. \A t \in SinkNames : b.bal[t] \in Nat /\ cb.bal[t] \in Nat
    BY <1>1, <1>2, BookFields
  <2>4. amount <= cb.bal["DATA_YIELD"]
    BY <1>1, <1>2, <2>1, <2>3
  <2>5. /\ nb \in Book
        /\ nb.inflows = cb.inflows /\ nb.history = cb.history
        /\ nb.entered = cb.entered
        /\ \A t \in SinkNames \ {"DATA_YIELD"} : nb.paid[t] = cb.paid[t]
        /\ BooksBalance(nb)
        /\ nb.bal[Receiver] = cb.bal[Receiver]
        /\ nb.bal[Router] = cb.bal[Router]
        /\ nb.bal["DATA_YIELD"] = cb.bal["DATA_YIELD"] - amount
        /\ \A t \in SinkNames \ {"DATA_YIELD"} : nb.bal[t] >= cb.bal[t]
        /\ Total(SinkBalances(nb)) = Total(SinkBalances(cb))
    BY <1>2, <1>3, <2>1, <2>4, ForwardLemma
  <2> HIDE DEF nb
  <2>6. \A t \in SinkNames : nb.bal[t] \in Nat
    BY <1>1, <2>5, BookFields
  <2>7. \A t \in SinkNames : nb.bal[t] >= b.bal[t]
    <3>1. nb.bal["DATA_YIELD"] = b.bal["DATA_YIELD"]
      BY <1>1, <1>2, <2>1, <2>3, <2>5
    <3> QED
      BY <1>1, <1>3, <2>3, <2>5, <2>6, <3>1
  <2> QED
    BY <1>2, <1>3, <2>2, <2>5, <2>7
<1> QED
  BY <1>4, <1>5
-----------------------------------------------------------------------------
\* What is left to route.

LEMMA UnroutedSteps ==
    ASSUME NEW shares \in [SinkNames -> Nat]
    PROVE  /\ Unrouted(shares, 1) = Total(shares)
           /\ Unrouted(shares, 7) = 0
           /\ \A n \in 1 .. 6 :
                /\ RouteOrder[n] \in SinkNames
                /\ Unrouted(shares, n + 1) \in Nat
                /\ Unrouted(shares, n) = shares[RouteOrder[n]] + Unrouted(shares, n + 1)
<1> DEFINE t == shares["TREASURY"]
           m == shares["MEV"]
           o == shares["OPS_DEV"]
           d == shares["DATA_YIELD"]
           g == shares["DELEGATE_POOLS"]
           f == shares["FOUNDER"]
           left(n) == [s \in SinkNames |->
                         IF \E i \in n .. 6 : RouteOrder[i] = s THEN shares[s] ELSE 0]
<1>1. /\ t \in Nat /\ m \in Nat /\ o \in Nat /\ d \in Nat /\ g \in Nat /\ f \in Nat
  BY DEF SinkNames
<1>2. /\ RouteOrder[1] = "TREASURY" /\ RouteOrder[2] = "MEV" /\ RouteOrder[3] = "OPS_DEV"
      /\ RouteOrder[4] = "DATA_YIELD" /\ RouteOrder[5] = "DELEGATE_POOLS"
      /\ RouteOrder[6] = "FOUNDER"
  BY DEF RouteOrder
<1>3. ASSUME NEW n \in 1 .. 7
      PROVE  /\ left(n)["TREASURY"] = IF n <= 1 THEN t ELSE 0
             /\ left(n)["MEV"] = IF n <= 2 THEN m ELSE 0
             /\ left(n)["OPS_DEV"] = IF n <= 3 THEN o ELSE 0
             /\ left(n)["DATA_YIELD"] = IF n <= 4 THEN d ELSE 0
             /\ left(n)["DELEGATE_POOLS"] = IF n <= 5 THEN g ELSE 0
             /\ left(n)["FOUNDER"] = IF n <= 6 THEN f ELSE 0
  <2>1. \A i \in n .. 6 : i = 1 \/ i = 2 \/ i = 3 \/ i = 4 \/ i = 5 \/ i = 6
    OBVIOUS
  <2>2. /\ (\E i \in n .. 6 : RouteOrder[i] = "TREASURY") <=> n <= 1
        /\ (\E i \in n .. 6 : RouteOrder[i] = "MEV") <=> n <= 2
        /\ (\E i \in n .. 6 : RouteOrder[i] = "OPS_DEV") <=> n <= 3
        /\ (\E i \in n .. 6 : RouteOrder[i] = "DATA_YIELD") <=> n <= 4
        /\ (\E i \in n .. 6 : RouteOrder[i] = "DELEGATE_POOLS") <=> n <= 5
        /\ (\E i \in n .. 6 : RouteOrder[i] = "FOUNDER") <=> n <= 6
    BY <1>2, <2>1
  <2> QED
    BY <2>2 DEF SinkNames
<1>4. \A n : Unrouted(shares, n) = Total(left(n))
  BY DEF Unrouted
<1> HIDE DEF left, t, m, o, d, g, f
<1>5. /\ Unrouted(shares, 1) = t + m + o + d + g + f
      /\ Unrouted(shares, 2) = m + o + d + g + f
      /\ Unrouted(shares, 3) = o + d + g + f
      /\ Unrouted(shares, 4) = d + g + f
      /\ Unrouted(shares, 5) = g + f
      /\ Unrouted(shares, 6) = f
      /\ Unrouted(shares, 7) = 0
  BY <1>1, <1>3, <1>4 DEF Total
<1>6. Total(shares) = t + m + o + d + g + f
  BY DEF Total, t, m, o, d, g, f
<1>7. /\ shares[RouteOrder[1]] = t /\ shares[RouteOrder[2]] = m
      /\ shares[RouteOrder[3]] = o /\ shares[RouteOrder[4]] = d
      /\ shares[RouteOrder[5]] = g /\ shares[RouteOrder[6]] = f
  BY <1>2 DEF t, m, o, d, g, f
<1>8. \A n \in 1 .. 6 : n = 1 \/ n = 2 \/ n = 3 \/ n = 4 \/ n = 5 \/ n = 6
  OBVIOUS
<1>9. \A n \in 1 .. 6 : RouteOrder[n] \in SinkNames
  BY <1>2, <1>8 DEF SinkNames
<1>10. \A n \in 1 .. 6 :
         /\ Unrouted(shares, n + 1) \in Nat
         /\ Unrouted(shares, n) = shares[RouteOrder[n]] + Unrouted(shares, n + 1)
  BY <1>1, <1>5, <1>7, <1>8
<1> QED
  BY <1>5, <1>6, <1>9, <1>10
-----------------------------------------------------------------------------
\* The configuration.

LEMMA InitialPolicyAccepted ==
    InitialPolicy \in AllocationPolicy /\ PolicyAccepted(InitialPolicy)
<1>1. /\ InitialPolicy["TREASURY"] = 4000 /\ InitialPolicy["MEV"] = 2500
      /\ InitialPolicy["OPS_DEV"] = 1500 /\ InitialPolicy["DATA_YIELD"] = 1000
      /\ InitialPolicy["DELEGATE_POOLS"] = 500 /\ InitialPolicy["FOUNDER"] = 500
  BY DEF InitialPolicy, PolicyOf, SinkNames
<1>2. \A s \in SinkNames : InitialPolicy[s] \in UInt16
  BY <1>1 DEF SinkNames, UInt16, MAX_UINT16
<1>3. InitialPolicy \in AllocationPolicy
  BY <1>2 DEF InitialPolicy, PolicyOf, AllocationPolicy
<1>4. PolicyAccepted(InitialPolicy)
  BY <1>1 DEF PolicyAccepted, Total, BPS_DENOMINATOR, TREASURY_FLOOR_BPS, FOUNDER_MAX_BPS
<1> QED
  BY <1>3, <1>4

LEMMA ConfigInit == Init => ConfigTypeOK
<1> SUFFICES ASSUME Init PROVE ConfigTypeOK
  OBVIOUS
<1>1. PICK k \in StartSteps : WiredUpTo(k)
  BY DEF Init
<1>2. Router \in RouterAddrs /\ Receiver \in ReceiverAddrs
      /\ SinkNames \subseteq SinkAddrs /\ "MEV" \in SinkAddrs /\ "DATA_YIELD" \in SinkAddrs
  BY DEF RouterAddrs, ReceiverAddrs, SinkAddrs, SinkNames
<1>3. receiver \in [router : RouterAddrs \union {NoAddr}, paused : BOOLEAN,
                    approved : SUBSET Sources]
  BY <1>1, <1>2 DEF WiredUpTo
<1>4. /\ router \in [receiver : ReceiverAddrs \union {NoAddr}, paused : BOOLEAN,
                     policy : AllocationPolicy, sinks : [SinkNames -> SinkConfig]]
      /\ PolicyAccepted(router.policy)
  <2> DEFINE registry == [s \in SinkNames |->
                            [addr |-> IF s \in RegisteredBy(k) THEN s ELSE NoAddr,
                             active |-> s \in RegisteredBy(k)]]
  <2>1. registry \in [SinkNames -> SinkConfig]
    BY <1>2 DEF SinkConfig
  <2>2. router = [receiver |-> IF k >= 7 THEN Receiver ELSE NoAddr, paused |-> FALSE,
                  policy |-> InitialPolicy, sinks |-> registry]
    BY <1>1 DEF WiredUpTo
  <2> HIDE DEF registry
  <2> QED
    BY <1>2, <2>1, <2>2, InitialPolicyAccepted
<1>5. sinks \in [SinkNames -> [router : RouterAddrs \union {NoAddr}, paused : BOOLEAN]]
  BY <1>1, <1>2 DEF WiredUpTo
<1>6. dataYield \in [mevSink : SinkAddrs \union {NoAddr}, phase3Active : BOOLEAN]
  BY <1>1, <1>2 DEF WiredUpTo
<1>7. mevSource \in SinkAddrs \union {NoAddr}
  BY <1>1, <1>2 DEF WiredUpTo
<1>8. founderCtl \in [founder : Founders, drawsPaused : BOOLEAN]
  BY DEF Init
<1>9. govOps \in 0 .. MaxGovOps
  BY RailAssumption DEF Init, RailAssumption
<1> QED
  BY <1>3, <1>4, <1>5, <1>6, <1>7, <1>8, <1>9 DEF ConfigTypeOK

LEMMA GovernKeepsCount ==
    ASSUME ConfigTypeOK, Govern
    PROVE  govOps' \in 0 .. MaxGovOps /\ UNCHANGED flow
  BY RailAssumption DEF ConfigTypeOK, Govern, RailAssumption

LEMMA ConfigStep == ConfigTypeOK /\ [Next]_vars => ConfigTypeOK'
<1> SUFFICES ASSUME ConfigTypeOK, [Next]_vars PROVE ConfigTypeOK'
  OBVIOUS
<1>1. CASE GovernWiring
  <2>1. CASE \E addr \in RouterAddrs : SetReceiverRouter(addr)
    BY <2>1, GovernKeepsCount DEF SetReceiverRouter, ConfigTypeOK
  <2>2. CASE \E addr \in ReceiverAddrs : SetRouterReceiver(addr)
    BY <2>2, GovernKeepsCount DEF SetRouterReceiver, ConfigTypeOK
  <2>3. CASE \E s \in SinkNames, addr \in RouterAddrs : SetSinkRouter(s, addr)
    <3>1. PICK s \in SinkNames, addr \in RouterAddrs : SetSinkRouter(s, addr)
      BY <2>3
    <3>2. sinks' \in [SinkNames -> [router : RouterAddrs \union {NoAddr}, paused : BOOLEAN]]
      BY <3>1 DEF SetSinkRouter, ConfigTypeOK
    <3> QED
      BY <3>1, <3>2, GovernKeepsCount DEF SetSinkRouter, ConfigTypeOK
  <2>4. CASE \E r \in Registrations : RegisterSink(r[1], r[2], r[3])
    <3>1. PICK r \in Registrations : RegisterSink(r[1], r[2], r[3])
      BY <2>4
    <3>2. r[1] \in SinkNames /\ r[2] \in SinkAddrs /\ r[3] \in BOOLEAN
      BY RailAssumption DEF RailAssumption
    <3> DEFINE entry == [addr |-> r[2], active |-> r[3]]
               registry == [router.sinks EXCEPT ![r[1]] = entry]
    <3>3. entry \in SinkConfig
      BY <3>2 DEF SinkConfig
    <3>4. registry \in [SinkNames -> SinkConfig]
      BY <3>2, <3>3 DEF ConfigTypeOK
    <3>5. router' = [router EXCEPT !.sinks = registry]
      BY <3>1 DEF RegisterSink
    <3> HIDE DEF registry
    <3>6. /\ router' \in [receiver : ReceiverAddrs \union {NoAddr}, paused : BOOLEAN,
                          policy : AllocationPolicy, sinks : [SinkNames -> SinkConfig]]
          /\ router'.policy = router.policy
      BY <3>4, <3>5 DEF ConfigTypeOK
    <3> QED
      BY <3>1, <3>6, GovernKeepsCount DEF RegisterSink, ConfigTypeOK
  <2>5. CASE \E addr \in SinkAddrs : SetMevSink(addr)
    BY <2>5, GovernKeepsCount DEF SetMevSink, ConfigTypeOK
  <2>6. CASE \E addr \in SinkAddrs : SetDataYieldSource(addr)
    BY <2>6, GovernKeepsCount DEF SetDataYieldSource, ConfigTypeOK
  <2> QED
    BY <1>1, <2>1, <2>2, <2>3, <2>4, <2>5, <2>6 DEF GovernWiring
<1>2. CASE GovernOperation
  <2>1. CASE \E b \in BOOLEAN : PauseReceiver(b)
    BY <2>1, GovernKeepsCount DEF PauseReceiver, ConfigTypeOK
  <2>2. CASE \E b \in BOOLEAN : PauseRouter(b)
    BY <2>2, GovernKeepsCount DEF PauseRouter, ConfigTypeOK
  <2>3. CASE \E s \in SinkNames, b \in BOOLEAN : PauseSink(s, b)
    <3>1. PICK s \in SinkNames, b \in BOOLEAN : PauseSink(s, b)
      BY <2>3
    <3>2. sinks' \in [SinkNames -> [router : RouterAddrs \union {NoAddr}, paused : BOOLEAN]]
      BY <3>1 DEF PauseSink, ConfigTypeOK
    <3> QED
      BY <3>1, <3>2, GovernKeepsCount DEF PauseSink, ConfigTypeOK
  <2>4. CASE \E source \in Sources, b \in BOOLEAN : SetApprovedSource(source, b)
    <3>1. PICK source \in Sources, b \in BOOLEAN : SetApprovedSource(source, b)
      BY <2>4
    <3>2. receiver'.approved \in SUBSET Sources
      BY <3>1 DEF SetApprovedSource, ConfigTypeOK
    <3> QED
      BY <3>1, <3>2, GovernKeepsCount DEF SetApprovedSource, ConfigTypeOK
  <2>5. CASE \E p \in PolicyChoices : UpdateAllocationPolicy(p)
    BY <2>5, GovernKeepsCount, RailAssumption
    DEF UpdateAllocationPolicy, ConfigTypeOK, RailAssumption
  <2>6. CASE \E b \in BOOLEAN : SetPhase3Active(b)
    BY <2>6, GovernKeepsCount DEF SetPhase3Active, ConfigTypeOK
  <2>7. CASE \E f \in Founders : SetFounder(f)
    BY <2>7, GovernKeepsCount DEF SetFounder, ConfigTypeOK
  <2>8. CASE \E b \in BOOLEAN : SetDrawsPaused(b)
    BY <2>8, GovernKeepsCount DEF SetDrawsPaused, ConfigTypeOK
  <2> QED
    BY <1>2, <2>1, <2>2, <2>3, <2>4, <2>5, <2>6, <2>7, <2>8 DEF GovernOperation
<1>3. CASE UNCHANGED config
  BY <1>3 DEF config, ConfigTypeOK
<1>4. InflowStep \/ Withdrawal \/ UNCHANGED vars => UNCHANGED config
  BY DEF InflowStep, ReceiveInflow, ProcessInflow, Route, FinishInflow, Revert,
         Withdrawal, WithdrawToEngine, WithdrawOps, Distribute, FounderWithdraw,
         PayOut, config, vars
<1> QED
  BY <1>1, <1>2, <1>3, <1>4 DEF Next
-----------------------------------------------------------------------------
\* The flow of an inflow, action by action.

LEMMA GovernanceKeepsFlow == GovernWiring \/ GovernOperation => UNCHANGED flow
  BY DEF GovernWiring, GovernOperation, Govern, SetReceiverRouter, SetRouterReceiver,
         SetSinkRouter, RegisterSink, SetMevSink, SetDataYieldSource, PauseReceiver,
         PauseRouter, PauseSink, SetApprovedSource, UpdateAllocationPolicy,
         SetPhase3Active, SetFounder, SetDrawsPaused

LEMMA FlowInvStutter == FlowInv /\ UNCHANGED flow => FlowInv'
  BY DEF FlowInv, flow, FlowTypeOK, EtherInFlight, SinkBooksBalance, CommittedAtRest,
         InFlight, AllocationRecorded, HistoryMatchesInflows, TreasuryFloorInHistory,
         SinkBalances, Total, Unrouted

LEMMA EmptyBookLemma ==
    /\ EmptyBook \in Book
    /\ \A a \in Accounts : EmptyBook.bal[a] = 0
    /\ \A s \in SinkNames : EmptyBook.received[s] = 0 /\ EmptyBook.paid[s] = 0
    /\ EmptyBook.inflows = << >> /\ EmptyBook.history = << >> /\ ~EmptyBook.entered
  BY EmptySeq DEF EmptyBook, Book, NoShares

TxType == [phase : {"idle", "accepted", "routing"}, amount : Nat,
           shares : [SinkNames -> Nat], next : 1 .. 7]

LEMMA NoTxLemma == NoTx \in TxType /\ NoTx.phase = "idle"
  BY DEF NoTx, NoShares, TxType

\* A state with no inflow in progress satisfies the invariant when its book is a
\* committed book at rest whose history matches.
LEMMA IdleFlowInv ==
    ASSUME committed' \in Book, book' = committed', tx' \in TxType, tx'.phase = "idle",
           CommittedAtRest', HistoryMatchesInflows', TreasuryFloorInHistory'
    PROVE  FlowInv'
<1>1. FlowTypeOK'
  BY DEF FlowTypeOK, TxType
<1>2. EtherInFlight'
  BY DEF EtherInFlight, CommittedAtRest
<1>3. SinkBooksBalance'
  BY DEF SinkBooksBalance, CommittedAtRest
<1>4. InFlight' /\ AllocationRecorded'
  BY DEF InFlight, AllocationRecorded
<1> QED
  BY <1>1, <1>2, <1>3, <1>4 DEF FlowInv

LEMMA FlowInit == Init => FlowInv
<1> SUFFICES ASSUME Init PROVE FlowInv
  OBVIOUS
<1>1. book = EmptyBook /\ committed = EmptyBook /\ tx = NoTx
  BY DEF Init
<1>2. FlowTypeOK
  BY <1>1, EmptyBookLemma, NoTxLemma DEF FlowTypeOK, TxType
<1>3. EtherInFlight
  BY <1>1, EmptyBookLemma, NoTxLemma, NamesDistinct DEF EtherInFlight
<1>4. SinkBooksBalance
  BY <1>1, EmptyBookLemma, NamesDistinct DEF SinkBooksBalance
<1>5. CommittedAtRest
  BY <1>1, EmptyBookLemma, NamesDistinct DEF CommittedAtRest
<1>6. InFlight /\ AllocationRecorded
  BY <1>1, NoTxLemma DEF InFlight, AllocationRecorded
<1>7. HistoryMatchesInflows /\ TreasuryFloorInHistory
  BY <1>1, EmptyBookLemma DEF HistoryMatchesInflows, TreasuryFloorInHistory
<1> QED
  BY <1>2, <1>3, <1>4, <1>5, <1>6, <1>7 DEF FlowInv

LEMMA RevertStep ==
    ASSUME FlowInv, Revert
    PROVE  FlowInv'
<1>1. book' = committed /\ committed' = committed /\ tx' = NoTx
  BY DEF Revert
<1>2. committed' \in Book
  BY <1>1 DEF FlowInv, FlowTypeOK
<1>3. CommittedAtRest' /\ HistoryMatchesInflows' /\ TreasuryFloorInHistory'
  BY <1>1 DEF FlowInv, CommittedAtRest, HistoryMatchesInflows, TreasuryFloorInHistory
<1> QED
  BY <1>1, <1>2, <1>3, IdleFlowInv, NoTxLemma

LEMMA PayOutStep ==
    ASSUME FlowInv, NEW s \in SinkNames, NEW amount \in Nat, PayOut(s, amount)
    PROVE  FlowInv'
<1> DEFINE bal == [committed.bal EXCEPT ![s] = @ - amount]
           paid == [committed.paid EXCEPT ![s] = @ + amount]
<1>1. /\ Receiver \in Accounts /\ Router \in Accounts /\ SinkNames \subseteq Accounts
      /\ Receiver # s /\ Router # s
  BY NamesDistinct
<1>2. /\ committed \in Book /\ committed.bal \in [Accounts -> Nat]
      /\ committed.paid \in [SinkNames -> Nat]
  BY BookFields DEF FlowInv, FlowTypeOK
<1>3. committed.bal[s] \in Nat /\ committed.paid[s] \in Nat /\ amount <= committed.bal[s]
  BY <1>1, <1>2 DEF PayOut
<1>4. bal \in [Accounts -> Nat] /\ paid \in [SinkNames -> Nat]
  BY <1>1, <1>2, <1>3
<1>5. /\ bal[s] = committed.bal[s] - amount /\ paid[s] = committed.paid[s] + amount
      /\ \A a \in Accounts \ {s} : bal[a] = committed.bal[a]
      /\ \A t \in SinkNames \ {s} : paid[t] = committed.paid[t]
  BY <1>1, <1>2
<1>6. committed' = [committed EXCEPT !.bal = bal, !.paid = paid]
  BY DEF PayOut
<1> HIDE DEF bal, paid
<1>7. /\ committed' \in Book /\ committed'.bal = bal /\ committed'.paid = paid
      /\ committed'.received = committed.received /\ committed'.entered = committed.entered
      /\ committed'.inflows = committed.inflows /\ committed'.history = committed.history
  BY <1>2, <1>4, <1>6 DEF Book
<1>8. \A t \in SinkNames : committed.bal[t] \in Nat /\ committed.paid[t] \in Nat
  BY <1>1, <1>2
<1>9. \A t \in SinkNames : committed'.received[t] = committed'.bal[t] + committed'.paid[t]
  <2>1. ASSUME NEW t \in SinkNames
        PROVE  committed'.received[t] = committed'.bal[t] + committed'.paid[t]
    <3>1. committed.received[t] = committed.bal[t] + committed.paid[t]
      BY DEF FlowInv, CommittedAtRest
    <3>2. CASE t = s
      BY <1>3, <1>5, <1>7, <3>1, <3>2
    <3>3. CASE t # s
      BY <1>1, <1>5, <1>7, <3>1, <3>3
    <3> QED
      BY <3>2, <3>3
  <2> QED
    BY <2>1
<1>10. CommittedAtRest'
  BY <1>1, <1>5, <1>7, <1>9 DEF FlowInv, CommittedAtRest
<1>11. HistoryMatchesInflows' /\ TreasuryFloorInHistory'
  BY <1>7 DEF FlowInv, HistoryMatchesInflows, TreasuryFloorInHistory
<1>12. book' = committed' /\ tx' \in TxType /\ tx'.phase = "idle"
  BY DEF PayOut, FlowInv, FlowTypeOK, TxType
<1> QED
  BY <1>7, <1>10, <1>11, <1>12, IdleFlowInv

LEMMA ReceiveInflowStep ==
    ASSUME FlowInv, NEW source \in Sources, NEW amount \in Inflows,
           ReceiveInflow(source, amount)
    PROVE  FlowInv'
<1> DEFINE inflow == [amount |-> amount, sender |-> source]
           inflows == Append(committed.inflows, inflow)
           bal == [committed.bal EXCEPT ![Receiver] = @ + amount]
<1>1. /\ Receiver \in Accounts /\ Router \in Accounts /\ SinkNames \subseteq Accounts
      /\ Receiver \notin SinkNames /\ Router # Receiver
  BY NamesDistinct
<1>2. /\ committed \in Book /\ committed.bal \in [Accounts -> Nat]
      /\ committed.inflows \in Seq(InflowRecord)
  BY BookFields DEF FlowInv, FlowTypeOK
<1>3. amount \in Nat
  BY RailAssumption DEF RailAssumption
<1>4. inflow \in InflowRecord
  BY <1>3 DEF InflowRecord
<1>5. inflows \in Seq(InflowRecord)
  BY <1>2, <1>4, AppendProperties
<1>6. /\ bal \in [Accounts -> Nat]
      /\ bal[Receiver] = amount
      /\ \A a \in Accounts \ {Receiver} : bal[a] = committed.bal[a]
  BY <1>1, <1>2, <1>3 DEF FlowInv, CommittedAtRest
<1>7. book' = [committed EXCEPT !.inflows = inflows, !.bal = bal]
  BY DEF ReceiveInflow
<1> HIDE DEF inflows, bal
<1>8. /\ book' \in Book /\ book'.inflows = inflows /\ book'.bal = bal
      /\ book'.history = committed.history /\ book'.received = committed.received
      /\ book'.paid = committed.paid /\ book'.entered = committed.entered
  BY <1>2, <1>5, <1>6, <1>7 DEF Book
<1>9. /\ tx' \in TxType /\ tx'.phase = "accepted" /\ tx'.amount = amount /\ tx'.next = 1
  BY <1>3 DEF ReceiveInflow, TxType, NoShares
<1>10. committed' = committed
  BY DEF ReceiveInflow
<1>11. FlowTypeOK'
  BY <1>2, <1>8, <1>9, <1>10 DEF FlowTypeOK, TxType
<1>12. EtherInFlight'
  BY <1>1, <1>6, <1>8, <1>9 DEF EtherInFlight, FlowInv, CommittedAtRest
<1>13. \A t \in SinkNames : book'.bal[t] = committed.bal[t]
  BY <1>1, <1>6, <1>8
<1>14. SinkBooksBalance'
  BY <1>8, <1>13 DEF SinkBooksBalance, FlowInv, CommittedAtRest
<1>15. InFlight'
  <2>1. inflow \in [amount : Inflows, sender : Sources] /\ inflow.amount = amount
    OBVIOUS
  <2>2. book'.inflows = Append(committed'.inflows, inflow)
    BY <1>8, <1>10 DEF inflows
  <2>3. \A s \in SinkNames : book'.bal[s] >= committed'.bal[s]
    BY <1>1, <1>2, <1>10, <1>13
  <2>4. SinkBalances(book)' = SinkBalances(committed)
    BY <1>13 DEF SinkBalances
  <2>5. book'.bal[Receiver] = amount /\ book'.bal[Router] = 0
    BY <1>1, <1>6, <1>8 DEF FlowInv, CommittedAtRest
  <2>6. Total(SinkBalances(committed)) \in Nat
    BY <1>1, <1>2, BalanceTotal DEF SinkNames
  <2>7. Total(SinkBalances(book))' = Total(SinkBalances(committed))
    BY <2>4 DEF Total
  <2>8. SinkBalances(committed)' = SinkBalances(committed)
    BY <1>10 DEF SinkBalances
  <2>9. Total(SinkBalances(book))' + book'.bal[Receiver] + book'.bal[Router]
          = Total(SinkBalances(committed))' + tx'.amount
    BY <1>3, <1>9, <2>5, <2>6, <2>7, <2>8 DEF Total
  <2>10. \A s \in SinkNames \ {"DATA_YIELD"} : book'.paid[s] = committed'.paid[s]
    BY <1>8, <1>10
  <2> QED
    BY <1>9, <2>1, <2>2, <2>3, <2>9, <2>10 DEF InFlight
<1>16. AllocationRecorded'
  BY <1>8, <1>9, <1>10 DEF AllocationRecorded
<1>17. CommittedAtRest' /\ HistoryMatchesInflows' /\ TreasuryFloorInHistory'
  BY <1>10 DEF FlowInv, CommittedAtRest, HistoryMatchesInflows, TreasuryFloorInHistory
<1> QED
  BY <1>11, <1>12, <1>14, <1>15, <1>16, <1>17 DEF FlowInv

LEMMA ProcessInflowStep ==
    ASSUME ConfigTypeOK, FlowInv, ProcessInflow
    PROVE  FlowInv'
<1> DEFINE shares == CalculateAmounts(router.policy, tx.amount)
           record == [totalInflow |-> tx.amount, shares |-> shares]
           tb == Transfer(book, Receiver, Router, tx.amount)
<1>1. /\ Receiver \in Accounts /\ Router \in Accounts /\ SinkNames \subseteq Accounts
      /\ Receiver \notin SinkNames /\ Router \notin SinkNames /\ Receiver # Router
  BY NamesDistinct
<1>2. book \in Book /\ committed \in Book /\ tx.amount \in Nat /\ tx \in TxType
  BY DEF FlowInv, FlowTypeOK, TxType
<1>3. tx.phase = "accepted" /\ tx.next = 1 /\ book.history = committed.history
  BY DEF ProcessInflow, FlowInv, AllocationRecorded
<1>4. book.bal[Receiver] = tx.amount /\ book.bal[Router] = 0 /\ ~book.entered
  BY <1>3 DEF FlowInv, EtherInFlight
<1>5. router.policy \in AllocationPolicy /\ PolicyAccepted(router.policy)
  BY DEF ConfigTypeOK
<1>6. /\ shares \in [SinkNames -> Nat]
      /\ Total(shares) = tx.amount
      /\ TreasuryFloorKept(shares, tx.amount)
  BY <1>2, <1>5, SplitIsExact, TreasuryFloorHolds DEF SplitExact
<1> HIDE DEF shares
<1>7. record \in AllocationRecord
  BY <1>2, <1>6 DEF AllocationRecord
<1>8. /\ tb \in Book
      /\ tb.inflows = book.inflows /\ tb.history = book.history
      /\ tb.received = book.received /\ tb.paid = book.paid
      /\ tb.bal[Receiver] = 0
      /\ tb.bal[Router] = tx.amount
      /\ \A a \in Accounts \ {Receiver, Router} : tb.bal[a] = book.bal[a]
  BY <1>1, <1>2, <1>4, TransferLemma
<1>9. book' = [tb EXCEPT !.entered = TRUE, !.history = Append(tb.history, record)]
  BY DEF ProcessInflow, shares
<1>10. tx' = [tx EXCEPT !.phase = "routing", !.shares = shares] /\ committed' = committed
  BY DEF ProcessInflow, shares
<1> HIDE DEF tb, record
<1>11. Append(tb.history, record) \in Seq(AllocationRecord)
  BY <1>7, <1>8, BookFields, AppendProperties
<1>12. /\ book' \in Book /\ book'.entered = TRUE
       /\ book'.history = Append(committed.history, record)
       /\ book'.inflows = book.inflows /\ book'.received = book.received
       /\ book'.paid = book.paid /\ book'.bal = tb.bal
  BY <1>3, <1>8, <1>9, <1>11 DEF Book
<1>13. /\ tx' \in TxType /\ tx'.phase = "routing" /\ tx'.amount = tx.amount
       /\ tx'.shares = shares /\ tx'.next = 1
  BY <1>2, <1>3, <1>6, <1>10 DEF TxType
<1>14. FlowTypeOK'
  BY <1>2, <1>10, <1>12, <1>13 DEF FlowTypeOK, TxType
<1>15. EtherInFlight'
  <2>1. Unrouted(shares, 1) = tx.amount
    BY <1>6, UnroutedSteps
  <2>2. Unrouted(tx.shares, tx.next)' = Unrouted(shares, 1)
    BY <1>13 DEF Unrouted, Total
  <2> QED
    BY <1>8, <1>12, <1>13, <2>1, <2>2 DEF EtherInFlight
<1>16. \A t \in SinkNames : book'.bal[t] = book.bal[t]
  BY <1>1, <1>8, <1>12
<1>17. SinkBooksBalance'
  BY <1>12, <1>16 DEF SinkBooksBalance, FlowInv
<1>18. InFlight'
  <2>1. \E inflow \in [amount : Inflows, sender : Sources] :
          /\ inflow.amount = tx'.amount
          /\ book'.inflows = Append(committed'.inflows, inflow)
    BY <1>3, <1>10, <1>12, <1>13 DEF InFlight, FlowInv
  <2>2. \A s \in SinkNames : book'.bal[s] >= committed'.bal[s]
    BY <1>3, <1>10, <1>16 DEF InFlight, FlowInv
  <2>3. Total(SinkBalances(book))' = Total(SinkBalances(book))
    BY <1>16 DEF SinkBalances, Total, SinkNames
  <2>4. Total(SinkBalances(committed))' = Total(SinkBalances(committed))
    BY <1>10 DEF SinkBalances, Total
  <2>5. Total(SinkBalances(book)) + book.bal[Receiver] + book.bal[Router]
          = Total(SinkBalances(committed)) + tx.amount
    BY <1>3 DEF InFlight, FlowInv
  <2>6. Total(SinkBalances(book)) \in Nat
    <3>1. \A s \in SinkNames : book.bal[s] \in Nat
      BY <1>1, <1>2, BookFields
    <3> QED
      BY <3>1, BalanceTotal DEF SinkNames
  <2>7. Total(SinkBalances(book))' + book'.bal[Receiver] + book'.bal[Router]
          = Total(SinkBalances(committed))' + tx'.amount
    BY <1>2, <1>4, <1>8, <1>12, <1>13, <2>3, <2>4, <2>5, <2>6
  <2>8. \A s \in SinkNames \ {"DATA_YIELD"} : book'.paid[s] = committed'.paid[s]
    BY <1>3, <1>10, <1>12 DEF InFlight, FlowInv
  <2> QED
    BY <2>1, <2>2, <2>7, <2>8 DEF InFlight
<1>19. AllocationRecorded'
  <2>1. TreasuryFloorKept(tx.shares, tx.amount)' <=> TreasuryFloorKept(shares, tx.amount)
    BY <1>13 DEF TreasuryFloorKept
  <2>2. Total(tx.shares)' = Total(shares)
    BY <1>13 DEF Total
  <2>3. book'.history = Append(committed'.history, [totalInflow |-> tx'.amount, shares |-> tx'.shares])
    BY <1>10, <1>12, <1>13 DEF record
  <2> QED
    BY <1>6, <1>13, <2>1, <2>2, <2>3 DEF AllocationRecorded
<1>20. CommittedAtRest' /\ HistoryMatchesInflows' /\ TreasuryFloorInHistory'
  BY <1>10 DEF FlowInv, CommittedAtRest, HistoryMatchesInflows, TreasuryFloorInHistory
<1> QED
  BY <1>14, <1>15, <1>17, <1>18, <1>19, <1>20 DEF FlowInv

LEMMA RouteStep ==
    ASSUME ConfigTypeOK, FlowInv, Route
    PROVE  FlowInv'
<1> DEFINE name == RouteOrder[tx.next]
           entry == router.sinks[name]
           s == entry.addr
           amount == tx.shares[name]
           nb == Allocated(book, s, amount)
<1>1. /\ SinkNames \subseteq Accounts
      /\ Receiver \in Accounts /\ Router \in Accounts
  BY NamesDistinct
<1>2. /\ book \in Book /\ committed \in Book /\ tx \in TxType /\ tx.amount \in Nat
      /\ tx.shares \in [SinkNames -> Nat] /\ tx.next \in 1 .. 7
  BY DEF FlowInv, FlowTypeOK, TxType
<1>3. tx.phase = "routing" /\ tx.next \in 1 .. 6
  BY <1>2 DEF Route
<1>4. /\ name \in SinkNames
      /\ Unrouted(tx.shares, tx.next + 1) \in Nat
      /\ Unrouted(tx.shares, tx.next) = amount + Unrouted(tx.shares, tx.next + 1)
  BY <1>2, <1>3, UnroutedSteps
<1>5. amount \in Nat
  BY <1>2, <1>4
<1>6. /\ book.bal[Receiver] = 0 /\ book.entered
      /\ book.bal[Router] = Unrouted(tx.shares, tx.next)
  BY <1>3 DEF FlowInv, EtherInFlight
<1>7. amount <= book.bal[Router]
  BY <1>4, <1>5, <1>6
<1>8. BooksBalance(book)
  BY DEF FlowInv, SinkBooksBalance, BooksBalance
<1>9. CanRoute(entry, amount) /\ book' = nb
  BY DEF Route
<1>10. entry \in SinkConfig
  BY <1>4 DEF ConfigTypeOK
<1> HIDE DEF entry, amount
<1>11. s \in SinkNames /\ (Redirects(s) => dataYield.mevSink = "MEV")
  BY <1>9, <1>10, RouteTarget
<1> HIDE DEF s, name
<1>12. /\ nb \in Book
       /\ nb.inflows = book.inflows /\ nb.history = book.history
       /\ nb.entered = book.entered
       /\ \A t \in SinkNames \ {"DATA_YIELD"} : nb.paid[t] = book.paid[t]
       /\ BooksBalance(nb)
       /\ nb.bal[Receiver] = book.bal[Receiver]
       /\ nb.bal[Router] = book.bal[Router] - amount
       /\ \A t \in SinkNames : nb.bal[t] >= book.bal[t]
       /\ Total(SinkBalances(nb)) = Total(SinkBalances(book)) + amount
  BY <1>2, <1>5, <1>7, <1>8, <1>11, AllocatedLemma
<1> HIDE DEF nb
<1>13. /\ tx' \in TxType /\ tx'.phase = "routing" /\ tx'.amount = tx.amount
       /\ tx'.shares = tx.shares /\ tx'.next = tx.next + 1
       /\ committed' = committed
  BY <1>2, <1>3 DEF Route, TxType
<1>14. FlowTypeOK'
  BY <1>2, <1>9, <1>12, <1>13 DEF FlowTypeOK, TxType
<1>15. EtherInFlight'
  <2>1. Unrouted(tx.shares, tx.next)' = Unrouted(tx.shares, tx.next + 1)
    BY <1>13 DEF Unrouted, Total
  <2> QED
    BY <1>4, <1>5, <1>6, <1>9, <1>12, <1>13, <2>1 DEF EtherInFlight
<1>16. SinkBooksBalance'
  BY <1>9, <1>12 DEF SinkBooksBalance, BooksBalance
<1>17. InFlight'
  <2>1. \E inflow \in [amount : Inflows, sender : Sources] :
          /\ inflow.amount = tx'.amount
          /\ book'.inflows = Append(committed'.inflows, inflow)
    BY <1>3, <1>9, <1>12, <1>13 DEF InFlight, FlowInv
  <2>2. \A t \in SinkNames : /\ book.bal[t] \in Nat /\ nb.bal[t] \in Nat
                             /\ committed.bal[t] \in Nat
    BY <1>1, <1>2, <1>12, BookFields
  <2>3. \A t \in SinkNames : book'.bal[t] >= committed'.bal[t]
    BY <1>3, <1>9, <1>12, <1>13, <2>2 DEF InFlight, FlowInv
  <2>4. Total(SinkBalances(book))' = Total(SinkBalances(nb))
    BY <1>9 DEF SinkBalances, Total
  <2>5. Total(SinkBalances(committed))' = Total(SinkBalances(committed))
    BY <1>13 DEF SinkBalances, Total
  <2>6. Total(SinkBalances(book)) + book.bal[Receiver] + book.bal[Router]
          = Total(SinkBalances(committed)) + tx.amount
    BY <1>3 DEF InFlight, FlowInv
  <2>7. Total(SinkBalances(book)) \in Nat
    BY <2>2, BalanceTotal DEF SinkNames
  <2>8. book.bal[Router] \in Nat /\ book.bal[Receiver] \in Nat
    BY <1>1, <1>2, BookFields
  <2>9. Total(SinkBalances(book))' + book'.bal[Receiver] + book'.bal[Router]
          = Total(SinkBalances(committed))' + tx'.amount
    BY <1>2, <1>5, <1>9, <1>12, <1>13, <2>4, <2>5, <2>6, <2>7, <2>8
  <2>10. \A t \in SinkNames \ {"DATA_YIELD"} : book'.paid[t] = committed'.paid[t]
    BY <1>3, <1>9, <1>12, <1>13 DEF InFlight, FlowInv
  <2> QED
    BY <2>1, <2>3, <2>9, <2>10 DEF InFlight
<1>18. AllocationRecorded'
  <2>1. TreasuryFloorKept(tx.shares, tx.amount)' <=> TreasuryFloorKept(tx.shares, tx.amount)
    BY <1>13 DEF TreasuryFloorKept
  <2>2. Total(tx.shares)' = Total(tx.shares)
    BY <1>13 DEF Total
  <2> QED
    BY <1>3, <1>9, <1>12, <1>13, <2>1, <2>2 DEF AllocationRecorded, FlowInv
<1>19. CommittedAtRest' /\ HistoryMatchesInflows' /\ TreasuryFloorInHistory'
  BY <1>13 DEF FlowInv, CommittedAtRest, HistoryMatchesInflows, TreasuryFloorInHistory
<1> QED
  BY <1>14, <1>15, <1>16, <1>17, <1>18, <1>19 DEF FlowInv

\* What FinishInflow commits: the whole amount is with the sinks.
LEMMA FinishCommits ==
    ASSUME FlowInv, FinishInflow
    PROVE  /\ committed' \in Book /\ book' = committed' /\ tx' = NoTx
           /\ committed'.bal = book.bal /\ committed'.received = book.received
           /\ committed'.paid = book.paid /\ committed'.inflows = book.inflows
           /\ committed'.history = book.history /\ ~committed'.entered
           /\ book.bal[Receiver] = 0 /\ book.bal[Router] = 0
           /\ tx.phase = "routing"
<1>1. book \in Book /\ tx.shares \in [SinkNames -> Nat]
  BY DEF FlowInv, FlowTypeOK
<1>2. tx.phase = "routing" /\ tx.next = 7
  BY DEF FinishInflow
<1>3. Unrouted(tx.shares, tx.next) = 0
  BY <1>1, <1>2, UnroutedSteps
<1>4. book.bal[Receiver] = 0 /\ book.bal[Router] = 0
  BY <1>2, <1>3 DEF FlowInv, EtherInFlight
<1>5. book' = [book EXCEPT !.entered = FALSE] /\ committed' = book' /\ tx' = NoTx
  BY DEF FinishInflow
<1> QED
  BY <1>1, <1>2, <1>4, <1>5 DEF Book

LEMMA FinishInflowStep ==
    ASSUME FlowInv, FinishInflow
    PROVE  FlowInv'
<1> DEFINE record == [totalInflow |-> tx.amount, shares |-> tx.shares]
<1>1. /\ committed' \in Book /\ book' = committed' /\ tx' = NoTx
      /\ committed'.bal = book.bal /\ committed'.received = book.received
      /\ committed'.paid = book.paid /\ committed'.inflows = book.inflows
      /\ committed'.history = book.history /\ ~committed'.entered
      /\ book.bal[Receiver] = 0 /\ book.bal[Router] = 0
      /\ tx.phase = "routing"
  BY FinishCommits
<1>2. CommittedAtRest'
  BY <1>1 DEF CommittedAtRest, FlowInv, SinkBooksBalance
<1>3. PICK inflow \in [amount : Inflows, sender : Sources] :
        inflow.amount = tx.amount /\ book.inflows = Append(committed.inflows, inflow)
  BY <1>1 DEF FlowInv, InFlight
<1>4. /\ book.history = Append(committed.history, record)
      /\ Total(tx.shares) = tx.amount /\ TreasuryFloorKept(tx.shares, tx.amount)
  BY <1>1 DEF FlowInv, AllocationRecorded
<1>5. /\ committed.inflows \in Seq(InflowRecord)
      /\ committed.history \in Seq(AllocationRecord)
      /\ tx.amount \in Nat /\ tx.shares \in [SinkNames -> Nat]
  BY BookFields DEF FlowInv, FlowTypeOK
<1>6. inflow \in InflowRecord /\ record \in AllocationRecord
  BY <1>5, RailAssumption DEF RailAssumption, InflowRecord, AllocationRecord
<1>7. /\ Len(committed'.inflows) = Len(committed.inflows) + 1
      /\ \A i \in 1 .. Len(committed.inflows) : committed'.inflows[i] = committed.inflows[i]
      /\ committed'.inflows[Len(committed.inflows) + 1] = inflow
  BY <1>1, <1>3, <1>5, <1>6, AppendProperties
<1>8. /\ Len(committed'.history) = Len(committed.history) + 1
      /\ \A i \in 1 .. Len(committed.history) : committed'.history[i] = committed.history[i]
      /\ committed'.history[Len(committed.history) + 1] = record
  BY <1>1, <1>4, <1>5, <1>6, AppendProperties
<1>9. Len(committed.history) \in Nat /\ Len(committed.inflows) = Len(committed.history)
  BY <1>5, LenProperties DEF FlowInv, HistoryMatchesInflows
<1> DEFINE n == Len(committed.history)
<1>10. \A i \in 1 .. (n + 1) : i \in 1 .. n \/ i = n + 1
  BY <1>9
<1>11. /\ record.totalInflow = tx.amount /\ record.shares = tx.shares
  OBVIOUS
<1> HIDE DEF record
<1>12. HistoryMatchesInflows'
  <2>1. ASSUME NEW i \in 1 .. (n + 1)
        PROVE  /\ committed'.history[i].totalInflow = committed'.inflows[i].amount
               /\ Total(committed'.history[i].shares) = committed'.inflows[i].amount
    <3>1. CASE i \in 1 .. n
      <4>1. /\ committed.history[i].totalInflow = committed.inflows[i].amount
            /\ Total(committed.history[i].shares) = committed.inflows[i].amount
        BY <3>1 DEF FlowInv, HistoryMatchesInflows
      <4> QED
        BY <1>7, <1>8, <1>9, <3>1, <4>1
    <3>2. CASE i = n + 1
      BY <1>3, <1>4, <1>7, <1>8, <1>9, <1>11, <3>2
    <3> QED
      BY <1>10, <3>1, <3>2
  <2> QED
    BY <1>7, <1>8, <1>9, <2>1 DEF HistoryMatchesInflows, Total
<1>13. TreasuryFloorInHistory'
  <2>1. ASSUME NEW i \in 1 .. (n + 1)
        PROVE  TreasuryFloorKept(committed'.history[i].shares, committed'.history[i].totalInflow)
    <3>1. CASE i \in 1 .. n
      <4>1. TreasuryFloorKept(committed.history[i].shares, committed.history[i].totalInflow)
        BY <3>1 DEF FlowInv, TreasuryFloorInHistory
      <4> QED
        BY <1>8, <3>1, <4>1
    <3>2. CASE i = n + 1
      BY <1>4, <1>8, <1>11, <3>2
    <3> QED
      BY <1>10, <3>1, <3>2
  <2> QED
    BY <1>8, <1>9, <2>1 DEF TreasuryFloorInHistory, TreasuryFloorKept
<1> QED
  BY <1>1, <1>2, <1>12, <1>13, NoTxLemma, IdleFlowInv
-----------------------------------------------------------------------------
\* The inductive invariant.

LEMMA RailInvInit == Init => RailInv
  BY ConfigInit, FlowInit DEF RailInv

LEMMA RailInvStep == RailInv /\ [Next]_vars => RailInv'
<1> SUFFICES ASSUME RailInv, [Next]_vars PROVE RailInv'
  OBVIOUS
<1>1. ConfigTypeOK'
  BY ConfigStep DEF RailInv
<1>2. ConfigTypeOK /\ FlowInv
  BY DEF RailInv
<1>3. CASE GovernWiring \/ GovernOperation
  BY <1>1, <1>2, <1>3, GovernanceKeepsFlow, FlowInvStutter DEF RailInv
<1>4. CASE InflowStep
  <2>1. CASE \E source \in Sources, amount \in Inflows : ReceiveInflow(source, amount)
    BY <1>1, <1>2, <2>1, ReceiveInflowStep DEF RailInv
  <2>2. CASE ProcessInflow
    BY <1>1, <1>2, <2>2, ProcessInflowStep DEF RailInv
  <2>3. CASE Route
    BY <1>1, <1>2, <2>3, RouteStep DEF RailInv
  <2>4. CASE FinishInflow
    BY <1>1, <1>2, <2>4, FinishInflowStep DEF RailInv
  <2>5. CASE Revert
    BY <1>1, <1>2, <2>5, RevertStep DEF RailInv
  <2> QED
    BY <1>4, <2>1, <2>2, <2>3, <2>4, <2>5 DEF InflowStep
<1>5. CASE Withdrawal
  <2>1. PICK amount \in Draws, s \in SinkNames : PayOut(s, amount)
    BY <1>5 DEF Withdrawal, WithdrawToEngine, WithdrawOps, Distribute, FounderWithdraw,
                SinkNames
  <2>2. amount \in Nat
    BY RailAssumption DEF RailAssumption
  <2> QED
    BY <1>1, <1>2, <2>1, <2>2, PayOutStep DEF RailInv
<1>6. CASE UNCHANGED vars
  <2>1. UNCHANGED flow
    BY <1>6 DEF vars, flow
  <2> QED
    BY <1>1, <1>2, <2>1, FlowInvStutter DEF RailInv
<1> QED
  BY <1>3, <1>4, <1>5, <1>6 DEF Next

THEOREM RailInvariant == Spec => []RailInv
  BY RailInvInit, RailInvStep, PTL DEF Spec

\* Types hold throughout: no balance goes below zero and the policy in force is
\* always one that updateAllocationPolicy accepts.
THEOREM TypeCorrect == Spec => []TypeOK
<1>1. RailInv => TypeOK
  BY DEF RailInv, FlowInv, TypeOK
<1> QED
  BY <1>1, RailInvariant, PTL

\* Between any two calls of an inflow the ether in flight is exactly where the
\* next call expects it, and none of it stays behind when the transaction ends.
THEOREM EtherAccountedFor == Spec => []EtherInFlight
<1>1. RailInv => EtherInFlight
  BY DEF RailInv, FlowInv
<1> QED
  BY <1>1, RailInvariant, PTL

\* What a sink says it received is what it holds and what it paid out.
THEOREM BooksAlwaysBalance == Spec => []SinkBooksBalance
<1>1. RailInv => SinkBooksBalance
  BY DEF RailInv, FlowInv
<1> QED
  BY <1>1, RailInvariant, PTL

\* The receiver's inflows and the router's history agree, however many inflows
\* failed half way in between.
THEOREM HistoryAgrees == Spec => []HistoryMatchesInflows
<1>1. RailInv => HistoryMatchesInflows
  BY DEF RailInv, FlowInv
<1> QED
  BY <1>1, RailInvariant, PTL

\* No sequence of policies gives the treasury less than 40 % of an inflow.
THEOREM TreasuryFloorAlways == Spec => []TreasuryFloorInHistory
<1>1. RailInv => TreasuryFloorInHistory
  BY DEF RailInv, FlowInv
<1> QED
  BY <1>1, RailInvariant, PTL
-----------------------------------------------------------------------------
\* The rail implements the ledger.

LedgerHeld == [s \in SinkNames |-> committed.bal[s]]
LedgerPaid == [s \in Payers |-> committed.paid[s]]

LEMMA LedgerTotals == \A f : Ledger!Total(f) = Total(f)
  BY DEF Ledger!Total, Total

LEMMA LedgerNames == Ledger!SinkNames = SinkNames
  BY DEF Ledger!SinkNames, SinkNames

\* A rail on which nothing has happened is an empty ledger.
LEMMA LedgerInit == Init => Ledger!Init
<1> SUFFICES ASSUME Init PROVE Ledger!Init
  OBVIOUS
<1>1. committed = EmptyBook
  BY DEF Init
<1>2. Payers \subseteq SinkNames /\ SinkNames \subseteq Accounts
  BY NamesDistinct DEF Payers, SinkNames
<1>3. LedgerHeld = [s \in SinkNames |-> 0]
  BY <1>1, <1>2, EmptyBookLemma DEF LedgerHeld
<1>4. LedgerPaid = [s \in Payers |-> 0]
  BY <1>1, <1>2, EmptyBookLemma DEF LedgerPaid
<1> QED
  BY <1>1, <1>3, <1>4, EmptyBookLemma, LedgerNames DEF Ledger!Init, LedgerHeld, LedgerPaid

\* A step that leaves the committed book alone is a stutter of the ledger.
LEMMA LedgerStutter == UNCHANGED committed => UNCHANGED Ledger!vars
  BY DEF Ledger!vars

\* The commit of an inflow is a deposit.
LEMMA LedgerDeposit ==
    ASSUME FlowInv, FinishInflow
    PROVE  \E inflow \in [amount : Inflows, sender : Sources] : Ledger!Deposit(inflow)
<1>1. /\ committed' \in Book
      /\ committed'.bal = book.bal /\ committed'.paid = book.paid
      /\ committed'.inflows = book.inflows
      /\ book.bal[Receiver] = 0 /\ book.bal[Router] = 0
      /\ tx.phase = "routing"
  BY FinishCommits
<1>2. PICK inflow \in [amount : Inflows, sender : Sources] :
        inflow.amount = tx.amount /\ book.inflows = Append(committed.inflows, inflow)
  BY <1>1 DEF FlowInv, InFlight
<1>3. /\ \A s \in SinkNames : book.bal[s] >= committed.bal[s]
      /\ Total(SinkBalances(book)) + book.bal[Receiver] + book.bal[Router]
           = Total(SinkBalances(committed)) + tx.amount
      /\ \A s \in SinkNames \ {"DATA_YIELD"} : book.paid[s] = committed.paid[s]
      /\ Payers \subseteq SinkNames \ {"DATA_YIELD"}
  BY <1>1 DEF FlowInv, InFlight, Payers, SinkNames
<1>4. LedgerHeld = SinkBalances(committed) /\ LedgerHeld' = SinkBalances(book)
  BY <1>1 DEF LedgerHeld, SinkBalances
<1>5. LedgerHeld' \in [SinkNames -> Nat] /\ LedgerHeld \in [SinkNames -> Nat]
  <2>1. committed'.bal \in [Accounts -> Nat] /\ committed.bal \in [Accounts -> Nat]
    BY <1>1, BookFields DEF FlowInv, FlowTypeOK
  <2> QED
    BY <2>1, NamesDistinct DEF LedgerHeld
<1>6. Total(LedgerHeld') = Total(LedgerHeld) + inflow.amount
  <2>1. Total(LedgerHeld') \in Nat /\ Total(LedgerHeld) \in Nat /\ tx.amount \in Nat
    BY <1>5 DEF Total, SinkNames, FlowInv, FlowTypeOK
  <2> QED
    BY <1>1, <1>2, <1>3, <1>4, <2>1
<1>7. \A s \in SinkNames : LedgerHeld'[s] >= LedgerHeld[s]
  BY <1>1, <1>3 DEF LedgerHeld
<1>8. LedgerPaid' = LedgerPaid
  BY <1>1, <1>3 DEF LedgerPaid
<1>9. committed'.inflows = Append(committed.inflows, inflow)
  BY <1>1, <1>2
<1>10. Ledger!Deposit(inflow)
  BY <1>5, <1>6, <1>7, <1>8, <1>9, LedgerTotals, LedgerNames
     DEF Ledger!Deposit, LedgerHeld, LedgerPaid
<1> QED
  BY <1>2, <1>10

\* A withdrawal is a payout by one of the payers.
LEMMA LedgerPayout ==
    ASSUME FlowInv, NEW s \in Payers, NEW amount \in Nat, PayOut(s, amount)
    PROVE  Ledger!Payout(s)
<1>1. s \in SinkNames /\ Payers \subseteq SinkNames /\ SinkNames \subseteq Accounts
  BY NamesDistinct DEF Payers, SinkNames
<1>2. /\ committed \in Book /\ committed.bal \in [Accounts -> Nat]
      /\ committed.paid \in [SinkNames -> Nat]
  BY BookFields DEF FlowInv, FlowTypeOK
<1>3. /\ committed.bal[s] \in Nat /\ committed.paid[s] \in Nat
      /\ amount <= committed.bal[s]
  BY <1>1, <1>2 DEF PayOut
<1>4. committed' = [committed EXCEPT !.bal = [committed.bal EXCEPT ![s] = @ - amount],
                                     !.paid = [committed.paid EXCEPT ![s] = @ + amount]]
  BY DEF PayOut
<1>5. /\ committed'.bal = [committed.bal EXCEPT ![s] = @ - amount]
      /\ committed'.paid = [committed.paid EXCEPT ![s] = @ + amount]
      /\ committed'.inflows = committed.inflows
  BY <1>2, <1>4 DEF Book
<1>6. /\ LedgerHeld'[s] = LedgerHeld[s] - amount
      /\ LedgerHeld' = [LedgerHeld EXCEPT ![s] = LedgerHeld'[s]]
      /\ LedgerHeld[s] = committed.bal[s]
  BY <1>1, <1>2, <1>5 DEF LedgerHeld
<1>7. LedgerPaid' = [LedgerPaid EXCEPT ![s] = @ + amount]
  BY <1>1, <1>2, <1>5 DEF LedgerPaid
<1>8. LedgerHeld'[s] \in 0 .. LedgerHeld[s] /\ LedgerHeld[s] - LedgerHeld'[s] = amount
  BY <1>3, <1>6
<1> QED
  BY <1>5, <1>6, <1>7, <1>8 DEF Ledger!Payout, LedgerHeld, LedgerPaid

LEMMA LedgerStep == RailInv /\ [Next]_vars => [Ledger!Next]_(Ledger!vars)
<1> SUFFICES ASSUME RailInv, [Next]_vars PROVE Ledger!Next \/ UNCHANGED Ledger!vars
  OBVIOUS
<1>1. FlowInv
  BY DEF RailInv
<1>2. CASE GovernWiring \/ GovernOperation
  <2>1. UNCHANGED flow
    BY <1>2, GovernanceKeepsFlow
  <2> QED
    BY <2>1, LedgerStutter DEF flow
<1>3. CASE InflowStep
  <2>1. CASE FinishInflow
    BY <1>1, <2>1, LedgerDeposit DEF Ledger!Next
  <2>2. CASE ~FinishInflow
    <3>1. UNCHANGED committed
      BY <1>3, <2>2 DEF InflowStep, ReceiveInflow, ProcessInflow, Route, Revert
    <3> QED
      BY <3>1, LedgerStutter
  <2> QED
    BY <2>1, <2>2
<1>4. CASE Withdrawal
  <2>1. PICK amount \in Draws, s \in Payers : PayOut(s, amount)
    BY <1>4 DEF Withdrawal, WithdrawToEngine, WithdrawOps, Distribute, FounderWithdraw,
                Payers
  <2>2. amount \in Nat
    BY RailAssumption DEF RailAssumption
  <2> QED
    BY <1>1, <2>1, <2>2, LedgerPayout DEF Ledger!Next
<1>5. CASE UNCHANGED vars
  BY <1>5, LedgerStutter DEF vars
<1> QED
  BY <1>2, <1>3, <1>4, <1>5 DEF Next

\* Seen from outside, an inflow of eight calls, any of which may fail, is one
\* deposit that happens whole or not at all, and ether leaves the rail only
\* through the four sinks that have a withdrawal function.
THEOREM RailImplementsLedger == Spec => ImplementsLedger
  BY RailInvariant, LedgerInit, LedgerStep, PTL DEF Spec, Ledger!Spec, ImplementsLedger
-----------------------------------------------------------------------------
\* The wiring.

Wired == /\ receiver.router # NoAddr => receiver'.router = receiver.router
         /\ router.receiver # NoAddr => router'.receiver = router.receiver
         /\ \A s \in SinkNames :
              sinks[s].router # NoAddr => sinks'[s].router = sinks[s].router

LEMMA WiringStep == ConfigTypeOK /\ [Next]_vars => [Wired]_vars
<1> SUFFICES ASSUME ConfigTypeOK, [Next]_vars PROVE Wired
  BY DEF vars
<1>1. /\ receiver \in [router : RouterAddrs \union {NoAddr}, paused : BOOLEAN,
                        approved : SUBSET Sources]
      /\ router \in [receiver : ReceiverAddrs \union {NoAddr}, paused : BOOLEAN,
                      policy : AllocationPolicy, sinks : [SinkNames -> SinkConfig]]
      /\ sinks \in [SinkNames -> [router : RouterAddrs \union {NoAddr},
                                   paused : BOOLEAN]]
  BY DEF ConfigTypeOK
<1>2. CASE UNCHANGED <<receiver, router, sinks>>
  BY <1>2 DEF Wired
<1>3. CASE GovernWiring
  <2>1. CASE \E addr \in RouterAddrs : SetReceiverRouter(addr)
    BY <2>1 DEF SetReceiverRouter, Wired
  <2>2. CASE \E addr \in ReceiverAddrs : SetRouterReceiver(addr)
    BY <2>2 DEF SetRouterReceiver, Wired
  <2>3. CASE \E s \in SinkNames, addr \in RouterAddrs : SetSinkRouter(s, addr)
    BY <1>1, <2>3 DEF SetSinkRouter, Wired
  <2>4. CASE \E r \in Registrations : RegisterSink(r[1], r[2], r[3])
    BY <1>1, <2>4 DEF RegisterSink, Wired
  <2>5. CASE \E addr \in SinkAddrs : SetMevSink(addr) \/ SetDataYieldSource(addr)
    BY <1>2, <2>5 DEF SetMevSink, SetDataYieldSource
  <2> QED
    BY <1>3, <2>1, <2>2, <2>3, <2>4, <2>5 DEF GovernWiring
<1>4. CASE GovernOperation
  <2>1. CASE \E b \in BOOLEAN : PauseReceiver(b)
    BY <1>1, <2>1 DEF PauseReceiver, Wired
  <2>2. CASE \E b \in BOOLEAN : PauseRouter(b)
    BY <1>1, <2>2 DEF PauseRouter, Wired
  <2>3. CASE \E s \in SinkNames, b \in BOOLEAN : PauseSink(s, b)
    BY <1>1, <2>3 DEF PauseSink, Wired
  <2>4. CASE \E source \in Sources, b \in BOOLEAN : SetApprovedSource(source, b)
    BY <1>1, <2>4 DEF SetApprovedSource, Wired
  <2>5. CASE \E p \in PolicyChoices : UpdateAllocationPolicy(p)
    BY <1>1, <2>5 DEF UpdateAllocationPolicy, Wired
  <2>6. CASE \/ \E b \in BOOLEAN : SetPhase3Active(b)
             \/ \E f \in Founders : SetFounder(f)
             \/ \E b \in BOOLEAN : SetDrawsPaused(b)
    BY <1>2, <2>6 DEF SetPhase3Active, SetFounder, SetDrawsPaused
  <2> QED
    BY <1>4, <2>1, <2>2, <2>3, <2>4, <2>5, <2>6 DEF GovernOperation
<1>5. CASE InflowStep
  BY <1>2, <1>5 DEF InflowStep, ReceiveInflow, ProcessInflow, Route, FinishInflow, Revert,
                    config
<1>6. CASE Withdrawal
  BY <1>2, <1>6 DEF Withdrawal, WithdrawToEngine, WithdrawOps, Distribute,
                    FounderWithdraw, PayOut, config
<1>7. CASE UNCHANGED vars
  BY <1>2, <1>7 DEF vars
<1> QED
  BY <1>3, <1>4, <1>5, <1>6, <1>7 DEF Next

\* Once a receiver, router or sink has been given its peer, no sequence of
\* operations gives it another.
THEOREM WiringStaysLocked == Spec => WiringLocked
<1>1. Spec => []ConfigTypeOK
  <2>1. RailInv => ConfigTypeOK
    BY DEF RailInv
  <2> QED
    BY <2>1, RailInvariant, PTL
<1> QED
  BY <1>1, WiringStep, PTL DEF Spec, WiringLocked, Wired
-----------------------------------------------------------------------------
\* Every wei: the balances of the sinks and what was paid out of them add up to
\* the inflows on record.

Disbursed(b) == Total(b.paid) - b.paid["DATA_YIELD"]

InflowAmounts(b) == [i \in 1 .. Len(b.inflows) |-> b.inflows[i].amount]

\* One more inflow on record adds its amount to the total.
LEMMA InflowAdds ==
    ASSUME NEW b \in Book, NEW nb, NEW inflow \in InflowRecord,
           nb.inflows = Append(b.inflows, inflow)
    PROVE  TotalInflow(nb) = TotalInflow(b) + inflow.amount
<1> DEFINE n == Len(b.inflows)
           w == InflowAmounts(b)
           v == InflowAmounts(nb)
<1>1. b.inflows \in Seq(InflowRecord) /\ n \in Nat
  BY BookFields, LenProperties
<1>2. /\ Len(nb.inflows) = n + 1 /\ nb.inflows[n + 1] = inflow
      /\ \A i \in 1 .. n : nb.inflows[i] = b.inflows[i]
  BY <1>1, AppendProperties
<1>3. /\ \A i \in 1 .. n : v[i] = w[i] /\ w[i] \in Nat
      /\ v[n + 1] = inflow.amount /\ inflow.amount \in Nat
  <2>1. \A i \in 1 .. n : b.inflows[i] \in InflowRecord
    BY <1>1, ElementOfSeq
  <2>2. \A i \in 1 .. n : b.inflows[i].amount \in Nat
    BY <2>1 DEF InflowRecord
  <2>3. inflow.amount \in Nat
    BY DEF InflowRecord
  <2> QED
    BY <1>1, <1>2, <2>2, <2>3 DEF InflowAmounts
<1> HIDE DEF w, v
<1>4. Summable(w, n) /\ Summable(v, n + 1)
  <2>1. \A i \in 1 .. (n + 1) : i \in 1 .. n \/ i = n + 1
    BY <1>1
  <2>2. \A i \in 1 .. (n + 1) : v[i] \in Int
    BY <1>3, <2>1
  <2> QED
    BY <1>3, <2>2 DEF Summable
<1>5. SumUpTo(v, n + 1) = SumUpTo(v, n) + v[n + 1]
  BY <1>1, <1>4, SumOfNext
<1>6. SumUpTo(v, n) = SumUpTo(w, n)
  BY <1>1, <1>3, <1>4, SumOfSame
<1> QED
  BY <1>2, <1>3, <1>5, <1>6 DEF TotalInflow, w, v, InflowAmounts

\* The commit of an inflow adds its amount to the sinks and to the record.
LEMMA FinishRoutes ==
    ASSUME FlowInv, EveryWeiRouted, FinishInflow
    PROVE  EveryWeiRouted'
<1>1. /\ committed' \in Book
      /\ committed'.bal = book.bal /\ committed'.paid = book.paid
      /\ committed'.inflows = book.inflows
      /\ book.bal[Receiver] = 0 /\ book.bal[Router] = 0
      /\ tx.phase = "routing"
  BY FinishCommits
<1>2. PICK inflow \in [amount : Inflows, sender : Sources] :
        inflow.amount = tx.amount /\ book.inflows = Append(committed.inflows, inflow)
  BY <1>1 DEF FlowInv, InFlight
<1>3. /\ Total(SinkBalances(book)) + book.bal[Receiver] + book.bal[Router]
           = Total(SinkBalances(committed)) + tx.amount
      /\ \A s \in SinkNames \ {"DATA_YIELD"} : book.paid[s] = committed.paid[s]
  BY <1>1 DEF FlowInv, InFlight
<1>4. /\ committed \in Book /\ book \in Book /\ inflow \in InflowRecord /\ tx.amount \in Nat
  BY RailAssumption DEF FlowInv, FlowTypeOK, RailAssumption, InflowRecord
<1>5. TotalInflow(committed') = TotalInflow(committed) + tx.amount
  BY <1>1, <1>2, <1>4, InflowAdds
<1>6. /\ \A s \in SinkNames : /\ committed.bal[s] \in Nat /\ book.bal[s] \in Nat
                              /\ committed.paid[s] \in Nat /\ book.paid[s] \in Nat
  BY <1>4, BookFields, NamesDistinct
<1>7. Disbursed(committed') = Disbursed(committed) /\ Disbursed(committed) \in Nat
  BY <1>1, <1>3, <1>6 DEF Disbursed, Total, SinkNames
<1>8. /\ Total(SinkBalances(book)) \in Nat /\ Total(SinkBalances(committed)) \in Nat
  BY <1>6, BalanceTotal DEF SinkNames
<1>9. Total(SinkBalances(committed')) = Total(SinkBalances(committed)) + tx.amount
  BY <1>1, <1>3, <1>4, <1>8 DEF SinkBalances
<1>10. \A b : Total([s \in SinkNames |-> b.bal[s]]) = Total(SinkBalances(b))
  BY DEF SinkBalances
<1>11. /\ Total(SinkBalances(committed)) + Total(committed.paid) - committed.paid["DATA_YIELD"]
            = TotalInflow(committed)
       /\ Total(committed.paid) \in Nat /\ committed.paid["DATA_YIELD"] \in Nat
       /\ Total(committed'.paid) \in Nat /\ committed'.paid["DATA_YIELD"] \in Nat
  BY <1>1, <1>6, <1>10 DEF EveryWeiRouted, Total, SinkNames
<1>12. Total(SinkBalances(committed')) + Total(committed'.paid) - committed'.paid["DATA_YIELD"]
            = TotalInflow(committed')
  BY <1>4, <1>5, <1>7, <1>8, <1>9, <1>11 DEF Disbursed
<1> QED
  BY <1>10, <1>12 DEF EveryWeiRouted

\* A withdrawal moves ether from a balance to what was paid out.
LEMMA PayOutRoutes ==
    ASSUME FlowInv, EveryWeiRouted, NEW s \in Payers, NEW amount \in Nat, PayOut(s, amount)
    PROVE  EveryWeiRouted'
<1>1. s \in SinkNames /\ s # "DATA_YIELD" /\ SinkNames \subseteq Accounts
  BY NamesDistinct DEF Payers, SinkNames
<1>2. /\ committed \in Book /\ committed.bal \in [Accounts -> Nat]
      /\ committed.paid \in [SinkNames -> Nat]
  BY BookFields DEF FlowInv, FlowTypeOK
<1>3. committed' = [committed EXCEPT !.bal = [committed.bal EXCEPT ![s] = @ - amount],
                                     !.paid = [committed.paid EXCEPT ![s] = @ + amount]]
  BY DEF PayOut
<1>4. /\ committed'.bal = [committed.bal EXCEPT ![s] = @ - amount]
      /\ committed'.paid = [committed.paid EXCEPT ![s] = @ + amount]
      /\ committed'.inflows = committed.inflows
  BY <1>2, <1>3 DEF Book
<1>5. \A t \in SinkNames :
        /\ committed.bal[t] \in Nat /\ committed.paid[t] \in Nat
        /\ t # s => committed'.bal[t] = committed.bal[t] /\ committed'.paid[t] = committed.paid[t]
        /\ t = s => /\ committed'.bal[t] = committed.bal[t] - amount
                    /\ committed'.paid[t] = committed.paid[t] + amount
  BY <1>1, <1>2, <1>4
<1>6. Total([t \in SinkNames |-> committed'.bal[t]])
        = Total([t \in SinkNames |-> committed.bal[t]]) - amount
  BY <1>1, <1>5 DEF Total, SinkNames
<1>7. /\ Total(committed'.paid) = Total(committed.paid) + amount
      /\ committed'.paid["DATA_YIELD"] = committed.paid["DATA_YIELD"]
  BY <1>1, <1>5 DEF Total, SinkNames
<1>8. /\ Total([t \in SinkNames |-> committed.bal[t]]) \in Nat
      /\ Total(committed.paid) \in Nat /\ committed.paid["DATA_YIELD"] \in Nat
  BY <1>5 DEF Total, SinkNames
<1>9. TotalInflow(committed') = TotalInflow(committed)
  BY <1>4 DEF TotalInflow
<1> QED
  BY <1>6, <1>7, <1>8, <1>9 DEF EveryWeiRouted

LEMMA StepRoutes == RailInv /\ EveryWeiRouted /\ [Next]_vars => EveryWeiRouted'
<1> SUFFICES ASSUME RailInv, EveryWeiRouted, [Next]_vars PROVE EveryWeiRouted'
  OBVIOUS
<1>1. FlowInv
  BY DEF RailInv
<1>2. ASSUME UNCHANGED committed PROVE EveryWeiRouted'
  BY <1>2 DEF EveryWeiRouted
<1>3. CASE GovernWiring \/ GovernOperation
  BY <1>2, <1>3, GovernanceKeepsFlow DEF flow
<1>4. CASE InflowStep
  <2>1. CASE FinishInflow
    BY <1>1, <2>1, FinishRoutes
  <2>2. CASE ~FinishInflow
    BY <1>2, <1>4, <2>2 DEF InflowStep, ReceiveInflow, ProcessInflow, Route, Revert
  <2> QED
    BY <2>1, <2>2
<1>5. CASE Withdrawal
  <2>1. PICK amount \in Draws, s \in Payers : PayOut(s, amount)
    BY <1>5 DEF Withdrawal, WithdrawToEngine, WithdrawOps, Distribute, FounderWithdraw,
                Payers
  <2>2. amount \in Nat
    BY RailAssumption DEF RailAssumption
  <2> QED
    BY <1>1, <2>1, <2>2, PayOutRoutes
<1>6. CASE UNCHANGED vars
  BY <1>2, <1>6 DEF vars
<1> QED
  BY <1>3, <1>4, <1>5, <1>6 DEF Next

LEMMA InitRoutes == Init => EveryWeiRouted
<1> SUFFICES ASSUME Init PROVE EveryWeiRouted
  OBVIOUS
<1>1. committed = EmptyBook /\ Len(committed.inflows) = 0
  BY DEF Init, EmptyBook
<1>2. TotalInflow(committed) = 0
  BY <1>1, SumOfNone DEF TotalInflow
<1>3. \A s \in SinkNames : committed.bal[s] = 0 /\ committed.paid[s] = 0
  BY <1>1, EmptyBookLemma, NamesDistinct
<1> QED
  BY <1>2, <1>3 DEF EveryWeiRouted, Total, SinkNames

\* No wei is lost or made on the way from the receiver to the sinks, over any
\* number of inflows, withdrawals and changes of the wiring: what the sinks hold
\* and have paid out, DataYield's forwarding left aside, is what came in.
THEOREM EveryWeiIsRouted == Spec => []EveryWeiRouted
  BY RailInvariant, InitRoutes, StepRoutes, PTL DEF Spec
=============================================================================
